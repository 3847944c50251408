---------------------------- MODULE Manager_proofs ----------------------------
(***************************************************************************)
(* Proofs about the orchestrator (Manager) for every set of receiver lists *)
(* and every number of config changes: the type invariant, and that a      *)
(* clean shutdown leaves no mesh-extension resource behind.                *)
(***************************************************************************)
EXTENDS Manager, SequenceTheorems, TLAPS

\* A reload consumes a config change: the generation never outruns the
\* changes, and a callback blocked on m.configChan holds a change not yet
\* turned into a generation.
GenBound ==
  /\ gen <= changes + 1
  /\ watcher = "sending" => (1 <= changes /\ gen <= changes)

\* The main loop runs with a generation of m.receiversCtx.
RunningGen == main = "running" => gen \in Gens

\* The generations after the current one have not started.
FreshGens == \A g \in Gens, i \in Slots : g > gen => rstate[g][i] = "absent"

\* Before Init, there is no generation.
InitGen == main = "init" => gen = 0

\* The type invariant is inductive with the generation bounds.
TInv == TypeOK /\ GenBound /\ RunningGen /\ InitGen

\* The resource exists only while some reconciler that created it is up.
PluginHeld ==
  plugin => \E g \in Gens, i \in Slots : rstate[g][i] = "up" /\ cfgOf[g][i] = Gateway

\* run reaches "done" only through m.Wg.Wait(), and nothing starts after.
DoneDrained == main = "done" => AllReceiversExited

\* The inductive invariant behind ResourceRemovedOnCleanShutdown.
IInv == TInv /\ FreshGens /\ PluginHeld /\ DoneDrained

(* receiver.Init leaves each slot started or absent. *)
LEMMA LaunchType == \A c : Launch(c) \in [Slots -> RStates]
BY DEF Launch, RStates

(* The initial state satisfies the strengthened type invariant. *)
LEMMA TInvInit == Init => TInv
<1> SUFFICES ASSUME Init PROVE TInv
  OBVIOUS
<1>1. <<>> \in Seq(Names)
  BY EmptySeq
<1>2. cfgOf \in [Gens -> Seq(Names)]
  BY <1>1 DEF Init
<1>3. rstate \in [Gens -> [Slots -> RStates]]
  BY DEF Init, RStates
<1>4. gen \in 0..(MaxChanges + 1) /\ changes \in 0..MaxChanges
  BY ConfigsAssumption DEF Init
<1>5. TypeOK
  BY <1>1, <1>2, <1>3, <1>4 DEF Init, TypeOK, MainStates
<1>6. QED BY <1>5, ConfigsAssumption DEF Init, TInv, GenBound, RunningGen, InitGen

(* Every step of Manager.run, the watcher, the signal handlers and the     *)
(* receivers preserves the strengthened type invariant.                    *)
LEMMA TInvStep == TInv /\ [Next]_vars => TInv'
<1> SUFFICES ASSUME TInv, [Next]_vars PROVE TInv'
  OBVIOUS
<1> USE ConfigsAssumption, LaunchType DEF TInv, TypeOK, GenBound, RunningGen, InitGen,
        MainStates, Gens
<1>1. CASE StartUp
  <2>1. PICK c \in Configs :
          \/ main' = "failed" /\ UNCHANGED <<gen, cfgOf, rstate, servers, workers>>
          \/ /\ gen' = 1
             /\ cfgOf' = [cfgOf EXCEPT ![1] = c]
             /\ rstate' = [rstate EXCEPT ![1] = Launch(c)]
             /\ servers' = "up"
             /\ workers' \in BOOLEAN
             /\ main' \in {"running", "failed"}
    BY <1>1, Zenon DEF StartUp
  <2>2. c \in Seq(Names) /\ Launch(c) \in [Slots -> RStates] /\ 1 \in Gens
    OBVIOUS
  <2>3. UNCHANGED <<genCancelled, rootCancelled, plugin, watcher, pending, changes>>
    BY <1>1 DEF StartUp
  <2>4. gen = 0
    BY <1>1 DEF StartUp
  <2>5. CASE main' = "failed" /\ UNCHANGED <<gen, cfgOf, rstate, servers, workers>>
    BY <2>3, <2>5
  <2>6. CASE /\ gen' = 1
             /\ cfgOf' = [cfgOf EXCEPT ![1] = c]
             /\ rstate' = [rstate EXCEPT ![1] = Launch(c)]
             /\ servers' = "up"
             /\ workers' \in BOOLEAN
             /\ main' \in {"running", "failed"}
    BY <2>2, <2>3, <2>4, <2>6
  <2>7. QED BY <2>1, <2>5, <2>6
<1>2. CASE ConfigChange
  BY <1>2 DEF ConfigChange
<1>3. CASE Reload
  <2>1. gen \in Gens /\ gen + 1 \in Gens
    BY <1>3 DEF Reload
  <2>2. /\ watcher' = "idle" /\ pending' = <<>>
        /\ genCancelled' = [genCancelled EXCEPT ![gen] = TRUE]
        /\ UNCHANGED <<rootCancelled, plugin, workers, servers, changes>>
    BY <1>3 DEF Reload
  <2>3. pending \in Seq(Names) /\ Launch(pending) \in [Slots -> RStates] /\ <<>> \in Seq(Names)
    BY EmptySeq
  <2>4. CASE main' = "failed" /\ UNCHANGED <<gen, cfgOf, rstate>>
    BY <2>2, <2>3, <2>4
  <2>5. CASE /\ gen' = gen + 1
             /\ cfgOf' = [cfgOf EXCEPT ![gen + 1] = pending]
             /\ rstate' = [rstate EXCEPT ![gen + 1] = Launch(pending)]
             /\ main' \in {"failed", "running"}
    BY <1>3, <2>1, <2>2, <2>3, <2>5 DEF Reload
  <2>6. QED BY <1>3, <2>4, <2>5 DEF Reload
<1>4. CASE Shutdown
  BY <1>4 DEF Shutdown
<1>5. CASE Drained
  BY <1>5 DEF Drained
<1>6. CASE Signal
  BY <1>6 DEF Signal
<1>7. CASE ForceExit
  BY <1>7 DEF ForceExit
<1>8. CASE WorkersStop
  BY <1>8 DEF WorkersStop
<1>9. CASE ServersStop
  BY <1>9 DEF ServersStop
<1>10. ASSUME NEW g \in Gens, NEW i \in Slots, ReceiverStart(g, i) PROVE TInv'
  <2>1. plugin' \in BOOLEAN
    BY <1>10 DEF ReceiverStart
  <2>2. PICK v \in {"stopped", "up"} : rstate' = [rstate EXCEPT ![g][i] = v]
    BY <1>10 DEF ReceiverStart
  <2>3. rstate' \in [Gens -> [Slots -> RStates]]
    BY <2>2 DEF RStates
  <2>4. QED BY <1>10, <2>1, <2>3 DEF ReceiverStart
<1>11. ASSUME NEW g \in Gens, NEW i \in Slots, ReceiverStop(g, i) PROVE TInv'
  <2>1. plugin' \in BOOLEAN
    BY <1>11 DEF ReceiverStop
  <2>2. rstate' \in [Gens -> [Slots -> RStates]]
    BY <1>11 DEF ReceiverStop, RStates
  <2>3. QED BY <1>11, <2>1, <2>2 DEF ReceiverStop
<1>12. CASE UNCHANGED vars
  BY <1>12 DEF vars
<1>13. QED BY <1>1, <1>2, <1>3, <1>4, <1>5, <1>6, <1>7, <1>8, <1>9, <1>10,
              <1>11, <1>12 DEF Next

(* Every state Manager can reach is well typed, for every set of receiver  *)
(* lists and every number of config changes.                               *)
THEOREM TypeCorrect == Spec => []TypeOK
<1>1. Init => TInv
  BY TInvInit
<1>2. TInv /\ [Next]_vars => TInv'
  BY TInvStep
<1>3. TInv => TypeOK
  BY DEF TInv
<1>4. QED BY <1>1, <1>2, <1>3, PTL DEF Spec

(* Setting the state of one receiver goroutine leaves the others as they  *)
(* were.                                                                   *)
LEMMA ExceptSlot ==
  ASSUME NEW r \in [Gens -> [Slots -> RStates]], NEW g \in Gens, NEW i \in Slots,
         NEW v, NEW h \in Gens, NEW j \in Slots
  PROVE  [r EXCEPT ![g][i] = v][h][j] = IF h = g /\ j = i THEN v ELSE r[h][j]
BY DEF Gens, Slots

(* The initial state satisfies the invariant behind the resource cleanup. *)
LEMMA IInvInit == Init => IInv
<1> SUFFICES ASSUME Init PROVE IInv
  OBVIOUS
<1>1. TInv
  BY TInvInit
<1>2. FreshGens /\ PluginHeld /\ DoneDrained
  BY DEF Init, FreshGens, PluginHeld, DoneDrained
<1>3. QED BY <1>1, <1>2 DEF IInv

(* A step of the receivers, the reloads and the drain preserves the        *)
(* invariant: the reconciler that holds the resource stays up, and the     *)
(* generation a reload starts has never run.                               *)
LEMMA IInvStep == IInv /\ [Next]_vars => IInv'
<1> SUFFICES ASSUME IInv, [Next]_vars PROVE IInv'
  OBVIOUS
<1>0. TInv'
  BY TInvStep DEF IInv
<1>T. TypeOK /\ GenBound /\ RunningGen /\ InitGen /\ FreshGens /\ PluginHeld
  BY DEF IInv, TInv
<1> USE <1>T, ConfigsAssumption DEF IInv, TypeOK, Gens, Slots, RStates, Alive, Dead
<1>1. CASE StartUp
  <2>1. gen = 0 /\ ~plugin
    BY <1>1 DEF StartUp, InitGen, FreshGens, PluginHeld, TInv
  <2>2. PICK c \in Configs :
          \/ main' = "failed" /\ UNCHANGED <<gen, rstate>>
          \/ /\ gen' = 1
             /\ rstate' = [rstate EXCEPT ![1] = Launch(c)]
             /\ main' \in {"running", "failed"}
    BY <1>1, Zenon DEF StartUp
  <2>3. FreshGens'
    <3>1. CASE main' = "failed" /\ UNCHANGED <<gen, rstate>>
      BY <3>1 DEF FreshGens
    <3>2. CASE gen' = 1 /\ rstate' = [rstate EXCEPT ![1] = Launch(c)]
      BY <2>1, <3>2 DEF FreshGens
    <3>3. QED BY <2>2, <3>1, <3>2
  <2>4. main' # "done" /\ UNCHANGED plugin
    BY <2>2, <1>1 DEF StartUp
  <2>5. QED BY <1>0, <2>1, <2>3, <2>4 DEF PluginHeld, DoneDrained
<1>2. CASE ConfigChange
  BY <1>0, <1>2 DEF ConfigChange, FreshGens, PluginHeld, DoneDrained, AllReceiversExited
<1>3. CASE Reload
  <2>1. gen + 1 \in Gens
    BY <1>3 DEF Reload, TInv, GenBound, RunningGen, Gens
  <2>2. \A j \in Slots : rstate[gen + 1][j] = "absent"
    <3>1. gen + 1 > gen
      OBVIOUS
    <3>2. QED BY <2>1, <3>1, Zenon DEF FreshGens
  <2>3. main' # "done" /\ UNCHANGED plugin
    BY <1>3 DEF Reload
  <2>4. CASE main' = "failed" /\ UNCHANGED <<gen, cfgOf, rstate>>
    BY <1>0, <2>3, <2>4 DEF FreshGens, PluginHeld, DoneDrained
  <2>5. CASE /\ gen' = gen + 1
             /\ cfgOf' = [cfgOf EXCEPT ![gen + 1] = pending]
             /\ rstate' = [rstate EXCEPT ![gen + 1] = Launch(pending)]
    <3>1. FreshGens'
      <4>1. SUFFICES ASSUME NEW h \in Gens, NEW j \in Slots, h > gen + 1
                     PROVE  rstate'[h][j] = "absent"
        BY <2>5 DEF FreshGens
      <4>2. rstate'[h] = rstate[h]
        BY <2>5, <4>1
      <4>3. QED BY <4>1, <4>2 DEF FreshGens
    <3>2. PluginHeld'
      <4>1. SUFFICES ASSUME plugin
                     PROVE  \E h \in Gens, j \in Slots :
                              rstate'[h][j] = "up" /\ cfgOf'[h][j] = Gateway
        BY <2>3 DEF PluginHeld
      <4>2. PICK h \in Gens, j \in Slots : rstate[h][j] = "up" /\ cfgOf[h][j] = Gateway
        BY <4>1 DEF PluginHeld
      <4>3. h # gen + 1
        BY <2>2, <4>2
      <4>4. rstate'[h] = rstate[h] /\ cfgOf'[h] = cfgOf[h]
        BY <2>5, <4>3
      <4>5. QED BY <4>2, <4>4
    <3>3. QED BY <1>0, <2>3, <3>1, <3>2 DEF DoneDrained
  <2>6. QED BY <1>3, <2>4, <2>5 DEF Reload
<1>4. CASE Shutdown
  BY <1>0, <1>4 DEF Shutdown, FreshGens, PluginHeld, DoneDrained
<1>5. CASE Drained
  BY <1>0, <1>5 DEF Drained, FreshGens, PluginHeld, DoneDrained, AllReceiversExited
<1>6. CASE Signal
  BY <1>0, <1>6 DEF Signal, FreshGens, PluginHeld, DoneDrained, AllReceiversExited
<1>7. CASE ForceExit
  BY <1>0, <1>7 DEF ForceExit, FreshGens, PluginHeld, DoneDrained
<1>8. CASE WorkersStop
  BY <1>0, <1>8 DEF WorkersStop, FreshGens, PluginHeld, DoneDrained, AllReceiversExited
<1>9. CASE ServersStop
  BY <1>0, <1>9 DEF ServersStop, FreshGens, PluginHeld, DoneDrained, AllReceiversExited
<1>10. ASSUME NEW g \in Gens, NEW i \in Slots, ReceiverStart(g, i) PROVE IInv'
  <2>1. PICK v \in {"stopped", "up"} : rstate' = [rstate EXCEPT ![g][i] = v]
    BY <1>10 DEF ReceiverStart
  <2>2. g <= gen
    <3>1. SUFFICES ASSUME g > gen PROVE FALSE
      OBVIOUS
    <3>2. rstate[g][i] = "absent"
      BY <3>1 DEF FreshGens
    <3>3. QED BY <3>2, <1>10 DEF ReceiverStart
  <2>3. FreshGens'
    <3>1. SUFFICES ASSUME NEW h \in Gens, NEW j \in Slots, h > gen
                   PROVE  rstate'[h][j] = "absent"
      BY <1>10 DEF FreshGens, ReceiverStart
    <3>2. rstate'[h][j] = rstate[h][j]
      BY <2>1, <2>2, <3>1, ExceptSlot
    <3>3. QED BY <3>1, <3>2 DEF FreshGens
  <2>4. main' = main /\ main # "done"
    BY <1>10 DEF ReceiverStart
  <2>5. PluginHeld'
    <3>1. SUFFICES ASSUME plugin'
                   PROVE  \E h \in Gens, j \in Slots :
                            rstate'[h][j] = "up" /\ cfgOf[h][j] = Gateway
      BY <1>10 DEF ReceiverStart, PluginHeld
    <3>2. CASE v = "up" /\ cfgOf[g][i] = Gateway
      <4>1. rstate'[g][i] = "up"
        BY <2>1, <3>2, ExceptSlot
      <4>2. QED BY <3>2, <4>1
    <3>3. CASE ~(v = "up" /\ cfgOf[g][i] = Gateway)
      <4>1. plugin
        BY <1>10, <2>1, <3>1, <3>3, Zenon DEF ReceiverStart
      <4>2. PICK h \in Gens, j \in Slots : rstate[h][j] = "up" /\ cfgOf[h][j] = Gateway
        BY <4>1 DEF PluginHeld
      <4>3. ~(h = g /\ j = i)
        BY <1>10, <4>2 DEF ReceiverStart
      <4>4. rstate'[h][j] = "up"
        BY <2>1, <4>2, <4>3, ExceptSlot
      <4>5. QED BY <4>2, <4>4, SMTT(30)
    <3>4. QED BY <3>2, <3>3
  <2>6. QED BY <1>0, <2>3, <2>4, <2>5 DEF DoneDrained
<1>11. ASSUME NEW g \in Gens, NEW i \in Slots, ReceiverStop(g, i) PROVE IInv'
  <2>1. rstate' = [rstate EXCEPT ![g][i] = "stopped"]
    BY <1>11 DEF ReceiverStop
  <2>2. FreshGens'
    <3>1. SUFFICES ASSUME NEW h \in Gens, NEW j \in Slots, h > gen
                   PROVE  rstate'[h][j] = "absent"
      BY <1>11 DEF FreshGens, ReceiverStop
    <3>2. ~(h = g /\ j = i)
      BY <1>11, <3>1 DEF FreshGens, ReceiverStop
    <3>3. rstate'[h][j] = rstate[h][j]
      BY <2>1, <3>2, ExceptSlot
    <3>4. QED BY <3>1, <3>3 DEF FreshGens
  <2>3. main' = main /\ main # "done"
    BY <1>11 DEF ReceiverStop
  <2>4. PluginHeld'
    <3>1. SUFFICES ASSUME plugin'
                   PROVE  \E h \in Gens, j \in Slots :
                            rstate'[h][j] = "up" /\ cfgOf[h][j] = Gateway
      BY <1>11 DEF ReceiverStop, PluginHeld
    <3>2. plugin /\ cfgOf[g][i] # Gateway
      BY <1>11, <3>1, Zenon DEF ReceiverStop
    <3>3. PICK h \in Gens, j \in Slots : rstate[h][j] = "up" /\ cfgOf[h][j] = Gateway
      BY <3>2 DEF PluginHeld
    <3>4. ~(h = g /\ j = i)
      BY <3>2, <3>3
    <3>5. rstate'[h][j] = "up"
      BY <2>1, <3>3, <3>4, ExceptSlot
    <3>6. QED BY <3>3, <3>5
  <2>5. QED BY <1>0, <2>2, <2>3, <2>4 DEF DoneDrained
<1>12. CASE UNCHANGED vars
  BY <1>0, <1>12 DEF vars, FreshGens, PluginHeld, DoneDrained, AllReceiversExited
<1>13. QED BY <1>1, <1>2, <1>3, <1>4, <1>5, <1>6, <1>7, <1>8, <1>9, <1>10,
              <1>11, <1>12 DEF Next

(* A clean shutdown leaves no mesh-extension resource behind, for every    *)
(* set of receiver lists and every number of reloads: when Manager.run     *)
(* returns after m.Wg.Wait(), every istio-gateway reconciler has deleted   *)
(* the resource it created.                                                *)
THEOREM ResourceRemoved == Spec => []ResourceRemovedOnCleanShutdown
<1>1. IInv => ResourceRemovedOnCleanShutdown
  BY DEF IInv, DoneDrained, PluginHeld, AllReceiversExited, ResourceRemovedOnCleanShutdown
<1>2. QED BY <1>1, IInvInit, IInvStep, PTL DEF Spec
=============================================================================
