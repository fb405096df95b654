--------------------------- MODULE ServeLoopProofs ---------------------------
(***************************************************************************)
(* Proofs about ServeLoop: type correctness, and that a process which was  *)
(* neither forced nor ended by a failed Serve leaves no attended turn      *)
(* behind, for any number of turns, reloads and generations.               *)
(***************************************************************************)
EXTENDS ServeLoop, TLAPS

IInv == TypeOK /\ HandlersAtHome

LEMMA Initially == Init => IInv
<1> SUFFICES ASSUME Init PROVE IInv
  OBVIOUS
<1>1. 0 \in 0..MaxGen
  BY ServeAssumption
<1>2. TypeOK
  BY <1>1 DEF Init, TypeOK, LoopPCs, Gens
<1>3. HandlersAtHome
  BY DEF Init, HandlersAtHome
<1> QED
  BY <1>2, <1>3 DEF IInv

-----------------------------------------------------------------------------
(* Each group of actions preserves the invariant.                          *)

LEMMA LoopPreserves == IInv /\ Loop => IInv'
<1> SUFFICES ASSUME IInv, Loop PROVE IInv'
  OBVIOUS
<1> USE ServeAssumption DEF IInv, TypeOK, LoopPCs, Gens, requests
<1>1. CASE Start
  BY <1>1 DEF Start, HandlersAtHome
<1>2. CASE ShutdownOnSignal
  BY <1>2 DEF ShutdownOnSignal, HandlersAtHome
<1>3. CASE ShutdownOnReload
  BY <1>3 DEF ShutdownOnReload, HandlersAtHome
<1>4. CASE Drained
  BY <1>4 DEF Drained, HandlersAtHome, Active
<1>5. CASE GraceOver
  BY <1>5 DEF GraceOver, HandlersAtHome
<1>6. CASE Exit
  BY <1>6 DEF Exit, HandlersAtHome
<1>7. CASE TakeReload
  BY <1>7 DEF TakeReload, HandlersAtHome
<1>8. CASE LoadConfig
  BY <1>8 DEF LoadConfig, HandlersAtHome
<1> QED
  BY <1>1, <1>2, <1>3, <1>4, <1>5, <1>6, <1>7, <1>8 DEF Loop

LEMMA ReloadPreserves ==
  ASSUME IInv, NEW r \in Reloads, ReloadArrives(r) \/ ReloadHandler(r)
  PROVE  IInv'
<1> USE ServeAssumption DEF IInv, TypeOK, Gens
<1>1. CASE ReloadArrives(r)
  BY <1>1 DEF ReloadArrives, HandlersAtHome
<1>2. CASE ReloadCounts(r)
  BY <1>2 DEF ReloadCounts, HandlersAtHome
<1>3. CASE ReloadChecks(r)
  BY <1>3 DEF ReloadChecks, HandlersAtHome
<1>4. CASE ReloadSends(r)
  BY <1>4 DEF ReloadSends, HandlersAtHome
<1> QED
  BY <1>1, <1>2, <1>3, <1>4 DEF ReloadHandler

LEMMA TurnPreserves ==
  ASSUME IInv, NEW t \in Turns, TurnArrives(t) \/ TurnThreads(t) \/ ClientLeaves(t)
  PROVE  IInv'
<1> USE DEF IInv, TypeOK
<1>1. CASE TurnArrives(t)
  BY <1>1 DEF TurnArrives, HandlersAtHome
<1>2. CASE TurnRegisters(t)
  BY <1>2 DEF TurnRegisters, HandlersAtHome
<1>3. CASE TurnEnds(t)
  BY <1>3 DEF TurnEnds, HandlersAtHome
<1>4. CASE TurnHandlerEnds(t)
  BY <1>4 DEF TurnHandlerEnds, HandlersAtHome
<1>5. CASE ClientLeaves(t)
  BY <1>5 DEF ClientLeaves, HandlersAtHome
<1> QED
  BY <1>1, <1>2, <1>3, <1>4, <1>5 DEF TurnThreads

LEMMA StepPreserves == IInv /\ [Next]_vars => IInv'
<1> SUFFICES ASSUME IInv, [Next]_vars PROVE IInv'
  OBVIOUS
<1>1. CASE ServeFails \/ Signal \/ EditConfig \/ UNCHANGED vars
  BY <1>1 DEF ServeFails, LoopPCs, Signal, EditConfig, vars, requests, IInv, TypeOK, HandlersAtHome
<1> QED
  BY <1>1, LoopPreserves, ReloadPreserves, TurnPreserves DEF Next

(***************************************************************************)
(* The serve loop, its handlers and its turns stay in their states.        *)
(***************************************************************************)
THEOREM TypeCorrect == Spec => []TypeOK
<1>1. IInv => TypeOK
  BY DEF IInv
<1> QED
  BY <1>1, Initially, StepPreserves, PTL DEF Spec

(***************************************************************************)
(* serveOnce's Shutdown waits for the handlers, and they for their turns:  *)
(* a process that a signal or a reload ends without a forced Close         *)
(* abandons no turn whose client is attached, however many generations it  *)
(* went through.  Nothing is said of the exit after a failed Serve.        *)
(***************************************************************************)
THEOREM AttendedTurns == Spec => []AttendedTurnsFinish
<1>1. IInv => AttendedTurnsFinish
  BY DEF IInv, HandlersAtHome, AttendedTurnsFinish
<1> QED
  BY <1>1, Initially, StepPreserves, PTL DEF Spec
=============================================================================
