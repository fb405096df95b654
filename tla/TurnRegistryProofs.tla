------------------------- MODULE TurnRegistryProofs -------------------------
(***************************************************************************)
(* Proofs about TurnRegistry, for any sets of sessions and requests: type  *)
(* correctness, the inductive invariant IInv, mutual exclusion on a        *)
(* session's file, and the growth of the session files.                    *)
(***************************************************************************)
EXTENDS TurnRegistry, FiniteSetTheorems, TLAPS

Holders == {t \in Turns : HoldsToken(t)}

(* The initial states satisfy the inductive invariant.                     *)
LEMMA InitInv == Init => IInv
<1> SUFFICES ASSUME Init PROVE IInv
  OBVIOUS
<1> USE RegistryAssumption DEF Init
<1>1. TypeOK
  <2>1. <<>> \in Seq(Turns)
    OBVIOUS
  <2>2. NoFile \in File /\ [exists |-> TRUE, turns |-> <<>>] \in File
    BY <2>1 DEF NoFile, File
  <2>3. file \in [Sessions -> File]
    BY <2>2
  <2>4. QED
    BY <2>1, <2>3 DEF TypeOK, HandlerStates, EngineStates, DeleterStates, StopperStates
<1>2. Busy = {}
  BY DEF Busy, TurnActive, DeleteActive
<1>3. SlotOwned
  BY <1>2 DEF SlotOwned
<1>4. PhasesAgree /\ LoadedIsCurrent
  BY DEF PhasesAgree, LoadedIsCurrent
<1>5. TokensConserved
  <2>1. {t \in Turns : HoldsToken(t)} = {}
    BY DEF HoldsToken
  <2>2. QED
    BY <2>1, FS_EmptySet DEF TokensConserved
<1>6. QED
  BY <1>1, <1>3, <1>4, <1>5 DEF IInv

(* A step that leaves the handlers' hold on tokens and the semaphore alone.*)
LEMMA TokensKept ==
  ASSUME TokensConserved, tokens' = tokens,
         \A t \in Turns : HoldsToken(t)' <=> HoldsToken(t)
  PROVE  TokensConserved'
<1>1. {t \in Turns : HoldsToken(t)}' = {t \in Turns : HoldsToken(t)}
  OBVIOUS
<1>2. QED
  BY <1>1 DEF TokensConserved

(* A handler that starts to hold a token while the semaphore grows by one. *)
LEMMA TokenTaken ==
  ASSUME TokensConserved, NEW t \in Turns, ~HoldsToken(t), HoldsToken(t)',
         \A u \in Turns \ {t} : HoldsToken(u)' <=> HoldsToken(u),
         tokens' = IF MaxConcurrent = 0 THEN tokens ELSE tokens + 1
  PROVE  TokensConserved'
<1>1. Holders' = Holders \cup {t}
  BY DEF Holders
<1>2. IsFiniteSet(Holders)
  BY RegistryAssumption, FS_Subset DEF Holders
<1>3. t \notin Holders
  BY DEF Holders
<1>4. Cardinality(Holders') = Cardinality(Holders) + 1
  BY <1>1, <1>2, <1>3, FS_AddElement
<1>5. QED
  BY <1>4, RegistryAssumption DEF TokensConserved, Holders

(* A handler that gives its token back while the semaphore shrinks by one, *)
(* and is positive before it does.                                         *)
LEMMA TokenReturned ==
  ASSUME TokensConserved, NEW t \in Turns, HoldsToken(t), ~HoldsToken(t)',
         \A u \in Turns \ {t} : HoldsToken(u)' <=> HoldsToken(u),
         ReleaseToken
  PROVE  TokensConserved' /\ tokens' \in Nat
<1>1. Holders' = Holders \ {t}
  BY DEF Holders
<1>2. IsFiniteSet(Holders)
  BY RegistryAssumption, FS_Subset DEF Holders
<1>3. t \in Holders
  BY DEF Holders
<1>4. /\ Cardinality(Holders') = Cardinality(Holders) - 1
      /\ Cardinality(Holders') \in Nat
      /\ Cardinality(Holders) \in Nat
  <2>1. IsFiniteSet(Holders')
    BY <1>1, <1>2, FS_Subset
  <2>2. QED
    BY <1>1, <1>2, <1>3, <2>1, FS_RemoveElement, FS_CardinalityType
<1>5. QED
  BY <1>4, RegistryAssumption DEF TokensConserved, Holders, ReleaseToken

(* SlotOwned, spelled out for the two kinds of parties.                    *)
LEMMA SlotOwnedUnfolded ==
  SlotOwned <=>
    /\ \A t \in Turns : TurnActive(t) => target[t] \in Sessions /\ registry[target[t]] = t
    /\ \A d \in Deletes : DeleteActive(d) => target[d] \in Sessions /\ registry[target[d]] = d
BY DEF SlotOwned, Busy

LEMMA SlotOwnedUnfoldedNext ==
  SlotOwned' <=>
    /\ \A t \in Turns : TurnActive(t)' => target'[t] \in Sessions /\ registry'[target'[t]] = t
    /\ \A d \in Deletes : DeleteActive(d)' => target'[d] \in Sessions /\ registry'[target'[d]] = d
BY DEF SlotOwned, Busy

(* Updating a session's file or slot keeps the type of the function.       *)
LEMMA FileUpdate ==
  ASSUME NEW f \in [Sessions -> File], NEW s, NEW v \in File
  PROVE  [f EXCEPT ![s] = v] \in [Sessions -> File]
OBVIOUS

LEMMA SlotUpdate ==
  ASSUME NEW f \in [Sessions -> Turns \cup Deletes \cup {NoEntry}], NEW s,
         NEW v \in Turns \cup Deletes \cup {NoEntry}
  PROVE  [f EXCEPT ![s] = v] \in [Sessions -> Turns \cup Deletes \cup {NoEntry}]
OBVIOUS

(* The engine steps that touch neither the registry nor a file.            *)
LEMMA QuietEngineInv ==
  ASSUME IInv, NEW t \in Turns,
         \/ SetupFails(t) \/ SetupOk(t) \/ RunEmits(t) \/ RunReturns(t)
         \/ EmitTerminal(t) \/ CloseEntry(t) \/ AnnounceFinished(t)
  PROVE  IInv'
<1> USE RegistryAssumption DEF IInv, EngineStep, stopState, requests,
             SetupFails, SetupOk, RunEmits, RunReturns, EmitTerminal, CloseEntry,
             AnnounceFinished
<1>1. TypeOK'
  <2> USE DEF TypeOK, HandlerStates, EngineStates, DeleterStates, StopperStates
  <2>1. CASE SetupFails(t)
    BY <2>1
  <2>2. CASE SetupOk(t)
    BY <2>2
  <2>3. CASE RunEmits(t)
    BY <2>3
  <2>4. CASE RunReturns(t)
    BY <2>4
  <2>5. CASE EmitTerminal(t)
    BY <2>5
  <2>6. CASE CloseEntry(t)
    BY <2>6
  <2>7. CASE AnnounceFinished(t)
    BY <2>7
  <2> QED
    BY <2>1, <2>2, <2>3, <2>4, <2>5, <2>6, <2>7
<1>2. SlotOwned'
  BY SlotOwnedUnfolded, SlotOwnedUnfoldedNext
     DEF TypeOK, HandlerStates, EngineStates, DeleterStates, StopperStates,
         TurnActive, DeleteActive
<1>3. PhasesAgree'
  BY DEF TypeOK, HandlerStates, EngineStates, DeleterStates, StopperStates,
         PhasesAgree
<1>4. LoadedIsCurrent'
  BY DEF TypeOK, HandlerStates, EngineStates, DeleterStates, StopperStates,
         LoadedIsCurrent, PhasesAgree
<1>5. TokensConserved'
  BY TokensKept DEF HoldsToken
<1>6. QED
  BY <1>1, <1>2, <1>3, <1>4, <1>5

(* The history loaded is the one in the file at that moment.               *)
LEMMA LoadHistoryInv ==
  ASSUME IInv, NEW t \in Turns,
         LoadHistory(t)
  PROVE  IInv'
<1> USE RegistryAssumption DEF IInv, EngineStep, turnState, stopState, requests, LoadHistory
<1>1. TypeOK'
  <2>1. target[t] \in Sessions
    BY DEF TypeOK, HandlerStates, EngineStates, DeleterStates, StopperStates,
           PhasesAgree
  <2>2. file[target[t]].turns \in Seq(Turns)
    BY <2>1 DEF TypeOK, File
  <2>3. loaded' \in [Turns -> Seq(Turns)]
    BY <2>2 DEF TypeOK
  <2>4. engine' \in [Turns -> EngineStates] /\ emitted' \in [Turns -> BOOLEAN]
    BY DEF TypeOK, EngineStates
  <2>5. QED
    BY <2>3, <2>4 DEF TypeOK
<1>2. SlotOwned'
  BY SlotOwnedUnfolded, SlotOwnedUnfoldedNext
     DEF TypeOK, HandlerStates, EngineStates, DeleterStates, StopperStates,
         TurnActive, DeleteActive
<1>3. PhasesAgree'
  BY DEF TypeOK, HandlerStates, EngineStates, DeleterStates, StopperStates,
         PhasesAgree
<1>4. LoadedIsCurrent'
  BY DEF TypeOK, HandlerStates, EngineStates, DeleterStates, StopperStates,
         LoadedIsCurrent, PhasesAgree
<1>5. TokensConserved'
  BY TokensKept DEF HoldsToken
<1>6. QED
  BY <1>1, <1>2, <1>3, <1>4, <1>5

(* The rewrite: no other turn can be about to rewrite the same file.       *)
LEMMA SaveSessionInv ==
  ASSUME IInv, NEW t \in Turns,
         SaveSession(t)
  PROVE  IInv'
<1> USE RegistryAssumption DEF IInv, EngineStep, turnState, stopState, requests, SaveSession
<1>1. TypeOK'
  <2>1. Append(loaded[t], t) \in Seq(Turns)
    BY DEF TypeOK
  <2>2. [exists |-> TRUE, turns |-> Append(loaded[t], t)] \in File
    BY <2>1 DEF File
  <2>3. file' \in [Sessions -> File]
    <3>1. file \in [Sessions -> File]
      BY DEF TypeOK
    <3>2. [file EXCEPT ![target[t]] = [exists |-> TRUE, turns |-> Append(loaded[t], t)]]
            \in [Sessions -> File]
      BY <2>2, <3>1, FileUpdate
    <3>3. QED
      BY <3>1, <3>2
  <2>4. QED
    BY <2>3 DEF TypeOK, HandlerStates, EngineStates, DeleterStates, StopperStates
<1>2. SlotOwned'
  BY SlotOwnedUnfolded, SlotOwnedUnfoldedNext
     DEF TypeOK, HandlerStates, EngineStates, DeleterStates, StopperStates,
         TurnActive, DeleteActive
<1>3. PhasesAgree'
  BY DEF TypeOK, HandlerStates, EngineStates, DeleterStates, StopperStates,
         PhasesAgree
<1>4. LoadedIsCurrent'
  <2> SUFFICES ASSUME NEW u \in Turns, engine'[u] \in {"setup", "run", "save"}
               PROVE  loaded'[u] = file'[target'[u]].turns
    BY DEF LoadedIsCurrent
  <2>1. u # t /\ engine[u] \in {"setup", "run", "save"}
    BY DEF TypeOK
  <2>2. TurnActive(u) /\ TurnActive(t)
    BY <2>1 DEF TurnActive
  <2>3. target[u] # target[t] /\ target[u] \in Sessions
    BY <2>1, <2>2, SlotOwnedUnfolded
  <2>4. file'[target[u]] = file[target[u]]
    BY <2>3 DEF TypeOK
  <2>5. QED
    BY <2>1, <2>4 DEF LoadedIsCurrent
<1>5. TokensConserved'
  BY TokensKept DEF HoldsToken
<1>6. QED
  BY <1>1, <1>2, <1>3, <1>4, <1>5

(* finish removes the entry of its own turn: the slot was still owned.     *)
LEMMA ReleaseSlotInv ==
  ASSUME IInv, NEW t \in Turns,
         ReleaseSlot(t)
  PROVE  IInv'
<1> USE RegistryAssumption DEF IInv, EngineStep, turnState, stopState, requests, ReleaseSlot
<1>1. TypeOK'
  BY DEF TypeOK, HandlerStates, EngineStates, DeleterStates, StopperStates
<1>2. SlotOwned'
  <2>1. TurnActive(t)
    BY DEF TurnActive
  <2>2. registry[target[t]] = t /\ target[t] \in Sessions
    BY <2>1, SlotOwnedUnfolded
  <2>3. ASSUME NEW u \in Turns, TurnActive(u)'
        PROVE  target'[u] \in Sessions /\ registry'[target'[u]] = u
    <3>1. u # t /\ TurnActive(u)
      BY <2>3 DEF TypeOK, HandlerStates, EngineStates, DeleterStates, StopperStates,
                  TurnActive, PhasesAgree
    <3>2. target[u] \in Sessions /\ registry[target[u]] = u
      BY <3>1, SlotOwnedUnfolded
    <3>3. QED
      BY <2>2, <3>1, <3>2 DEF TypeOK
  <2>4. ASSUME NEW d \in Deletes, DeleteActive(d)'
        PROVE  target'[d] \in Sessions /\ registry'[target'[d]] = d
    <3>1. target[d] \in Sessions /\ registry[target[d]] = d
      BY <2>4, SlotOwnedUnfolded DEF DeleteActive
    <3>2. QED
      BY <2>2, <3>1 DEF TypeOK
  <2>5. QED
    BY <2>3, <2>4, SlotOwnedUnfoldedNext
<1>3. PhasesAgree'
  BY DEF TypeOK, HandlerStates, EngineStates, DeleterStates, StopperStates,
         PhasesAgree
<1>4. LoadedIsCurrent'
  BY DEF TypeOK, HandlerStates, EngineStates, DeleterStates, StopperStates,
         LoadedIsCurrent, PhasesAgree
<1>5. TokensConserved'
  BY TokensKept DEF HoldsToken
<1>6. QED
  BY <1>1, <1>2, <1>3, <1>4, <1>5

(* The turn and stop steps that leave every program counter but one alone. *)
LEMMA StopCancelInv ==
  ASSUME IInv, NEW x \in Stops,
         StopCancel(x)
  PROVE  IInv'
<1> USE RegistryAssumption DEF IInv, turnState, stopState, requests, StopCancel
<1>1. TypeOK'
  BY DEF TypeOK, HandlerStates, EngineStates, DeleterStates, StopperStates
<1>2. SlotOwned'
  BY SlotOwnedUnfolded, SlotOwnedUnfoldedNext
     DEF TypeOK, HandlerStates, EngineStates, DeleterStates, StopperStates,
         TurnActive, DeleteActive
<1>3. PhasesAgree'
  BY DEF TypeOK, HandlerStates, EngineStates, DeleterStates, StopperStates,
         PhasesAgree
<1>4. LoadedIsCurrent'
  BY DEF TypeOK, HandlerStates, EngineStates, DeleterStates, StopperStates,
         LoadedIsCurrent, PhasesAgree
<1>5. TokensConserved'
  BY TokensKept DEF HoldsToken
<1>6. QED
  BY <1>1, <1>2, <1>3, <1>4, <1>5

(* The deadline only marks the context.                                    *)
LEMMA DeadlineInv ==
  ASSUME IInv, NEW t \in Turns,
         Deadline(t)
  PROVE  IInv'
<1> USE RegistryAssumption DEF IInv, turnState, stopState, requests, Deadline
<1>1. TypeOK'
  BY DEF TypeOK, HandlerStates, EngineStates, DeleterStates, StopperStates
<1>2. SlotOwned'
  BY SlotOwnedUnfolded, SlotOwnedUnfoldedNext
     DEF TypeOK, HandlerStates, EngineStates, DeleterStates, StopperStates,
         TurnActive, DeleteActive
<1>3. PhasesAgree'
  BY DEF TypeOK, HandlerStates, EngineStates, DeleterStates, StopperStates,
         PhasesAgree
<1>4. LoadedIsCurrent'
  BY DEF TypeOK, HandlerStates, EngineStates, DeleterStates, StopperStates,
         LoadedIsCurrent, PhasesAgree
<1>5. TokensConserved'
  BY TokensKept DEF HoldsToken
<1>6. QED
  BY <1>1, <1>2, <1>3, <1>4, <1>5

(* Spawning the goroutine hands the slot from the handler to the engine.   *)
LEMMA AnnounceStartedInv ==
  ASSUME IInv, NEW t \in Turns,
         AnnounceStarted(t)
  PROVE  IInv'
<1> USE RegistryAssumption DEF IInv, turnState, stopState, requests, AnnounceStarted
<1>1. TypeOK'
  BY DEF TypeOK, HandlerStates, EngineStates, DeleterStates, StopperStates
<1>2. SlotOwned'
  BY SlotOwnedUnfolded, SlotOwnedUnfoldedNext
     DEF TypeOK, HandlerStates, EngineStates, DeleterStates, StopperStates,
         TurnActive, DeleteActive
<1>3. PhasesAgree'
  BY DEF TypeOK, HandlerStates, EngineStates, DeleterStates, StopperStates,
         PhasesAgree
<1>4. LoadedIsCurrent'
  BY DEF TypeOK, HandlerStates, EngineStates, DeleterStates, StopperStates,
         LoadedIsCurrent, PhasesAgree
<1>5. TokensConserved'
  BY TokensKept DEF HoldsToken
<1>6. QED
  BY <1>1, <1>2, <1>3, <1>4, <1>5

(* Removing the file: no turn holds a history of that session.             *)
LEMMA RemoveFileInv ==
  ASSUME IInv, NEW d \in Deletes,
         RemoveFile(d)
  PROVE  IInv'
<1> USE RegistryAssumption DEF IInv, turnState, stopState, requests, RemoveFile
<1>1. TypeOK'
  <2>1. NoFile \in File
    BY DEF NoFile, File
  <2>2. file' \in [Sessions -> File]
    <3>1. file \in [Sessions -> File]
      BY DEF TypeOK
    <3>2. [file EXCEPT ![target[d]] = NoFile] \in [Sessions -> File]
      BY <2>1, <3>1, FileUpdate
    <3>3. QED
      BY <3>1, <3>2
  <2>3. QED
    BY <2>2 DEF TypeOK, HandlerStates, EngineStates, DeleterStates, StopperStates
<1>2. SlotOwned'
  BY SlotOwnedUnfolded, SlotOwnedUnfoldedNext
     DEF TypeOK, HandlerStates, EngineStates, DeleterStates, StopperStates,
         TurnActive, DeleteActive
<1>3. PhasesAgree'
  BY DEF TypeOK, HandlerStates, EngineStates, DeleterStates, StopperStates,
         PhasesAgree
<1>4. LoadedIsCurrent'
  <2> SUFFICES ASSUME NEW u \in Turns, engine'[u] \in {"setup", "run", "save"}
               PROVE  loaded'[u] = file'[target'[u]].turns
    BY DEF LoadedIsCurrent
  <2>1. TurnActive(u) /\ DeleteActive(d)
    BY DEF TurnActive, DeleteActive
  <2>2. target[u] # target[d] /\ target[u] \in Sessions
    BY <2>1, SlotOwnedUnfolded
  <2>3. file'[target[u]] = file[target[u]]
    BY <2>2 DEF TypeOK
  <2>4. QED
    BY <2>3 DEF LoadedIsCurrent
<1>5. TokensConserved'
  BY TokensKept DEF HoldsToken
<1>6. QED
  BY <1>1, <1>2, <1>3, <1>4, <1>5

(* The event and the deferred finish of a delete.                          *)
LEMMA EndDeleteInv ==
  ASSUME IInv, NEW d \in Deletes,
         AnnounceDeleted(d) \/ EndDelete(d)
  PROVE  IInv'
<1> USE RegistryAssumption DEF IInv, turnState, stopState, requests, AnnounceDeleted, EndDelete
<1>1. TypeOK'
  BY DEF TypeOK, HandlerStates, EngineStates, DeleterStates, StopperStates
<1>2. SlotOwned'
  BY SlotOwnedUnfolded, SlotOwnedUnfoldedNext
     DEF TypeOK, HandlerStates, EngineStates, DeleterStates, StopperStates,
         TurnActive, DeleteActive
<1>3. PhasesAgree'
  BY DEF TypeOK, HandlerStates, EngineStates, DeleterStates, StopperStates,
         PhasesAgree
<1>4. LoadedIsCurrent'
  BY DEF TypeOK, HandlerStates, EngineStates, DeleterStates, StopperStates,
         LoadedIsCurrent, PhasesAgree
<1>5. TokensConserved'
  BY TokensKept DEF HoldsToken
<1>6. QED
  BY <1>1, <1>2, <1>3, <1>4, <1>5

(* A request arrives: it holds a token or is gone, and owns nothing yet.   *)
LEMMA TurnAcceptInv ==
  ASSUME IInv, NEW t \in Turns, NEW s \in Sessions,
         TurnAccept(t, s)
  PROVE  IInv'
<1> USE RegistryAssumption DEF IInv, Names, stopState, TurnAccept
<1>1. TypeOK'
  <2>1. handler' \in [Turns -> HandlerStates]
    BY DEF TypeOK, HandlerStates
  <2>2. tokens' \in Nat
    BY DEF TypeOK
  <2>3. target' \in [Turns \cup Deletes \cup Stops -> Sessions \cup {NoSession}]
    BY DEF TypeOK
  <2>4. fresh' \subseteq Turns /\ known' \subseteq Sessions
    BY DEF TypeOK
  <2>5. QED
    BY <2>1, <2>2, <2>3, <2>4 DEF TypeOK
<1>2. ~TurnActive(t) /\ ~TurnActive(t)'
  BY DEF TypeOK, HandlerStates, EngineStates, DeleterStates, StopperStates,
         TurnActive, PhasesAgree
<1>3. SlotOwned'
  BY <1>2, SlotOwnedUnfolded, SlotOwnedUnfoldedNext
     DEF TypeOK, HandlerStates, EngineStates, DeleterStates, StopperStates,
         TurnActive, DeleteActive
<1>4. PhasesAgree'
  BY DEF TypeOK, HandlerStates, EngineStates, DeleterStates, StopperStates,
         PhasesAgree
<1>5. LoadedIsCurrent'
  BY DEF TypeOK, HandlerStates, EngineStates, DeleterStates, StopperStates,
         LoadedIsCurrent, PhasesAgree
<1>6. TokensConserved'
  <2>1. \A u \in Turns \ {t} : HoldsToken(u)' <=> HoldsToken(u)
    BY DEF TypeOK, HoldsToken
  <2>2. ~HoldsToken(t)
    BY DEF HoldsToken
  <2>3. CASE handler'[t] = "gone"
    <3>1. ~HoldsToken(t)' /\ tokens' = tokens
      BY <2>3 DEF TypeOK, HoldsToken
    <3>2. QED
      BY <2>1, <2>2, <3>1, TokensKept
  <2>4. CASE handler'[t] = "register" /\ MaxConcurrent = 0
    <3>1. HoldsToken(t)' /\ tokens' = tokens
      BY <2>4 DEF TypeOK, TokensConserved, HoldsToken
    <3>2. QED
      BY <2>1, <2>2, <2>4, <3>1, TokenTaken
  <2>5. CASE handler'[t] = "register" /\ MaxConcurrent # 0
    <3>1. HoldsToken(t)' /\ tokens' = tokens + 1
      BY <2>5 DEF TypeOK, HoldsToken
    <3>2. QED
      BY <2>1, <2>2, <2>5, <3>1, TokenTaken
  <2>6. QED
    BY <2>3, <2>4, <2>5 DEF TypeOK
<1>7. QED
  BY <1>1, <1>3, <1>4, <1>5, <1>6

(* register takes a free slot, or gives the token back.                    *)
LEMMA TurnRegisterInv ==
  ASSUME IInv, NEW t \in Turns,
         TurnRegister(t)
  PROVE  IInv'
<1> USE RegistryAssumption DEF IInv, stopState, requests, TurnRegister
<1>1. target[t] \in Sessions /\ engine[t] = "none" /\ ~TurnActive(t)
  BY DEF PhasesAgree, TurnActive
<1>2. TokensConserved' /\ tokens' \in Nat
  <2>1. \A u \in Turns \ {t} : HoldsToken(u)' <=> HoldsToken(u)
    BY DEF TypeOK, HoldsToken
  <2>2. HoldsToken(t)
    BY DEF HoldsToken
  <2>3. CASE handler'[t] = "announce" /\ tokens' = tokens
    <3>1. HoldsToken(t)'
      BY <2>3 DEF HoldsToken
    <3>2. QED
      BY <2>1, <2>2, <2>3, <3>1, TokensKept DEF TypeOK
  <2>4. CASE handler'[t] = "gone" /\ ReleaseToken
    <3>1. ~HoldsToken(t)'
      BY <2>4 DEF HoldsToken
    <3>2. QED
      BY <2>1, <2>2, <2>4, <3>1, TokenReturned
  <2>5. QED
    BY <2>3, <2>4 DEF TypeOK
<1>3. TypeOK'
  <2>1. handler' \in [Turns -> HandlerStates]
    BY DEF TypeOK, HandlerStates
  <2>2. registry' \in [Sessions -> Turns \cup Deletes \cup {NoEntry}]
    <3>1. registry \in [Sessions -> Turns \cup Deletes \cup {NoEntry}]
      BY DEF TypeOK
    <3>2. [registry EXCEPT ![target[t]] = t]
            \in [Sessions -> Turns \cup Deletes \cup {NoEntry}]
      BY <3>1, SlotUpdate
    <3>3. QED
      BY <3>1, <3>2
  <2>3. QED
    BY <1>2, <2>1, <2>2 DEF TypeOK
<1>4. SlotOwned'
  <2>1. ASSUME NEW u \in Turns, TurnActive(u)'
        PROVE  target'[u] \in Sessions /\ registry'[target'[u]] = u
    <3>1. CASE u = t
      BY <1>1, <2>1, <3>1 DEF TypeOK, TurnActive
    <3>2. CASE u # t
      <4>1. TurnActive(u)
        BY <2>1, <3>2 DEF TypeOK, TurnActive
      <4>2. target[u] \in Sessions /\ registry[target[u]] = u
        BY <4>1, SlotOwnedUnfolded
      <4>3. QED
        BY <3>2, <4>2 DEF TypeOK
    <3>3. QED
      BY <3>1, <3>2
  <2>2. ASSUME NEW d \in Deletes, DeleteActive(d)'
        PROVE  target'[d] \in Sessions /\ registry'[target'[d]] = d
    <3>1. target[d] \in Sessions /\ registry[target[d]] = d
      BY <2>2, SlotOwnedUnfolded DEF DeleteActive
    <3>2. QED
      BY <3>1 DEF TypeOK
  <2>3. QED
    BY <2>1, <2>2, SlotOwnedUnfoldedNext
<1>5. PhasesAgree' /\ LoadedIsCurrent'
  BY <1>1 DEF TypeOK, PhasesAgree, LoadedIsCurrent
<1>6. QED
  BY <1>2, <1>3, <1>4, <1>5

(* The handler returns: only the token moves.                              *)
LEMMA HandlerLeavesInv ==
  ASSUME IInv, NEW t \in Turns,
         HandlerLeaves(t)
  PROVE  IInv'
<1> USE RegistryAssumption DEF IInv, stopState, requests, HandlerLeaves
<1>1. TokensConserved' /\ tokens' \in Nat
  <2>1. \A u \in Turns \ {t} : HoldsToken(u)' <=> HoldsToken(u)
    BY DEF TypeOK, HoldsToken
  <2>2. HoldsToken(t) /\ ~HoldsToken(t)'
    BY DEF TypeOK, HoldsToken
  <2>3. QED
    BY <2>1, <2>2, TokenReturned
<1>2. TypeOK'
  BY <1>1 DEF TypeOK, HandlerStates, EngineStates, DeleterStates, StopperStates
<1>3. SlotOwned'
  BY SlotOwnedUnfolded, SlotOwnedUnfoldedNext DEF TypeOK, TurnActive, DeleteActive
<1>4. PhasesAgree' /\ LoadedIsCurrent'
  BY DEF TypeOK, PhasesAgree, LoadedIsCurrent
<1>5. QED
  BY <1>1, <1>2, <1>3, <1>4

(* beginDelete takes a free slot or answers 409.                           *)
LEMMA BeginDeleteInv ==
  ASSUME IInv, NEW d \in Deletes, NEW s \in Sessions,
         BeginDelete(d, s)
  PROVE  IInv'
<1> USE RegistryAssumption DEF IInv, turnState, stopState, BeginDelete
<1>1. TypeOK'
  <2>1. deleter' \in [Deletes -> DeleterStates]
    BY DEF TypeOK, DeleterStates
  <2>2. registry' \in [Sessions -> Turns \cup Deletes \cup {NoEntry}]
    <3>1. registry \in [Sessions -> Turns \cup Deletes \cup {NoEntry}]
      BY DEF TypeOK
    <3>2. registry' = registry \/ registry' = [registry EXCEPT ![s] = d]
      OBVIOUS
    <3>3. [registry EXCEPT ![s] = d] \in [Sessions -> Turns \cup Deletes \cup {NoEntry}]
      BY <3>1, SlotUpdate
    <3> QED
      BY <3>1, <3>2, <3>3
  <2>3. target' \in [Turns \cup Deletes \cup Stops -> Sessions \cup {NoSession}]
    BY DEF TypeOK
  <2>4. QED
    BY <2>1, <2>2, <2>3 DEF TypeOK
<1>2. SlotOwned'
  <2>1. ASSUME NEW u \in Turns, TurnActive(u)'
        PROVE  target'[u] \in Sessions /\ registry'[target'[u]] = u
    <3>1. target[u] \in Sessions /\ registry[target[u]] = u
      BY <2>1, SlotOwnedUnfolded DEF TurnActive
    <3>2. QED
      BY <3>1 DEF TypeOK
  <2>2. ASSUME NEW e \in Deletes, DeleteActive(e)'
        PROVE  target'[e] \in Sessions /\ registry'[target'[e]] = e
    <3>1. CASE e = d
      BY <2>2, <3>1 DEF TypeOK, DeleteActive
    <3>2. CASE e # d
      <4>1. target[e] \in Sessions /\ registry[target[e]] = e
        BY <2>2, <3>2, SlotOwnedUnfolded DEF TypeOK, DeleteActive
      <4>2. QED
        BY <3>2, <4>1 DEF TypeOK
    <3>3. QED
      BY <3>1, <3>2
  <2>3. QED
    BY <2>1, <2>2, SlotOwnedUnfoldedNext
<1>3. PhasesAgree' /\ LoadedIsCurrent'
  BY DEF TypeOK, PhasesAgree, LoadedIsCurrent
<1>4. TokensConserved'
  BY TokensKept DEF HoldsToken
<1>5. QED
  BY <1>1, <1>2, <1>3, <1>4

(* The lookup of a stop only records an entry.                             *)
LEMMA StopLookupInv ==
  ASSUME IInv, NEW x \in Stops, NEW s \in Sessions,
         StopLookup(x, s)
  PROVE  IInv'
<1> USE RegistryAssumption DEF IInv, turnState, StopLookup
<1>1. TypeOK'
  BY DEF TypeOK, HandlerStates, EngineStates, DeleterStates, StopperStates
<1>2. target' = [target EXCEPT ![x] = s]
  OBVIOUS
<1>3. \A q \in Turns \cup Deletes : q # x => target'[q] = target[q]
  BY <1>2 DEF TypeOK
<1>4. SlotOwned'
  BY <1>3, SlotOwnedUnfolded, SlotOwnedUnfoldedNext DEF TypeOK, TurnActive, DeleteActive
<1>5. PhasesAgree' /\ LoadedIsCurrent'
  BY <1>3 DEF TypeOK, PhasesAgree, LoadedIsCurrent
<1>6. TokensConserved'
  BY TokensKept DEF HoldsToken
<1>7. QED
  BY <1>1, <1>4, <1>5, <1>6

(* Every step of the specification preserves the inductive invariant.      *)
LEMMA NextInv == IInv /\ [Next]_vars => IInv'
<1> SUFFICES ASSUME IInv, [Next]_vars PROVE IInv'
  OBVIOUS
<1>1. CASE UNCHANGED vars
  <2>1. Busy' = Busy
    BY <1>1 DEF vars, turnState, requests, stopState, Busy, TurnActive, DeleteActive
  <2>2. TypeOK' /\ PhasesAgree' /\ LoadedIsCurrent'
    BY <1>1 DEF IInv, vars, turnState, requests, stopState, TypeOK, PhasesAgree, LoadedIsCurrent
  <2>3. SlotOwned'
    BY <1>1, <2>1 DEF IInv, vars, turnState, requests, stopState, SlotOwned
  <2>4. TokensConserved'
    BY <1>1, TokensKept DEF IInv, vars, turnState, requests, stopState, HoldsToken
  <2>5. QED
    BY <2>2, <2>3, <2>4 DEF IInv
<1>2. ASSUME NEW t \in Turns, Handler(t) \/ Engine(t) \/ Deadline(t)
      PROVE  IInv'
  BY <1>2, TurnAcceptInv, TurnRegisterInv, AnnounceStartedInv, HandlerLeavesInv,
     LoadHistoryInv, QuietEngineInv, SaveSessionInv, ReleaseSlotInv, DeadlineInv
     DEF Handler, Engine
<1>3. ASSUME NEW d \in Deletes, Delete(d)
      PROVE  IInv'
  BY <1>3, BeginDeleteInv, RemoveFileInv, EndDeleteInv DEF Delete
<1>4. ASSUME NEW x \in Stops, Stop(x)
      PROVE  IInv'
  BY <1>4, StopLookupInv, StopCancelInv DEF Stop
<1>5. QED
  BY <1>1, <1>2, <1>3, <1>4 DEF Next

(* The inductive invariant holds in every reachable state: slots are owned *)
(* by the requests at work, and loaded histories are current.              *)
THEOREM InductiveInvariant == Spec => []IInv
<1>1. Init => IInv
  BY InitInv
<1>2. IInv /\ [Next]_vars => IInv'
  BY NextInv
<1>3. QED
  BY <1>1, <1>2, PTL DEF Spec

(* Type correctness of the registry, its handlers and the session files.   *)
THEOREM TypeCorrect == Spec => []TypeOK
<1>1. IInv => TypeOK
  BY DEF IInv
<1>2. QED
  BY <1>1, InductiveInvariant, PTL

(* Two requests never work on one session file at the same time, whatever  *)
(* the number of turns, deletes, stops and sessions.                       *)
THEOREM SessionExclusion == Spec => []ExclusiveSession
<1>1. IInv => ExclusiveSession
  BY DEF IInv, SlotOwned, ExclusiveSession
<1>2. QED
  BY <1>1, InductiveInvariant, PTL

(* turnSem counts exactly the handlers that hold a token.                  *)
THEOREM TokenAccounting == Spec => []TokensConserved
<1>1. IInv => TokensConserved
  BY DEF IInv
<1>2. QED
  BY <1>1, InductiveInvariant, PTL

(* One step changes a session file only by a deletion or by the turn that  *)
(* saves its own messages after the history the file holds.                *)
LEMMA FileStep ==
  ASSUME IInv, [Next]_vars
  PROVE  [\A s \in Sessions : HistoryStep(s)]_vars
<1> SUFFICES ASSUME NEW s \in Sessions, file'[s] # file[s]
             PROVE  HistoryStep(s)
  BY DEF HistoryStep
<1>1. CASE \E t \in Turns : SaveSession(t)
  <2>1. PICK t \in Turns : SaveSession(t)
    BY <1>1
  <2>2. file' = [file EXCEPT ![target[t]] = [exists |-> TRUE, turns |-> Append(loaded[t], t)]]
    BY <2>1 DEF SaveSession
  <2>3. target[t] = s
    BY <2>2 DEF IInv, TypeOK
  <2>4. loaded[t] = file[s].turns
    BY <2>1, <2>3 DEF IInv, LoadedIsCurrent, SaveSession, EngineStep
  <2>5. file'[s] = [exists |-> TRUE, turns |-> Append(file[s].turns, t)]
    BY <2>2, <2>3, <2>4 DEF IInv, TypeOK
  <2>6. QED
    BY <2>5 DEF HistoryStep
<1>2. CASE \E d \in Deletes : RemoveFile(d)
  BY <1>2 DEF RemoveFile, HistoryStep, IInv, TypeOK
<1>3. CASE ~(\E t \in Turns : SaveSession(t)) /\ ~(\E d \in Deletes : RemoveFile(d))
  <2>1. file' = file
    <3>1. CASE UNCHANGED vars
      BY <3>1 DEF vars
    <3>2. ASSUME NEW t \in Turns, Handler(t) \/ Engine(t) \/ Deadline(t)
          PROVE  file' = file
      BY <1>3, <3>2
         DEF Handler, Engine, TurnAccept, TurnRegister, AnnounceStarted, HandlerLeaves,
             LoadHistory, SetupFails, SetupOk, RunEmits, RunReturns, EmitTerminal,
             ReleaseSlot, CloseEntry, AnnounceFinished, Deadline
    <3>3. ASSUME NEW d \in Deletes, Delete(d)
          PROVE  file' = file
      BY <1>3, <3>3 DEF Delete, BeginDelete, AnnounceDeleted, EndDelete
    <3>4. ASSUME NEW x \in Stops, Stop(x)
          PROVE  file' = file
      BY <3>4 DEF Stop, StopLookup, StopCancel
    <3>5. QED
      BY <3>1, <3>2, <3>3, <3>4 DEF Next
  <2>2. QED
    BY <2>1
<1>4. QED
  BY <1>1, <1>2, <1>3

(* Session files only grow by whole turns or disappear: no lost turn and   *)
(* no resurrection of a deleted session.                                   *)
THEOREM HistoriesGrow == Spec => HistoryGrows
<1>1. IInv /\ [Next]_vars => [\A s \in Sessions : HistoryStep(s)]_vars
  BY FileStep
<1>2. QED
  BY <1>1, InductiveInvariant, PTL DEF Spec, HistoryGrows
=============================================================================
