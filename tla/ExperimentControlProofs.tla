----------------------- MODULE ExperimentControlProofs -----------------------
(***************************************************************************)
(* Proofs about ExperimentControl, for every set of experiments and calls, *)
(* every pool and all quotas.                                              *)
(***************************************************************************)
EXTENDS ExperimentControl, FiniteSetTheorems, SequenceTheorems, TLAPS

-----------------------------------------------------------------------------
(* What a call in flight may be at                                         *)

IsMemo(m) == /\ m = [portfolio |-> m.portfolio, reference |-> m.reference,
                     head |-> m.head, stamp |-> m.stamp]
             /\ m.stamp \in BOOLEAN

Appending == {"append", "head", "journaled"}

Tabled ==
  /\ pc \in [Calls -> Phases] /\ held \in [Calls -> Nat]
  /\ memo = [c \in Calls |-> memo[c]] /\ \A c \in Calls : IsMemo(memo[c])
  /\ version \in [Versions -> {"absent", "active", "revoked"}]
  /\ state \in [Experiments -> {"ABSENT", "DRAFT", "STARTED", "CLOSED"}]

(* Each kind of call takes its own way through the phases. *)
OnItsWay(c) ==
  /\ IF InFlight(c) THEN c.kind \notin Statements ELSE held[c] = 0
  /\ pc[c] = "lookup" => c.kind = "CHECKPOINT"
  /\ pc[c] = "dated" => c.kind = "ACCEPT"
  /\ pc[c] = "policy" => c.kind = "CORRECT" /\ held[c] >= 1
  /\ pc[c] \in Appending => Journaled(c)
  /\ pc[c] = "commit" => c.kind \in {"APPLY", "ENTRY", "STOP", "AUDIT"} /\ held[c] >= 1
  /\ c.kind = "START" /\ pc[c] = "locking" => held[c] <= 1
  /\ c.kind = "START" /\ pc[c] \in Appending => held[c] = 2

WayInv == Tabled /\ \A c \in Calls : OnItsWay(c)

Others(c) == \A d \in Calls \ {c} :
                pc'[d] = pc[d] /\ held'[d] = held[d] /\ memo'[d] = memo[d]

CallStep(c) == Statement(c) \/ Begin(c) \/ Proceed(c) \/ RollBack(c)

(* The end of a transaction forgets what it held and read. *)
LEMMA FinishTables ==
  ASSUME Tabled, NEW c \in Calls, NEW phase \in Over \ {"unmade"}, Finish(c, phase)
  PROVE  /\ Others(c) /\ pc'[c] = phase /\ held'[c] = 0 /\ memo'[c] = NoMemo
         /\ pc' \in [Calls -> Phases] /\ held' \in [Calls -> Nat]
         /\ memo' = [d \in Calls |-> memo'[d]] /\ \A d \in Calls : IsMemo(memo'[d])
BY DEF Tabled, Finish, Goto, Others, IsMemo, NoMemo, Phases, Over

LEMMA PhaseAfterLock ==
  ASSUME NEW c \in Calls, c.kind \notin Statements, NEW n \in Nat
  PROVE  LET p == PhaseAfter(c, n)
         IN  /\ p \in {"dated", "locking", "commit", "policy", "append"}
             /\ p = "dated" <=> c.kind = "ACCEPT" /\ n = 1
             /\ p = "policy" => c.kind = "CORRECT"
             /\ p = "append" => Journaled(c)
             /\ p = "commit" => c.kind \in {"APPLY", "ENTRY", "STOP", "AUDIT"}
             /\ c.kind = "START" => p = IF n = 0 THEN "locking" ELSE "append"
BY CallsAssumption DEF PhaseAfter, Journaled, Statements, Kinds, Needs, StartLocks

RegistryTyped ==
  /\ version \in [Versions -> {"absent", "active", "revoked"}]
  /\ state \in [Experiments -> {"ABSENT", "DRAFT", "STARTED", "CLOSED"}]

LEMMA FinishWay ==
  ASSUME WayInv, NEW c \in Calls, NEW phase \in Over \ {"unmade"}, Finish(c, phase),
         RegistryTyped'
  PROVE  WayInv' /\ Others(c)
<1>1. Tabled' /\ Others(c) /\ pc'[c] = phase /\ held'[c] = 0
  BY FinishTables DEF WayInv, Tabled, RegistryTyped
<1>2. ASSUME NEW d \in Calls PROVE OnItsWay(d)'
  BY <1>1 DEF WayInv, OnItsWay, Others, InFlight, Over, Appending
<1> QED
  BY <1>1, <1>2 DEF WayInv

LEMMA GotoWay ==
  ASSUME WayInv, NEW c \in Calls, NEW phase \in Phases, Goto(c, phase),
         NEW n \in Nat, held' = [held EXCEPT ![c] = n],
         NEW m, IsMemo(m), memo' = [memo EXCEPT ![c] = m],
         UNCHANGED registry, OnItsWay(c)'
  PROVE  WayInv' /\ Others(c) /\ pc'[c] = phase /\ held'[c] = n /\ memo'[c] = m
<1>1. Tabled' /\ Others(c) /\ pc'[c] = phase /\ held'[c] = n /\ memo'[c] = m
  BY DEF WayInv, Tabled, Others, Goto, registry
<1>2. ASSUME NEW d \in Calls PROVE OnItsWay(d)'
  BY <1>1 DEF WayInv, OnItsWay, Others, InFlight
<1> QED
  BY <1>1, <1>2 DEF WayInv

LEMMA WayInit == Init => WayInv
<1> SUFFICES ASSUME Init PROVE WayInv
  OBVIOUS
<1>1. Tabled
  BY DEF Init, Tabled, IsMemo, NoMemo, Phases, Over
<1>2. ASSUME NEW c \in Calls PROVE OnItsWay(c)
  BY DEF Init, OnItsWay, InFlight, Over, Appending
<1> QED
  BY <1>1, <1>2 DEF WayInv

LEMMA StatementWay ==
  ASSUME WayInv, NEW c \in Calls, Statement(c)
  PROVE  WayInv' /\ Others(c)
<1>1. \E phase \in {"done", "refused"} : Finish(c, phase)
  BY DEF Statement, Register, Create, Revoke
<1>2. RegistryTyped'
  BY DEF WayInv, Tabled, Statement, Register, Create, Revoke, RegistryTyped
<1> QED
  BY <1>1, <1>2, FinishWay DEF Over

LEMMA BeginWay ==
  ASSUME WayInv, NEW c \in Calls, Begin(c)
  PROVE  WayInv' /\ Others(c) /\ memo'[c].stamp = FALSE
<1> DEFINE phase == IF c.kind = "CHECKPOINT" THEN "lookup" ELSE "locking"
           m == [portfolio |-> portfolio[c.experiment][c.scenario],
                 reference |-> reference[c.experiment][c.scenario],
                 head |-> 0, stamp |-> FALSE]
<1>1. IsMemo(m) /\ m.stamp = FALSE
  BY DEF IsMemo
<1>6. memo' = [memo EXCEPT ![c] = m]
  BY DEF Begin
<1>2. held[c] = 0 /\ held' = [held EXCEPT ![c] = 0] /\ held'[c] = 0
  BY DEF WayInv, Tabled, OnItsWay, Begin, InFlight, Over
<1>3. Goto(c, phase) /\ phase \in Phases
  BY DEF Begin, Phases
<1>4. pc'[c] = phase
  BY <1>3 DEF Goto, WayInv, Tabled
<1>5. OnItsWay(c)'
  BY <1>2, <1>4 DEF Begin, OnItsWay, InFlight, Over, Appending, Statements
<1>7. UNCHANGED registry
  BY DEF Begin, rowVars
<1> HIDE DEF phase, m
<1> QED
  BY <1>1, <1>2, <1>3, <1>5, <1>6, <1>7, GotoWay

LEMMA StayWay ==
  ASSUME WayInv, NEW c \in Calls, NEW phase \in Phases \ Over, Goto(c, phase),
         UNCHANGED <<held, memo, registry>>, InFlight(c),
         phase \in {"lookup", "dated", "policy", "commit"} => phase = pc[c],
         phase \in Appending => pc[c] \in Appending \cup {"policy"},
         c.kind = "START" /\ phase = "locking" => pc[c] = "locking"
  PROVE  WayInv' /\ Others(c) /\ pc'[c] = phase /\ held'[c] = held[c] /\ memo'[c] = memo[c]
<1>1. pc'[c] = phase
  BY DEF Goto, WayInv, Tabled
<1>2. OnItsWay(c)'
  BY <1>1 DEF WayInv, OnItsWay, InFlight, Over, Appending, Journaled
<1>3. held' = [held EXCEPT ![c] = held[c]] /\ memo' = [memo EXCEPT ![c] = memo[c]]
  BY DEF WayInv, Tabled
<1>4. held[c] \in Nat /\ IsMemo(memo[c])
  BY DEF WayInv, Tabled
<1> QED
  BY <1>2, <1>3, <1>4, GotoWay

LEMMA LookupWay ==
  ASSUME WayInv, NEW c \in Calls, Lookup(c)
  PROVE  WayInv' /\ Others(c)
<1>1. RegistryTyped'
  BY DEF Lookup, rowVars, registry, WayInv, Tabled, RegistryTyped
<1>2. CASE Finish(c, "stored")
  BY <1>1, <1>2, FinishWay DEF Over
<1>3. CASE Goto(c, "locking") /\ UNCHANGED <<held, memo>>
  BY <1>3, StayWay DEF Lookup, rowVars, WayInv, OnItsWay, InFlight, Over, Phases, Appending
<1> QED
  BY <1>2, <1>3 DEF Lookup

LEMMA AcquireWay ==
  ASSUME WayInv, NEW c \in Calls, Acquire(c)
  PROVE  WayInv' /\ Others(c)
<1>1. RegistryTyped' /\ UNCHANGED registry
  BY DEF Acquire, rowVars, registry, WayInv, Tabled, RegistryTyped
<1>2. ASSUME NEW phase \in {"stored", "refused"}, Finish(c, phase)
      PROVE  WayInv' /\ Others(c)
  BY <1>1, <1>2, FinishWay DEF Over
<1>3. ASSUME Goto(c, PhaseAfter(c, held[c])), held' = [held EXCEPT ![c] = @ + 1],
             memo' = IF PhaseAfter(c, held[c]) = "dated"
                     THEN [memo EXCEPT ![c].stamp = KeyRevoked(c)] ELSE memo
      PROVE  WayInv' /\ Others(c)
  <2> DEFINE n == held[c]
             phase == PhaseAfter(c, n)
  <2>1. n \in Nat /\ n + 1 \in Nat /\ c.kind \notin Statements /\ InFlight(c)
    BY DEF WayInv, Tabled, OnItsWay, InFlight, Acquire, Over
  <2>2. /\ phase \in {"dated", "locking", "commit", "policy", "append"}
        /\ phase = "dated" => c.kind = "ACCEPT"
        /\ phase = "policy" => c.kind = "CORRECT"
        /\ phase = "append" => Journaled(c)
        /\ phase = "commit" => c.kind \in {"APPLY", "ENTRY", "STOP", "AUDIT"}
        /\ c.kind = "START" => phase = IF n = 0 THEN "locking" ELSE "append"
    BY <2>1, PhaseAfterLock
  <2>3. c.kind = "START" => n <= 1
    BY DEF WayInv, OnItsWay, Acquire
  <2>4. pc'[c] = phase /\ held'[c] = n + 1 /\ held' = [held EXCEPT ![c] = n + 1]
    BY <1>3 DEF Goto, WayInv, Tabled
  <2>5. OnItsWay(c)'
    BY <2>1, <2>2, <2>3, <2>4 DEF OnItsWay, InFlight, Over, Appending, Journaled
  <2>6. phase \in Phases
    BY <2>2 DEF Phases
  <2>7. \E m : IsMemo(m) /\ memo' = [memo EXCEPT ![c] = m]
    <3>1. CASE phase = "dated"
      <4> DEFINE m == [memo[c] EXCEPT !.stamp = KeyRevoked(c)]
      <4>1. memo' = [memo EXCEPT ![c] = m]
        BY <1>3, <3>1
      <4>2. IsMemo(m)
        BY DEF IsMemo, WayInv, Tabled, KeyRevoked
      <4> QED
        BY <4>1, <4>2
    <3>2. CASE phase # "dated"
      BY <1>3, <3>2 DEF WayInv, Tabled
    <3> QED
      BY <3>1, <3>2
  <2> HIDE DEF phase, n
  <2> QED
    BY <1>1, <1>3, <2>1, <2>4, <2>5, <2>6, <2>7, GotoWay DEF phase, n
<1> QED
  BY <1>2, <1>3 DEF Acquire

LEMMA CheckWay ==
  ASSUME WayInv, NEW c \in Calls, CheckRevoked(c) \/ ReadPolicy(c) \/ InsertEvent(c)
  PROVE  WayInv' /\ Others(c)
<1>1. RegistryTyped' /\ UNCHANGED registry
  BY DEF CheckRevoked, ReadPolicy, InsertEvent, rowVars, registry, WayInv, Tabled, RegistryTyped
<1>2. ASSUME NEW phase \in {"idle", "refused"}, Finish(c, phase)
      PROVE  WayInv' /\ Others(c)
  BY <1>1, <1>2, FinishWay DEF Over
<1>3. CASE CheckRevoked(c)
  BY <1>1, <1>2, <1>3, StayWay
     DEF CheckRevoked, WayInv, OnItsWay, InFlight, Over, Phases, Appending
<1>4. CASE ReadPolicy(c)
  BY <1>1, <1>2, <1>4, StayWay
     DEF ReadPolicy, WayInv, OnItsWay, InFlight, Over, Phases, Appending
<1>5. CASE InsertEvent(c)
  BY <1>1, <1>2, <1>5, StayWay
     DEF InsertEvent, WayInv, OnItsWay, InFlight, Over, Phases, Appending
<1> QED
  BY <1>3, <1>4, <1>5

LEMMA ReadHeadWay ==
  ASSUME WayInv, NEW c \in Calls, ReadHead(c)
  PROVE  WayInv' /\ Others(c) /\ pc'[c] = "head" /\ memo'[c].stamp = memo[c].stamp
         /\ memo'[c].head = Len(journal[c.experiment])
<1> DEFINE m == [memo[c] EXCEPT !.head = Len(journal[c.experiment])]
<1>1. /\ IsMemo(m) /\ m.stamp = memo[c].stamp /\ m.head = Len(journal[c.experiment])
      /\ memo' = [memo EXCEPT ![c] = m]
  BY DEF ReadHead, WayInv, Tabled, IsMemo
<1>2. held[c] \in Nat /\ held' = [held EXCEPT ![c] = held[c]] /\ UNCHANGED registry
  BY DEF ReadHead, WayInv, Tabled, rowVars
<1>3. pc'[c] = "head" /\ held'[c] = held[c] /\ Goto(c, "head")
  BY DEF ReadHead, Goto, WayInv, Tabled
<1>4. OnItsWay(c)'
  BY <1>3 DEF ReadHead, WayInv, OnItsWay, InFlight, Over, Appending, Journaled
<1> HIDE DEF m
<1> QED
  BY <1>1, <1>2, <1>3, <1>4, GotoWay DEF Phases

LEMMA CommitWay ==
  ASSUME WayInv, NEW c \in Calls, Commit(c) \/ RollBack(c)
  PROVE  WayInv' /\ Others(c)
<1>1. \E phase \in {"done", "idle"} : Finish(c, phase)
  BY DEF Commit, RollBack
<1>2. CASE Commit(c)
  <2>1. RegistryTyped'
    BY <1>2, CallsAssumption DEF Commit, Start, Accept, Apply, Complete, Checkpoint, Enter,
          Stop, Record, registry, RegistryTyped, WayInv, Tabled
  <2> QED
    BY <1>1, <2>1, FinishWay DEF Over
<1>3. CASE RollBack(c)
  <2>1. RegistryTyped'
    BY <1>3 DEF RollBack, rowVars, registry, RegistryTyped, WayInv, Tabled
  <2> QED
    BY <1>1, <2>1, FinishWay DEF Over
<1> QED
  BY <1>2, <1>3

LEMMA WayStep ==
  ASSUME WayInv, NEW c \in Calls, CallStep(c)
  PROVE  WayInv' /\ Others(c)
BY StatementWay, BeginWay, LookupWay, AcquireWay, CheckWay, ReadHeadWay, CommitWay
   DEF CallStep, Proceed

-----------------------------------------------------------------------------
(* Locks                                                                   *)

(* Locks that two calls hold on a row do not conflict. *)
LocksInv ==
  \A c, d \in Calls : c # d =>
    \A l \in LocksOf(c), m \in LocksOf(d) : l.row = m.row => ~Conflicting(l.mode, m.mode)

LEMMA LockHeld ==
  ASSUME WayInv, NEW c \in Calls, NEW i \in Nat \ {0}, held[c] >= i
  PROVE  Needs(c)[i] \in LocksOf(c)
BY DEF LocksOf, WayInv, Tabled

LEMMA LockAlone ==
  ASSUME LocksInv, NEW c \in Calls, NEW d \in Calls, NEW row,
         Lock("UPDATE", row) \in LocksOf(c), Lock("UPDATE", row) \in LocksOf(d)
  PROVE  c = d
<1>1. Lock("UPDATE", row).mode = "UPDATE"
  BY DEF Lock
<1> QED
  BY <1>1 DEF LocksInv, Conflicting

LEMMA HeldChanges ==
  ASSUME WayInv, NEW c \in Calls, CallStep(c)
  PROVE  held'[c] = 0 \/ held'[c] = held[c] \/ (Acquire(c) /\ held'[c] = held[c] + 1)
<1>1. ASSUME NEW phase, Finish(c, phase) PROVE held'[c] = 0
  BY <1>1 DEF Finish, WayInv, Tabled
<1>2. CASE Acquire(c)
  BY <1>1, <1>2 DEF Acquire, WayInv, Tabled
<1> QED
  BY <1>1, <1>2 DEF CallStep, Proceed, Statement, Register, Create, Revoke, Begin, Lookup,
     CheckRevoked, ReadPolicy, ReadHead, InsertEvent, Commit, RollBack

LEMMA LocksStep ==
  ASSUME WayInv, LocksInv, NEW c \in Calls, CallStep(c)
  PROVE  LocksInv'
<1>1. \A d \in Calls \ {c} : LocksOf(d)' = LocksOf(d)
  BY WayStep DEF Others, LocksOf
<1>2. \A l \in LocksOf(c)' : l \in LocksOf(c) \/ (Acquire(c) /\ l = NextLock(c))
  <2>1. held[c] \in Nat
    BY DEF WayInv, Tabled
  <2> QED
    BY <2>1, HeldChanges DEF LocksOf, NextLock
<1>3. ASSUME NEW d \in Calls \ {c}, NEW l \in LocksOf(c)', NEW m \in LocksOf(d), l.row = m.row
      PROVE  ~Conflicting(l.mode, m.mode)
  <2>1. CASE l \in LocksOf(c)
    BY <1>3, <2>1 DEF LocksInv
  <2>2. CASE Acquire(c) /\ l = NextLock(c)
    <3>1. ~WaitsFor(c, d) /\ pc[c] = "locking"
      BY <2>2 DEF Acquire, Blocked
    <3> QED
      BY <1>3, <2>2, <3>1 DEF WaitsFor, Conflicting
  <2> QED
    BY <1>2, <2>1, <2>2
<1>4. ASSUME NEW x \in Calls, NEW y \in Calls, x # y,
             NEW l \in LocksOf(x)', NEW m \in LocksOf(y)', l.row = m.row
      PROVE  ~Conflicting(l.mode, m.mode)
  BY <1>1, <1>3, <1>4 DEF LocksInv, Conflicting
<1> QED
  BY <1>4 DEF LocksInv

LEMMA LocksInit == Init => LocksInv
BY DEF Init, LocksInv, LocksOf

LEMMA LocksStutter ==
  ASSUME LocksInv, UNCHANGED vars
  PROVE  LocksInv'
<1>1. \A c \in Calls : LocksOf(c)' = LocksOf(c)
  BY DEF vars, txVars, LocksOf
<1> QED
  BY <1>1 DEF LocksInv

-----------------------------------------------------------------------------
(* Revocation                                                              *)

(* A date after a revocation is only ever seen by the check that refuses it. *)
DatesInv ==
  /\ \A c \in Calls : memo[c].stamp => pc[c] = "dated" /\ KeyRevoked(c)
  /\ AcceptedBeforeRevoked

LEMMA RevokedForEver ==
  ASSUME WayInv, NEW c \in Calls, CallStep(c), NEW d \in Calls, KeyRevoked(d)
  PROVE  KeyRevoked(d)'
<1>1. CASE Statement(c)
  BY <1>1, CallsAssumption
     DEF Statement, Register, Create, Revoke, KeyRevoked, WayInv, Tabled, Versions
<1>2. CASE UNCHANGED version
  BY <1>2 DEF KeyRevoked
<1>3. CASE Commit(c)
  BY <1>3, <1>2 DEF Commit, Start, Accept, Apply, Complete, Checkpoint, Enter,
        Stop, Record, registry
<1> QED
  BY <1>1, <1>2, <1>3 DEF CallStep, Proceed, Begin, Lookup, Acquire, CheckRevoked,
        ReadPolicy, ReadHead, InsertEvent, RollBack, rowVars, registry

LEMMA MoverDated ==
  ASSUME WayInv, DatesInv, NEW c \in Calls, CallStep(c), memo'[c].stamp
  PROVE  pc'[c] = "dated" /\ KeyRevoked(c)'
<1>1. ASSUME NEW phase, Finish(c, phase) PROVE ~memo'[c].stamp
  BY <1>1 DEF Finish, WayInv, Tabled, NoMemo
<1>2. ASSUME memo' = memo, pc[c] # "dated" PROVE ~memo'[c].stamp
  BY <1>2 DEF DatesInv
<1>3. ~Statement(c)
  BY <1>1 DEF Statement, Register, Create, Revoke
<1>4. ~Begin(c)
  BY BeginWay
<1>5. ~Lookup(c)
  BY <1>1, <1>2 DEF Lookup
<1>6. ~CheckRevoked(c)
  BY <1>1 DEF CheckRevoked, DatesInv
<1>7. ~ReadPolicy(c) /\ ~InsertEvent(c)
  BY <1>1, <1>2 DEF ReadPolicy, InsertEvent
<1>8. ~ReadHead(c)
  BY ReadHeadWay DEF DatesInv, ReadHead
<1>9. ~Commit(c) /\ ~RollBack(c)
  BY <1>1 DEF Commit, RollBack
<1>10. Acquire(c)
  BY <1>3, <1>4, <1>5, <1>6, <1>7, <1>8, <1>9 DEF CallStep, Proceed
<1>11. /\ Goto(c, PhaseAfter(c, held[c])) /\ PhaseAfter(c, held[c]) = "dated"
       /\ memo' = [memo EXCEPT ![c].stamp = KeyRevoked(c)]
  BY <1>1, <1>2, <1>10 DEF Acquire
<1>12. KeyRevoked(c)
  <2> SUFFICES ASSUME KeyRevoked(c) = FALSE PROVE FALSE
    BY DEF KeyRevoked
  <2>1. memo' = [memo EXCEPT ![c] = [memo[c] EXCEPT !.stamp = FALSE]]
    BY <1>11
  <2>2. memo'[c] = [memo[c] EXCEPT !.stamp = FALSE] /\ IsMemo(memo[c])
    BY <2>1 DEF WayInv, Tabled
  <2>3. memo'[c].stamp = FALSE
    BY <2>2 DEF IsMemo
  <2> QED
    BY <2>3
<1>13. pc'[c] = "dated"
  BY <1>11 DEF Goto, WayInv, Tabled
<1> QED
  BY <1>12, <1>13, RevokedForEver

LEMMA DatesStep ==
  ASSUME WayInv, DatesInv, NEW c \in Calls, CallStep(c)
  PROVE  DatesInv'
<1>1. ASSUME NEW d \in Calls, memo'[d].stamp PROVE pc'[d] = "dated" /\ KeyRevoked(d)'
  <2>1. CASE d = c
    BY <1>1, <2>1, MoverDated
  <2>2. CASE d # c
    BY <1>1, <2>2, WayStep, RevokedForEver DEF Others, DatesInv
  <2> QED
    BY <2>1, <2>2
<1>2. AcceptedBeforeRevoked'
  <2>1. CASE UNCHANGED actions
    BY <2>1 DEF DatesInv, AcceptedBeforeRevoked
  <2>2. CASE Commit(c) /\ Accept(c)
    <3>1. ~memo[c].stamp
      BY <2>2 DEF DatesInv, Commit
    <3> QED
      BY <2>2, <3>1 DEF Accept, DatesInv, AcceptedBeforeRevoked
  <2> QED
    BY <2>1, <2>2 DEF CallStep, Proceed, Statement, Begin, Lookup, Acquire, CheckRevoked,
          ReadPolicy, ReadHead, InsertEvent, RollBack, rowVars, Commit, Start, Apply,
          Complete, Checkpoint, Enter, Stop, Record
<1> QED
  BY <1>1, <1>2 DEF DatesInv

(* An accepted action never shows a date after a revocation that was already *)
(* in force: acceptAction against revokeAgentVersion.                        *)
THEOREM AcceptanceBeforeRevocation == Spec => []AcceptedBeforeRevoked
<1>1. Init => WayInv /\ DatesInv
  <2> SUFFICES ASSUME Init PROVE DatesInv
    BY WayInit
  <2> QED
    BY DEF Init, DatesInv, AcceptedBeforeRevoked, NoMemo
<1>2. WayInv /\ DatesInv /\ [Next]_vars => (WayInv /\ DatesInv)'
  <2> SUFFICES ASSUME WayInv, DatesInv, [Next]_vars PROVE (WayInv /\ DatesInv)'
    OBVIOUS
  <2>1. CASE Next
    BY <2>1, WayStep, DatesStep DEF Next, CallStep
  <2>2. CASE UNCHANGED vars
    BY <2>2 DEF vars, txVars, rowVars, registry, WayInv, Tabled, OnItsWay, InFlight,
          Journaled, DatesInv, AcceptedBeforeRevoked, KeyRevoked
  <2> QED
    BY <2>1, <2>2
<1>3. DatesInv => AcceptedBeforeRevoked
  BY DEF DatesInv
<1> QED
  BY <1>1, <1>2, <1>3, PTL DEF Spec

-----------------------------------------------------------------------------
(* Quotas                                                                  *)

Busy == {Agent[e] : e \in Started}

(* A start that holds the lock of the quota. *)
Counting(c) == c.kind = "START" /\ held[c] = 2

QuotaInv ==
  /\ IsFiniteSet(Busy) /\ QuotasHold
  /\ \A c \in Calls : Counting(c) => QuotaAllows(c.experiment)

LEMMA CountsAlone ==
  ASSUME WayInv, LocksInv, NEW c \in Calls, NEW d \in Calls, Counting(c), Counting(d)
  PROVE  c = d
<1>1. ASSUME NEW x \in Calls, Counting(x) PROVE Lock("UPDATE", <<"quota">>) \in LocksOf(x)
  <2>1. Needs(x)[2] = Lock("UPDATE", <<"quota">>)
    BY <1>1 DEF Needs, StartLocks, Counting
  <2> QED
    BY <1>1, <2>1, LockHeld DEF Counting
<1> QED
  BY <1>1, LockAlone

(* Every step but the commit of a start or a stop leaves the experiments that *)
(* are active as they are.                                                    *)
LEMMA StartedChanges ==
  ASSUME WayInv, NEW c \in Calls, CallStep(c)
  PROVE  \/ Started' = Started
         \/ Commit(c) /\ Counting(c) /\ Started' = Started \cup {c.experiment}
         \/ Commit(c) /\ c.kind = "STOP" /\ Started' = Started \ {c.experiment}
<1>1. CASE UNCHANGED state
  BY <1>1 DEF Started
<1>2. CASE Statement(c)
  BY <1>2, CallsAssumption DEF Statement, Register, Create, Revoke, Started, WayInv, Tabled
<1>3. CASE Commit(c) /\ Start(c)
  <2>1. Counting(c)
    BY <1>3 DEF Commit, Start, Counting, WayInv, OnItsWay, Appending
  <2>2. Started' = Started \cup {c.experiment}
    BY <1>3, CallsAssumption DEF Start, Started, WayInv, Tabled
  <2> QED
    BY <1>3, <2>1, <2>2
<1>4. CASE Commit(c) /\ Stop(c)
  BY <1>4, CallsAssumption DEF Stop, Started, WayInv, Tabled
<1>5. CASE Commit(c) /\ ~Start(c) /\ ~Stop(c)
  BY <1>1, <1>5 DEF Commit, Accept, Apply, Complete, Checkpoint, Enter, Record, registry
<1> QED
  BY <1>1, <1>2, <1>3, <1>4, <1>5 DEF CallStep, Proceed, Begin, Lookup, Acquire,
     CheckRevoked, ReadPolicy, ReadHead, InsertEvent, RollBack, rowVars, registry

(* A start that takes the lock of the quota has counted the active ones.      *)
LEMMA CountingMover ==
  ASSUME WayInv, NEW c \in Calls, CallStep(c), Counting(c)'
  PROVE  \/ Counting(c) /\ ~Commit(c)
         \/ UNCHANGED rowVars /\ QuotaAllows(c.experiment)
<1>1. ASSUME NEW phase, Finish(c, phase) PROVE FALSE
  BY <1>1 DEF Finish, WayInv, Tabled, Counting
<1>2. ~Statement(c) /\ ~Commit(c)
  BY <1>1 DEF Statement, Register, Create, Revoke, Commit
<1>3. CASE held'[c] = held[c]
  BY <1>2, <1>3 DEF Counting
<1>4. CASE Acquire(c) /\ held'[c] # held[c]
  <2>1. /\ pc[c] = "locking" /\ ~Blocked(c) /\ Allows(c, held[c]) /\ UNCHANGED rowVars
        /\ held' = [held EXCEPT ![c] = @ + 1]
    BY <1>1, <1>4 DEF Acquire
  <2>2. c.kind = "START" /\ held[c] = 1
    BY <2>1 DEF Counting, WayInv, Tabled
  <2>3. QuotaAllows(c.experiment)
    BY <2>1, <2>2 DEF Allows, StartAllows
  <2> QED
    BY <2>1, <2>3
<1> QED
  BY <1>1, <1>2, <1>3, <1>4 DEF CallStep, Proceed, Begin, Lookup, CheckRevoked, ReadPolicy,
     ReadHead, InsertEvent, RollBack

LEMMA QuotaStep ==
  ASSUME WayInv, LocksInv, QuotaInv, NEW c \in Calls, CallStep(c)
  PROVE  QuotaInv'
<1>1. \A d \in Calls \ {c} : Counting(d)' <=> Counting(d)
  BY WayStep DEF Others, Counting
<1>3. ASSUME NEW d \in Calls, Counting(d)', Started' = Started PROVE QuotaAllows(d.experiment)'
  <2>1. QuotaAllows(d.experiment)
    BY <1>1, <1>3, CountingMover DEF QuotaInv
  <2> QED
    BY <1>3, <2>1 DEF QuotaAllows
<1>4. CASE Started' = Started
  BY <1>3, <1>4 DEF QuotaInv, Busy, QuotasHold
<1>5. CASE Commit(c) /\ Counting(c) /\ Started' = Started \cup {c.experiment}
  <2>1. QuotaAllows(c.experiment)
    BY <1>5 DEF QuotaInv
  <2>2. Busy' = Busy \cup {Agent[c.experiment]}
    BY <1>5 DEF Busy
  <2>3. IsFiniteSet(Busy') /\ Cardinality(Busy') <= MaxActiveAgents
    <3>1. /\ IsFiniteSet(Busy \cup {Agent[c.experiment]})
          /\ Cardinality(Busy \cup {Agent[c.experiment]})
               = IF Agent[c.experiment] \in Busy THEN Cardinality(Busy) ELSE Cardinality(Busy) + 1
      BY FS_AddElement DEF QuotaInv
    <3>2. Cardinality(Busy) <= MaxActiveAgents /\ Cardinality(Busy) \in Nat
      BY FS_CardinalityType DEF QuotaInv, QuotasHold, Busy
    <3>3. Agent[c.experiment] \in Busy \/ Cardinality(Busy) < MaxActiveAgents
      BY <2>1 DEF QuotaAllows, Busy
    <3> QED
      BY <2>2, <3>1, <3>2, <3>3, ControlBoundsAssumption
  <2>4. \A d, e \in Started' : Agent[d] = Agent[e] /\ Profile[d] = Profile[e] => d = e
    BY <1>5, <2>1 DEF QuotaAllows, QuotaInv, QuotasHold
  <2>5. \A d \in Calls : ~Counting(d)'
    <3>1. ~Counting(c)'
      BY <1>5 DEF Commit, Finish, Counting, WayInv, Tabled
    <3> QED
      BY <1>1, <1>5, <3>1, CountsAlone
  <2> QED
    BY <2>3, <2>4, <2>5 DEF QuotaInv, QuotasHold, Busy
<1>6. CASE Commit(c) /\ c.kind = "STOP" /\ Started' = Started \ {c.experiment}
  <2>1. Busy' \subseteq Busy
    BY <1>6 DEF Busy
  <2>2. IsFiniteSet(Busy') /\ Cardinality(Busy') <= Cardinality(Busy)
        /\ (Cardinality(Busy') = Cardinality(Busy) => Busy' = Busy)
    BY <2>1, FS_Subset DEF QuotaInv
  <2>3. /\ Cardinality(Busy) <= MaxActiveAgents
        /\ Cardinality(Busy) \in Nat /\ Cardinality(Busy') \in Nat
    BY <2>2, FS_CardinalityType DEF QuotaInv, QuotasHold, Busy
  <2>4. ASSUME NEW d \in Calls, Counting(d)' PROVE QuotaAllows(d.experiment)'
    <3>1. d # c
      BY <1>6, <2>4 DEF Counting
    <3>2. QuotaAllows(d.experiment)
      BY <1>1, <2>4, <3>1 DEF QuotaInv
    <3>3. ~ \E x \in Started' : Agent[x] = Agent[d.experiment] /\ Profile[x] = Profile[d.experiment]
      BY <1>6, <3>2 DEF QuotaAllows
    <3>4. \/ \E x \in Started' : Agent[x] = Agent[d.experiment]
          \/ Cardinality(Busy') < MaxActiveAgents
      <4>1. CASE Agent[d.experiment] \in Busy'
        BY <4>1 DEF Busy
      <4>2. CASE Agent[d.experiment] \notin Busy'
        <5>1. CASE Agent[d.experiment] \in Busy
          BY <2>2, <2>3, <4>2, <5>1, ControlBoundsAssumption
        <5>2. CASE Agent[d.experiment] \notin Busy
          <6>1. Cardinality(Busy) < MaxActiveAgents
            BY <3>2, <5>2 DEF QuotaAllows, Busy
          <6> QED
            BY <2>2, <2>3, <6>1, ControlBoundsAssumption
        <5> QED
          BY <5>1, <5>2
      <4> QED
        BY <4>1, <4>2
    <3> QED
      BY <3>3, <3>4 DEF QuotaAllows, Busy
  <2>5. \A d, e \in Started' : Agent[d] = Agent[e] /\ Profile[d] = Profile[e] => d = e
    BY <1>6 DEF QuotaInv, QuotasHold
  <2>6. Cardinality(Busy') <= MaxActiveAgents
    BY <2>2, <2>3, ControlBoundsAssumption
  <2> QED
    BY <2>2, <2>4, <2>5, <2>6 DEF QuotaInv, QuotasHold, Busy
<1> QED
  BY <1>4, <1>5, <1>6, StartedChanges

(* However many starts run at once, no agent has two active experiments on a  *)
(* profile and no more agents than allowed have one: startExperiment.         *)
THEOREM QuotasAreKept == Spec => []QuotasHold
<1> DEFINE Inv == WayInv /\ LocksInv /\ QuotaInv
<1>1. Init => Inv
  <2> SUFFICES ASSUME Init PROVE QuotaInv
    BY WayInit, LocksInit
  <2>1. Started = {} /\ Busy = {}
    BY DEF Init, Started, Busy
  <2>2. \A c \in Calls : ~Counting(c)
    BY DEF Init, Counting
  <2>3. {Agent[e] : e \in Started} = {}
    BY <2>1
  <2> QED
    BY <2>1, <2>2, <2>3, FS_EmptySet, ControlBoundsAssumption DEF QuotaInv, QuotasHold
<1>2. Inv /\ [Next]_vars => Inv'
  <2> SUFFICES ASSUME Inv, [Next]_vars PROVE Inv'
    OBVIOUS
  <2>1. CASE Next
    BY <2>1, WayStep, LocksStep, QuotaStep DEF Next, CallStep
  <2>2. CASE UNCHANGED vars
    BY <2>2, LocksStutter DEF vars, txVars, rowVars, registry, WayInv, Tabled, OnItsWay,
       InFlight, Journaled, QuotaInv, Busy, Started, Counting, QuotaAllows, QuotasHold
  <2> QED
    BY <2>1, <2>2
<1>3. Inv => QuotasHold
  BY DEF QuotaInv
<1> HIDE DEF Inv
<1> QED
  BY <1>1, <1>2, <1>3, PTL DEF Spec

-----------------------------------------------------------------------------
(* An experiment that has begun                                            *)

Begun(e) == state[e] \in {"STARTED", "CLOSED"}

(* What a call has made sure of under the locks it has acquired so far.  An   *)
(* experiment that has begun never becomes a draft again.                     *)
SureOf(c) ==
  /\ c.kind = "ACCEPT" /\ held[c] >= 2 => Begun(c.experiment)
  /\ c.kind \in {"CHECKPOINT", "COMPLETE", "STOP"} /\ held[c] >= 1 => Begun(c.experiment)
  /\ c.kind = "CORRECT" /\ held[c] >= 1 => state[c.experiment] # "ABSENT"
  /\ c.kind # "START" /\ pc[c] \in Appending => Begun(c.experiment)

BegunInv ==
  /\ \A c \in Calls : SureOf(c)
  /\ \A a \in actions : a.envelope.experiment \in Experiments /\ Begun(a.envelope.experiment)

LEMMA BegunForEver ==
  ASSUME WayInv, NEW c \in Calls, CallStep(c), NEW e \in Experiments
  PROVE  /\ Begun(e) => Begun(e)'
         /\ state[e] # "ABSENT" => state'[e] # "ABSENT"
<1>1. CASE UNCHANGED state
  BY <1>1 DEF Begun
<1>2. CASE Statement(c)
  BY <1>2, CallsAssumption DEF Statement, Register, Create, Revoke, Begun, WayInv, Tabled
<1>3. CASE Commit(c) /\ (Start(c) \/ Stop(c))
  BY <1>3, CallsAssumption DEF Start, Stop, Begun, WayInv, Tabled
<1>4. CASE Commit(c) /\ ~Start(c) /\ ~Stop(c)
  BY <1>1, <1>4 DEF Commit, Accept, Apply, Complete, Checkpoint, Enter, Record, registry
<1> QED
  BY <1>1, <1>2, <1>3, <1>4 DEF CallStep, Proceed, Begin, Lookup, Acquire,
     CheckRevoked, ReadPolicy, ReadHead, InsertEvent, RollBack, rowVars, registry

LEMMA AppendAfter ==
  ASSUME NEW c \in Calls, c.kind \notin Statements, NEW n \in Nat, PhaseAfter(c, n) = "append"
  PROVE  c.kind = "ACCEPT" => n >= 2
BY CallsAssumption DEF PhaseAfter, Needs, AcceptLocks, Kinds, Statements

LEMMA MoverSure ==
  ASSUME WayInv, BegunInv, NEW c \in Calls, CallStep(c)
  PROVE  SureOf(c)'
<1>0. c.experiment \in Experiments
  BY CallsAssumption
<1>1. ASSUME NEW phase \in Over \ {"unmade"}, Finish(c, phase) PROVE SureOf(c)'
  BY <1>1, FinishTables DEF SureOf, WayInv, Over, Appending
<1>2. ASSUME held' = held, pc'[c] \in Appending => pc[c] \in Appending
      PROVE  SureOf(c)'
  BY <1>0, <1>2, BegunForEver DEF SureOf, BegunInv
<1>3. CASE Statement(c) \/ Commit(c) \/ RollBack(c)
  BY <1>1, <1>3 DEF Statement, Register, Create, Revoke, Commit, RollBack, Over
<1>4. CASE Begin(c) \/ Lookup(c) \/ CheckRevoked(c) \/ ReadHead(c) \/ InsertEvent(c)
  BY <1>1, <1>2, <1>4 DEF Begin, Lookup, CheckRevoked, ReadHead, InsertEvent, Goto, Over,
     Appending, WayInv, Tabled
<1>5. CASE ReadPolicy(c)
  <2>1. CASE Finish(c, "refused")
    BY <1>1, <2>1 DEF Over
  <2>2. CASE state[c.experiment] # "DRAFT" /\ Goto(c, "append") /\ UNCHANGED held
    <3>1. c.kind = "CORRECT" /\ UNCHANGED state
      BY <1>5 DEF ReadPolicy, WayInv, OnItsWay, rowVars, registry
    <3>2. Journaled(c) /\ InFlight(c)
      BY <1>5, <3>1 DEF Journaled, ReadPolicy, InFlight, Over
    <3>3. held[c] >= 1
      BY <1>5 DEF WayInv, OnItsWay, ReadPolicy
    <3>4. Begun(c.experiment)
      BY <1>0, <2>2, <3>1, <3>3 DEF BegunInv, SureOf, Begun, WayInv, Tabled
    <3> QED
      BY <2>2, <3>1, <3>4 DEF SureOf, Begun
  <2> QED
    BY <1>5, <2>1, <2>2 DEF ReadPolicy
<1>6. CASE Acquire(c)
  <2> DEFINE n == held[c]
  <2>1. ASSUME NEW phase \in {"stored", "refused"}, Finish(c, phase) PROVE SureOf(c)'
    BY <1>1, <2>1 DEF Over
  <2>2. CASE /\ ~Finds(c, n) /\ Allows(c, n) /\ Goto(c, PhaseAfter(c, n))
             /\ held' = [held EXCEPT ![c] = @ + 1]
    <3>1. /\ n \in Nat /\ held'[c] = n + 1 /\ pc'[c] = PhaseAfter(c, n)
          /\ c.kind \notin Statements /\ UNCHANGED state
      BY <1>6, <2>2 DEF WayInv, Tabled, OnItsWay, InFlight, Over, Acquire, Goto, rowVars, registry
    <3>2. c.kind = "ACCEPT" => n = 0 \/ Begun(c.experiment)
      BY <2>2, <3>1 DEF Allows, AcceptAllows, Begun, BegunInv, SureOf
    <3>3. c.kind \in {"CHECKPOINT", "STOP"} => Begun(c.experiment)
      BY <2>2, <3>1 DEF Allows, CheckpointAllows, StopAllows, Begun, BegunInv, SureOf
    <3>4. c.kind = "COMPLETE" => Begun(c.experiment)
      BY <2>2 DEF Allows, SameKey, BegunInv
    <3>5. c.kind = "CORRECT" => state[c.experiment] # "ABSENT"
      BY <2>2 DEF Allows
    <3>6. PhaseAfter(c, n) \in {"dated", "locking", "commit", "policy", "append"}
          /\ (PhaseAfter(c, n) = "append" => Journaled(c) /\ (c.kind = "ACCEPT" => n >= 2))
      BY <3>1, PhaseAfterLock, AppendAfter
    <3>7. c.kind # "CORRECT" \/ PhaseAfter(c, n) # "append"
      BY <3>1, CallsAssumption DEF PhaseAfter, Needs, CorrectLocks
    <3> HIDE DEF n
    <3> QED
      BY <3>1, <3>2, <3>3, <3>4, <3>5, <3>6, <3>7 DEF SureOf, Begun, Appending, Journaled
  <2> QED
    BY <1>6, <2>1, <2>2 DEF Acquire
<1> QED
  BY <1>3, <1>4, <1>5, <1>6 DEF CallStep, Proceed

LEMMA BegunStep ==
  ASSUME WayInv, BegunInv, NEW c \in Calls, CallStep(c)
  PROVE  BegunInv'
<1>1. ASSUME NEW d \in Calls PROVE SureOf(d)'
  <2>1. CASE d = c
    BY <2>1, MoverSure
  <2>2. CASE d # c
    BY <2>2, WayStep, BegunForEver, CallsAssumption DEF SureOf, BegunInv, Others
  <2> QED
    BY <2>1, <2>2
<1>2. ASSUME NEW a \in actions'
      PROVE  a.envelope.experiment \in Experiments /\ Begun(a.envelope.experiment)'
  <2>1. CASE a \in actions
    BY <2>1, BegunForEver DEF BegunInv
  <2>2. CASE a \notin actions
    <3>1. Commit(c) /\ Accept(c)
      BY <1>2, <2>2 DEF CallStep, Proceed, Statement, Begin, Lookup, Acquire, CheckRevoked,
         ReadPolicy, ReadHead, InsertEvent, RollBack, rowVars, Commit, Start, Apply,
         Complete, Checkpoint, Enter, Stop, Record
    <3>2. a.envelope.experiment = c.experiment
      BY <1>2, <2>2, <3>1 DEF Accept, Envelope
    <3>3. pc[c] \in Appending /\ c.kind = "ACCEPT"
      BY <3>1 DEF Commit, Accept, WayInv, OnItsWay, Appending
    <3>4. Begun(c.experiment)
      BY <3>3 DEF BegunInv, SureOf
    <3> QED
      BY <3>2, <3>4, BegunForEver, CallsAssumption
  <2> QED
    BY <2>1, <2>2
<1> QED
  BY <1>1, <1>2 DEF BegunInv

-----------------------------------------------------------------------------
(* The journal                                                             *)

Entries == [sequence : Nat, call : Calls]

Places(log, c) == {i \in DOMAIN log : log[i].call = c}

Once(c) ==
  IF pc[c] = "done" THEN \E i : Places(journal[c.experiment], c) = {i}
  ELSE Places(journal[c.experiment], c) = {}

LogFits(e) ==
  /\ \A i \in DOMAIN journal[e] : journal[e][i].sequence = i
  /\ journal[e] # << >> => journal[e][1].call.kind = "START"
  /\ Begun(e) => journal[e] # << >>

(* The call that will insert next is the only one, and read the last row.    *)
JournalInv ==
  /\ journal \in [Experiments -> Seq(Entries)]
  /\ \A c \in Calls : memo[c].head \in Nat
  /\ \A e \in Experiments : LogFits(e)
  /\ \A c \in Calls : pc[c] = "journaled" => memo[c].head = Len(journal[c.experiment])
  /\ \A c, d \in Calls :
        pc[c] = "journaled" /\ pc[d] = "journaled" /\ c.experiment = d.experiment => c = d
  /\ \A c \in Calls : Journaled(c) => Once(c)

Appends(c) == Commit(c) /\ pc[c] = "journaled"

(* An experiment begins with the commit of its start. *)
LEMMA BeginsAtStart ==
  ASSUME WayInv, BegunInv, NEW c \in Calls, CallStep(c), NEW e \in Experiments,
         Begun(e)', ~Appends(c)
  PROVE  Begun(e)
<1>1. CASE UNCHANGED state
  BY <1>1 DEF Begun
<1>2. CASE Statement(c)
  BY <1>2, CallsAssumption DEF Statement, Register, Create, Revoke, Begun, WayInv, Tabled
<1>3. CASE Commit(c)
  <2>1. pc[c] = "commit"
    BY <1>3 DEF Appends, Commit
  <2>2. c.kind \in {"APPLY", "ENTRY", "STOP", "AUDIT"} /\ held[c] >= 1
    BY <2>1 DEF WayInv, OnItsWay
  <2>3. CASE Stop(c)
    BY <2>2, <2>3, CallsAssumption DEF Stop, Begun, BegunInv, SureOf, WayInv, Tabled
  <2>4. CASE ~Stop(c)
    BY <1>1, <1>3, <2>2, <2>4 DEF Commit, Start, Accept, Apply, Complete, Checkpoint, Enter,
       Record, registry
  <2> QED
    BY <2>3, <2>4
<1> QED
  BY <1>1, <1>2, <1>3 DEF CallStep, Proceed, Begin, Lookup, Acquire, CheckRevoked,
     ReadPolicy, ReadHead, InsertEvent, RollBack, rowVars, registry

LEMMA JournalChanges ==
  ASSUME WayInv, JournalInv, NEW c \in Calls, CallStep(c)
  PROVE  \/ UNCHANGED journal /\ ~Appends(c) /\ (Journaled(c) => ~Commit(c))
         \/ /\ Appends(c) /\ Journaled(c)
            /\ journal' = [journal EXCEPT ![c.experiment] = Append(@, EventOf(c))]
<1>1. CASE Commit(c)
  BY <1>1 DEF Commit, Appends, WayInv, OnItsWay, Appending, Journaled
<1>2. CASE ~Commit(c)
  BY <1>2 DEF CallStep, Proceed, Statement, Begin, Lookup, Acquire, CheckRevoked,
     ReadPolicy, ReadHead, InsertEvent, RollBack, rowVars, Appends
<1> QED
  BY <1>1, <1>2

(* A transaction is done by its commit, and by nothing else. *)
LEMMA DoneByCommit ==
  ASSUME WayInv, NEW c \in Calls, CallStep(c), c.kind \notin Statements
  PROVE  (pc'[c] = "done" /\ pc[c] # "done" /\ Commit(c)) \/ (pc'[c] = "done" <=> pc[c] = "done")
<1>1. c.kind \notin Statements
  OBVIOUS
<1>2. pc[c] # "done" \/ Statement(c) \/ Begin(c)
  BY DEF CallStep, Proceed, Lookup, Acquire, CheckRevoked, ReadPolicy, ReadHead,
     InsertEvent, RollBack, Commit, InFlight, Over
<1>3. ~Statement(c) /\ (Begin(c) => pc[c] # "done")
  BY <1>1 DEF Statement, Register, Create, Revoke, Statements, Begin
<1>4. ASSUME ~Commit(c) PROVE pc'[c] # "done"
  <2>1. ASSUME NEW phase, Goto(c, phase), phase # "done" PROVE pc'[c] # "done"
    BY <2>1 DEF Goto, WayInv, Tabled
  <2>2. CASE Acquire(c)
    BY <2>1, <2>2, <1>1, PhaseAfterLock DEF Acquire, Finish, WayInv, Tabled
  <2>3. CASE ~Acquire(c)
    BY <1>3, <1>4, <2>1, <2>3 DEF CallStep, Proceed, Begin, Lookup, CheckRevoked, ReadPolicy,
       ReadHead, InsertEvent, RollBack, Finish
  <2> QED
    BY <2>2, <2>3
<1> QED
  BY <1>2, <1>3, <1>4

(* Only one call waits to insert after the row that is the last one. *)
LEMMA InsertAlone ==
  ASSUME WayInv, JournalInv, NEW c \in Calls, CallStep(c), pc'[c] = "journaled"
  PROVE  /\ UNCHANGED journal /\ memo'[c].head = memo[c].head
         /\ memo[c].head = Len(journal[c.experiment])
         /\ \A d \in Calls \ {c} : pc[d] = "journaled" => d.experiment # c.experiment
<1>1. ASSUME NEW phase, Goto(c, phase), phase # "journaled" PROVE FALSE
  BY <1>1 DEF Goto, WayInv, Tabled
<1>2. ~Acquire(c)
  BY <1>1, PhaseAfterLock DEF Acquire, Finish, WayInv, Tabled, OnItsWay, InFlight, Over
<1>3. InsertEvent(c) /\ ~PlaceTaken(c) /\ UNCHANGED memo
  BY <1>1, <1>2 DEF CallStep, Proceed, Statement, Register, Create, Revoke, Begin, Lookup,
     CheckRevoked, ReadPolicy, ReadHead, InsertEvent, RollBack, Commit, Finish
<1>4. memo[c].head = Len(journal[c.experiment])
  BY <1>3 DEF PlaceTaken
<1>5. ASSUME NEW d \in Calls \ {c}, pc[d] = "journaled", d.experiment = c.experiment PROVE FALSE
  BY <1>3, <1>4, <1>5 DEF InsertEvent, Blocked, WaitsForHead, JournalInv
<1> QED
  BY <1>3, <1>4, <1>5 DEF InsertEvent, rowVars

LEMMA HeadIsNat ==
  ASSUME WayInv, JournalInv, NEW c \in Calls, CallStep(c)
  PROVE  \A d \in Calls : memo'[d].head \in Nat
<1>0. Len(journal[c.experiment]) \in Nat
  BY CallsAssumption DEF JournalInv
<1>1. ASSUME NEW phase, Finish(c, phase) PROVE memo'[c].head \in Nat
  BY <1>1 DEF Finish, WayInv, Tabled, NoMemo
<1>2. ASSUME memo' = memo PROVE memo'[c].head \in Nat
  BY <1>2 DEF JournalInv
<1>3. ASSUME Begin(c) PROVE memo'[c].head \in Nat
  BY <1>3 DEF Begin, WayInv, Tabled
<1>4. ASSUME ReadHead(c) PROVE memo'[c].head \in Nat
  BY <1>0, <1>4, ReadHeadWay
<1>5. ASSUME Acquire(c) PROVE memo'[c].head \in Nat
  <2>1. CASE memo' = [memo EXCEPT ![c].stamp = KeyRevoked(c)]
    <3>1. memo'[c] = [memo[c] EXCEPT !.stamp = KeyRevoked(c)] /\ IsMemo(memo[c])
      BY <2>1 DEF WayInv, Tabled
    <3>2. memo'[c].head = memo[c].head
      BY <3>1 DEF IsMemo
    <3> QED
      BY <3>2 DEF JournalInv
  <2> QED
    BY <1>1, <1>2, <1>5, <2>1 DEF Acquire
<1>6. memo'[c].head \in Nat
  BY <1>1, <1>2, <1>3, <1>4, <1>5 DEF CallStep, Proceed, Statement, Register, Create, Revoke,
     Lookup, CheckRevoked, ReadPolicy, InsertEvent, RollBack, Commit, JournalInv
<1> QED
  BY <1>6, WayStep DEF Others, JournalInv

LEMMA JournalGrows ==
  ASSUME WayInv, BegunInv, JournalInv, NEW c \in Calls, CallStep(c), Appends(c), Journaled(c),
         journal' = [journal EXCEPT ![c.experiment] = Append(@, EventOf(c))]
  PROVE  /\ journal' \in [Experiments -> Seq(Entries)]
         /\ \A e \in Experiments : LogFits(e)'
         /\ \A d \in Calls \ {c} : pc'[d] = "journaled" => d.experiment # c.experiment
         /\ \A d \in Calls : Journaled(d) => Once(d)'
<1> DEFINE e == c.experiment
           log == journal[e]
           event == EventOf(c)
<1>1. /\ e \in Experiments /\ log \in Seq(Entries) /\ event \in Entries
      /\ event.sequence = Len(log) + 1 /\ event.call = c
  <2>1. e \in Experiments /\ log \in Seq(Entries) /\ memo[c].head = Len(log)
    BY CallsAssumption DEF JournalInv, Appends
  <2>2. Len(log) \in Nat
    BY <2>1
  <2>3. event = [sequence |-> Len(log) + 1, call |-> c]
    BY <2>1 DEF EventOf
  <2> QED
    BY <2>1, <2>2, <2>3 DEF Entries
<1>2. /\ journal' \in [Experiments -> Seq(Entries)] /\ journal'[e] = Append(log, event)
      /\ \A x \in Experiments \ {e} : journal'[x] = journal[x]
  BY <1>1 DEF JournalInv
<1>3. /\ DOMAIN log = 1 .. Len(log) /\ Len(log) \in Nat
      /\ DOMAIN journal'[e] = 1 .. Len(log) + 1
      /\ journal'[e][Len(log) + 1] = event
      /\ \A i \in DOMAIN log : journal'[e][i] = log[i]
      /\ journal'[e] # << >> /\ (log = << >> <=> Len(log) = 0)
  BY <1>1, <1>2
<1>4. pc'[c] = "done" /\ pc[c] = "journaled"
  BY DEF Appends, Commit, Finish, Goto, WayInv, Tabled
<1> HIDE DEF event
<1>5. LogFits(e)'
  <2>1. \A i \in DOMAIN journal'[e] : journal'[e][i].sequence = i
    BY <1>1, <1>3 DEF JournalInv, LogFits
  <2>2. journal'[e][1].call.kind = "START"
    <3>1. CASE log = << >>
      <4>1. ~Begun(e)
        BY <1>1, <3>1 DEF JournalInv, LogFits
      <4>2. c.kind = "START"
        BY <1>4, <4>1 DEF BegunInv, SureOf, Appending
      <4> QED
        BY <1>1, <1>3, <3>1, <4>2
    <3>2. CASE log # << >>
      BY <1>1, <1>3, <3>2 DEF JournalInv, LogFits
    <3> QED
      BY <3>1, <3>2
  <2> QED
    BY <1>3, <2>1, <2>2 DEF LogFits
<1>6. ASSUME NEW x \in Experiments \ {e} PROVE LogFits(x)'
  <2>1. state'[x] = state[x]
    BY CallsAssumption DEF Appends, Commit, Start, Accept, Apply, Complete, Checkpoint,
       Enter, Stop, Record, registry, WayInv, Tabled
  <2> QED
    BY <1>2, <1>6, <2>1 DEF JournalInv, LogFits, Begun
<1>7. ASSUME NEW d \in Calls \ {c}, pc'[d] = "journaled" PROVE d.experiment # e
  BY <1>4, <1>7, WayStep DEF Others, JournalInv
<1>8. ASSUME NEW d \in Calls, Journaled(d) PROVE Once(d)'
  <2>1. CASE d = c
    <3>1. Places(log, c) = {}
      BY <1>4 DEF JournalInv, Once
    <3>2. Places(journal'[e], c) = {Len(log) + 1}
      BY <1>1, <1>3, <3>1 DEF Places
    <3> QED
      BY <1>4, <2>1, <3>2 DEF Once
  <2>2. CASE d # c
    <3>1. Once(d) /\ pc'[d] = pc[d] /\ d.experiment \in Experiments
      BY <1>8, <2>2, WayStep, CallsAssumption DEF JournalInv, Others
    <3>2. Places(journal'[d.experiment], d) = Places(journal[d.experiment], d)
      <4>1. CASE d.experiment = e
        BY <1>1, <1>3, <2>2, <4>1 DEF Places
      <4>2. CASE d.experiment # e
        BY <1>2, <3>1, <4>2
      <4> QED
        BY <4>1, <4>2
    <3> QED
      BY <3>1, <3>2 DEF Once
  <2> QED
    BY <2>1, <2>2
<1> QED
  BY <1>2, <1>5, <1>6, <1>7, <1>8

LEMMA JournalStep ==
  ASSUME WayInv, BegunInv, JournalInv, NEW c \in Calls, CallStep(c)
  PROVE  JournalInv'
<1>1. \A d \in Calls : memo'[d].head \in Nat
  BY HeadIsNat
<1>2. CASE UNCHANGED journal /\ ~Appends(c) /\ (Journaled(c) => ~Commit(c))
  <2>1. ASSUME NEW e \in Experiments PROVE LogFits(e)'
    <3>1. Begun(e)' => Begun(e)
      BY <1>2, BeginsAtStart
    <3> QED
      BY <1>2, <2>1, <3>1 DEF JournalInv, LogFits
  <2>2. ASSUME NEW d \in Calls, pc'[d] = "journaled"
        PROVE  memo'[d].head = Len(journal'[d.experiment])
    BY <1>2, <2>2, WayStep, InsertAlone DEF JournalInv, Others
  <2>3. ASSUME NEW d \in Calls, NEW x \in Calls, pc'[d] = "journaled", pc'[x] = "journaled",
               d.experiment = x.experiment
        PROVE  d = x
    BY <2>3, WayStep, InsertAlone DEF JournalInv, Others
  <2>4. ASSUME NEW d \in Calls, Journaled(d) PROVE Once(d)'
    <3>1. d.kind \notin Statements
      BY <2>4 DEF Journaled, Statements
    <3> QED
      BY <1>2, <2>4, <3>1, WayStep, DoneByCommit DEF JournalInv, Once, Others
  <2> QED
    BY <1>1, <1>2, <2>1, <2>2, <2>3, <2>4 DEF JournalInv
<1>3. CASE /\ Appends(c) /\ Journaled(c)
           /\ journal' = [journal EXCEPT ![c.experiment] = Append(@, EventOf(c))]
  <2>1. pc'[c] = "done"
    BY <1>3 DEF Appends, Commit, Finish, Goto, WayInv, Tabled
  <2>2. ASSUME NEW d \in Calls, pc'[d] = "journaled"
        PROVE  memo'[d].head = Len(journal'[d.experiment])
    <3>1. d # c /\ d.experiment # c.experiment
      BY <1>3, <2>1, <2>2, JournalGrows
    <3>2. journal'[d.experiment] = journal[d.experiment]
      BY <1>3, <3>1, CallsAssumption DEF JournalInv
    <3> QED
      BY <2>2, <3>1, <3>2, WayStep DEF JournalInv, Others
  <2>3. ASSUME NEW d \in Calls, NEW x \in Calls, pc'[d] = "journaled", pc'[x] = "journaled",
               d.experiment = x.experiment
        PROVE  d = x
    BY <2>1, <2>3, WayStep DEF JournalInv, Others
  <2> QED
    BY <1>1, <1>3, <2>2, <2>3, JournalGrows DEF JournalInv
<1> QED
  BY <1>2, <1>3, JournalChanges

(* economic_journal is numbered without a gap, starts with the start, and    *)
(* holds the event of every transaction that journals once it has committed, *)
(* whoever raced for the last row: appendEvent.                              *)
THEOREM JournalIsUnforked == Spec => []JournalIsSequence
<1> DEFINE Inv == WayInv /\ BegunInv /\ JournalInv
<1>1. Init => Inv
  <2> SUFFICES ASSUME Init PROVE BegunInv /\ JournalInv
    BY WayInit
  <2>1. BegunInv
    BY DEF Init, BegunInv, SureOf, Appending
  <2>2. ASSUME NEW e \in Experiments PROVE LogFits(e)
    BY DEF Init, LogFits, Begun
  <2>3. ASSUME NEW c \in Calls, Journaled(c) PROVE Once(c)
    BY CallsAssumption DEF Init, Once, Places
  <2>4. journal \in [Experiments -> Seq(Entries)] /\ \A c \in Calls : memo[c].head \in Nat
    BY DEF Init, NoMemo
  <2>5. \A c \in Calls : pc[c] # "journaled"
    BY DEF Init
  <2> QED
    BY <2>1, <2>2, <2>3, <2>4, <2>5 DEF JournalInv
<1>2. Inv /\ [Next]_vars => Inv'
  <2> SUFFICES ASSUME Inv, [Next]_vars PROVE Inv'
    OBVIOUS
  <2>1. CASE Next
    BY <2>1, WayStep, BegunStep, JournalStep DEF Next, CallStep
  <2>2. CASE UNCHANGED vars
    <3>1. UNCHANGED <<pc, held, memo, version, state, actions, journal>>
      BY <2>2 DEF vars, txVars, rowVars, registry
    <3>2. WayInv'
      BY <3>1 DEF WayInv, Tabled, OnItsWay, InFlight, Journaled
    <3>3. BegunInv'
      BY <3>1 DEF BegunInv, SureOf, Begun
    <3>4. JournalInv'
      BY <3>1 DEF JournalInv, LogFits, Begun, Once, Places, Journaled
    <3> QED
      BY <3>2, <3>3, <3>4
  <2> QED
    BY <2>1, <2>2
<1>3. Inv => JournalIsSequence
  <2> SUFFICES ASSUME Inv, NEW e \in Experiments, NEW c \in Calls, c.experiment = e, Journaled(c)
               PROVE  Cardinality({i \in DOMAIN journal[e] : journal[e][i].call = c})
                        = IF pc[c] = "done" THEN 1 ELSE 0
    BY DEF JournalInv, LogFits, JournalIsSequence
  <2>1. {i \in DOMAIN journal[e] : journal[e][i].call = c} = Places(journal[e], c) /\ Once(c)
    BY DEF Places, JournalInv
  <2> QED
    BY <2>1, FS_EmptySet, FS_Singleton DEF Once
<1> HIDE DEF Inv
<1> QED
  BY <1>1, <1>2, <1>3, PTL DEF Spec

-----------------------------------------------------------------------------
(* Portfolios and references                                               *)

Rowed(rows) == rows = [e \in Experiments |-> [s \in Scenarios |-> rows[e][s]]]

P(c) == portfolio[c.experiment][c.scenario]
R(c) == reference[c.experiment][c.scenario]

SameRow(c, d) == c.experiment = d.experiment /\ c.scenario = d.scenario

(* The calls that hold the row of the portfolio, or of the reference, and    *)
(* have compared it with what they read before.                              *)
HoldsPortfolio(c) == \/ c.kind = "APPLY" /\ held[c] >= 2
                     \/ c.kind = "CHECKPOINT" /\ held[c] >= 1
HoldsReference(c) == \/ c.kind = "ENTRY" /\ held[c] >= 1
                     \/ c.kind = "CHECKPOINT" /\ held[c] >= 2

Statuses == {"ACTIVE", "ENTRY_FAILED"}

RowsShaped ==
  /\ Rowed(portfolio) /\ Rowed(reference)
  /\ \A e \in Experiments, s \in Scenarios :
        /\ reference[e][s].status \in Statuses
        /\ IsFiniteSet(portfolio[e][s]) /\ IsFiniteSet(reference[e][s].effects)
        /\ reference[e][s] = [effects |-> reference[e][s].effects,
                              status |-> reference[e][s].status]

MemoFits(c) ==
  /\ memo[c].portfolio \subseteq P(c)
  /\ memo[c].reference.effects \subseteq R(c).effects
  /\ memo[c].reference = [effects |-> memo[c].reference.effects,
                          status |-> memo[c].reference.status]
  /\ HoldsPortfolio(c) => memo[c].portfolio = P(c)
  /\ HoldsReference(c) /\ c.kind = "CHECKPOINT" => memo[c].reference = R(c)
  /\ HoldsReference(c) /\ c.kind = "ENTRY" => R(c).effects = {}
  /\ c.kind = "APPLY" /\ pc[c] = "commit" => HoldsPortfolio(c)
  /\ c.kind = "CHECKPOINT" /\ pc[c] \in Appending => HoldsReference(c)

RowsInv == RowsShaped /\ \A c \in Calls : MemoFits(c)

LEMMA SetRow ==
  ASSUME NEW rows, Rowed(rows), NEW c \in Calls, NEW value
  PROVE  /\ Rowed(Set(rows, c, value))
         /\ Set(rows, c, value)[c.experiment][c.scenario] = value
         /\ \A e \in Experiments, s \in Scenarios :
               <<e, s>> # <<c.experiment, c.scenario>> => Set(rows, c, value)[e][s] = rows[e][s]
BY CallsAssumption DEF Rowed, Set

(* A part of a finite set with as many elements is the set. *)
LEMMA SameVersion ==
  ASSUME NEW S, NEW T, IsFiniteSet(S), T \subseteq S, VersionOf(S) = VersionOf(T)
  PROVE  S = T
BY FS_Subset DEF VersionOf

LEMMA HoldersAlone ==
  ASSUME WayInv, LocksInv, NEW c \in Calls, NEW d \in Calls, SameRow(c, d)
  PROVE  /\ HoldsPortfolio(c) /\ HoldsPortfolio(d) => c = d
         /\ HoldsReference(c) /\ HoldsReference(d) => c = d
<1>1. ASSUME NEW x \in Calls
      PROVE  /\ HoldsPortfolio(x) => Lock("UPDATE", Row(x, "scenario")) \in LocksOf(x)
             /\ HoldsReference(x) => Lock("UPDATE", Row(x, "reference")) \in LocksOf(x)
  <2>1. /\ x.kind = "APPLY" => Needs(x)[2] = Lock("UPDATE", Row(x, "scenario"))
        /\ x.kind = "CHECKPOINT" =>
              /\ Needs(x)[1] = Lock("UPDATE", Row(x, "scenario"))
              /\ Needs(x)[2] = Lock("UPDATE", Row(x, "reference"))
        /\ x.kind = "ENTRY" => Needs(x)[1] = Lock("UPDATE", Row(x, "reference"))
    BY DEF Needs, ApplyLocks, CheckpointLocks, EntryLocks
  <2> QED
    BY <2>1, LockHeld DEF HoldsPortfolio, HoldsReference
<1>2. \A table : Row(d, table) = Row(c, table)
  BY DEF SameRow, Row
<1> QED
  BY <1>1, <1>2, LockAlone

LEMMA RowPhases ==
  ASSUME NEW c \in Calls, NEW n \in Nat
  PROVE  /\ c.kind = "APPLY" /\ PhaseAfter(c, n) = "commit" => n >= 1
         /\ c.kind = "CHECKPOINT" /\ PhaseAfter(c, n) \in Appending => n >= 2
BY DEF PhaseAfter, Needs, ApplyLocks, CheckpointLocks, Appending

(* A step keeps the rows, or commits what was read under the row's lock and   *)
(* more.                                                                      *)
LEMMA RowWriters ==
  ASSUME WayInv, RowsInv, NEW c \in Calls, CallStep(c)
  PROVE  /\ \/ portfolio' = portfolio
            \/ /\ Commit(c) /\ HoldsPortfolio(c)
               /\ \E more : /\ IsFiniteSet(more)
                            /\ portfolio' = Set(portfolio, c, P(c) \cup more)
         /\ \/ reference' = reference
            \/ /\ Commit(c) /\ HoldsReference(c)
               /\ \E more : \E status \in Statuses :
                     /\ IsFiniteSet(more)
                     /\ reference' = Set(reference, c,
                           [effects |-> R(c).effects \cup more, status |-> status])
<1>1. CASE ~Commit(c)
  BY <1>1 DEF CallStep, Proceed, Statement, Begin, Lookup, Acquire, CheckRevoked, ReadPolicy,
     ReadHead, InsertEvent, RollBack, rowVars, money
<1>2. CASE Commit(c) /\ c.kind \notin {"APPLY", "CHECKPOINT", "ENTRY"}
  BY <1>2 DEF Commit, Start, Accept, Apply, Complete, Checkpoint, Enter, Stop, Record, money
<1>3. CASE Commit(c) /\ Apply(c)
  <2>1. pc[c] = "commit"
    BY <1>3 DEF Commit, Apply, WayInv, OnItsWay, Appending, Journaled
  <2>2. HoldsPortfolio(c) /\ memo[c].portfolio = P(c)
    BY <1>3, <2>1 DEF Apply, RowsInv, MemoFits
  <2>3. IsFiniteSet({<<"receipt", c.key>>})
    BY FS_Singleton
  <2> QED
    BY <1>3, <2>2, <2>3 DEF Apply
<1>4. CASE Commit(c) /\ Checkpoint(c)
  <2>1. pc[c] \in Appending
    BY <1>4 DEF Commit, Checkpoint, WayInv, OnItsWay, Appending
  <2>2. HoldsReference(c) /\ memo[c].reference = R(c)
    BY <1>4, <2>1 DEF Checkpoint, RowsInv, MemoFits
  <2>3. HoldsPortfolio(c) /\ memo[c].portfolio = P(c)
    <3>1. held[c] \in Nat /\ c.kind = "CHECKPOINT"
      BY <1>4 DEF Checkpoint, WayInv, Tabled
    <3>2. HoldsPortfolio(c)
      BY <2>2, <3>1 DEF HoldsPortfolio, HoldsReference
    <3> QED
      BY <3>2 DEF RowsInv, MemoFits
  <2>4. ASSUME NEW effects PROVE IsFiniteSet(Accrual(c, effects))
    BY FS_Singleton, FS_EmptySet DEF Accrual
  <2>5. R(c) = [effects |-> R(c).effects, status |-> R(c).status] /\ R(c).status \in Statuses
    BY CallsAssumption DEF RowsInv, RowsShaped, R
  <2>6. [memo[c].reference EXCEPT !.effects = @ \cup Accrual(c, @)]
          = [effects |-> R(c).effects \cup Accrual(c, R(c).effects), status |-> R(c).status]
    BY <2>2, <2>5
  <2>7. reference' = Set(reference, c, [effects |-> R(c).effects \cup Accrual(c, R(c).effects),
                                       status |-> R(c).status])
    BY <1>4, <2>6 DEF Checkpoint
  <2>8. portfolio' = Set(portfolio, c, P(c) \cup Accrual(c, P(c)))
    BY <1>4, <2>3 DEF Checkpoint
  <2> QED
    BY <1>4, <2>2, <2>3, <2>4, <2>5, <2>7, <2>8
<1>5. CASE Commit(c) /\ Enter(c)
  <2>1. pc[c] = "commit" /\ held[c] >= 1
    BY <1>5 DEF Commit, Enter, WayInv, OnItsWay, Appending, Journaled
  <2>2. HoldsReference(c) /\ R(c).effects = {}
    BY <1>5, <2>1 DEF Enter, HoldsReference, RowsInv, MemoFits
  <2>3. IsFiniteSet(EntryReceipts(c))
    <3> DEFINE approval == <<"approval", c.id>>
               outcome == <<IF c.outcome = "ACTIVE" THEN "deposit" ELSE "cost", c.id>>
    <3>1. EntryReceipts(c) = {approval} \cup {outcome}
      BY DEF EntryReceipts
    <3> HIDE DEF approval, outcome
    <3>2. IsFiniteSet({approval} \cup {outcome})
      BY FS_Singleton, FS_AddElement
    <3> QED
      BY <3>1, <3>2
  <2>4. R(c).effects \cup EntryReceipts(c) = EntryReceipts(c) /\ c.outcome \in Statuses
    BY <1>5, <2>2, CallsAssumption DEF Enter, Statuses
  <2> QED
    BY <1>5, <2>2, <2>3, <2>4 DEF Enter, money
<1> QED
  BY <1>1, <1>2, <1>3, <1>4, <1>5 DEF Commit, Start, Accept, Complete, Stop, Record

(* Rows only grow, and nobody else's row that a call has locked.              *)
LEMMA RowsGrow ==
  ASSUME WayInv, LocksInv, RowsInv, NEW c \in Calls, CallStep(c)
  PROVE  /\ RowsShaped'
         /\ \A e \in Experiments, s \in Scenarios :
               /\ portfolio[e][s] \subseteq portfolio'[e][s]
               /\ reference[e][s].effects \subseteq reference'[e][s].effects
         /\ \A d \in Calls \ {c} :
               /\ HoldsPortfolio(d) => P(d)' = P(d)
               /\ HoldsReference(d) => R(d)' = R(d)
<1>0. c.experiment \in Experiments /\ c.scenario \in Scenarios
  BY CallsAssumption
<1>1. /\ Rowed(portfolio') /\ \A e \in Experiments, s \in Scenarios :
            IsFiniteSet(portfolio'[e][s]) /\ portfolio[e][s] \subseteq portfolio'[e][s]
      /\ \A d \in Calls \ {c} : HoldsPortfolio(d) => P(d)' = P(d)
  <2>1. CASE portfolio' = portfolio
    BY <2>1 DEF RowsInv, RowsShaped, P
  <2>2. CASE portfolio' # portfolio
    <3>1. PICK more : IsFiniteSet(more) /\ portfolio' = Set(portfolio, c, P(c) \cup more)
      BY <2>2, RowWriters
    <3>2. HoldsPortfolio(c)
      BY <2>2, RowWriters
    <3>3. /\ Rowed(portfolio') /\ P(c)' = P(c) \cup more
          /\ \A e \in Experiments, s \in Scenarios :
                <<e, s>> # <<c.experiment, c.scenario>> => portfolio'[e][s] = portfolio[e][s]
      <4> DEFINE value == P(c) \cup more
      <4>1. portfolio' = Set(portfolio, c, value) /\ Rowed(portfolio)
        BY <3>1 DEF RowsInv, RowsShaped
      <4>2. P(c)' = portfolio'[c.experiment][c.scenario]
        BY DEF P
      <4> HIDE DEF value
      <4>3. /\ Rowed(portfolio') /\ portfolio'[c.experiment][c.scenario] = value
            /\ \A e \in Experiments, s \in Scenarios :
                  <<e, s>> # <<c.experiment, c.scenario>> => portfolio'[e][s] = portfolio[e][s]
        BY <4>1, SetRow
      <4> QED
        BY <4>2, <4>3 DEF value
    <3>4. IsFiniteSet(P(c) \cup more)
      BY <1>0, <3>1, FS_Union DEF RowsInv, RowsShaped, P
    <3>5. ASSUME NEW e \in Experiments, NEW s \in Scenarios
          PROVE  IsFiniteSet(portfolio'[e][s]) /\ portfolio[e][s] \subseteq portfolio'[e][s]
      BY <3>3, <3>4 DEF RowsInv, RowsShaped, P
    <3>6. ASSUME NEW d \in Calls \ {c}, HoldsPortfolio(d) PROVE P(d)' = P(d)
      <4>1. ~SameRow(c, d)
        BY <3>2, <3>6, HoldersAlone
      <4> QED
        BY <3>3, <4>1, CallsAssumption DEF P, SameRow
    <3> QED
      BY <3>3, <3>5, <3>6
  <2> QED
    BY <2>1, <2>2
<1>2. /\ Rowed(reference') /\ \A e \in Experiments, s \in Scenarios :
            /\ reference'[e][s].status \in Statuses
            /\ IsFiniteSet(reference'[e][s].effects)
            /\ reference'[e][s] = [effects |-> reference'[e][s].effects,
                                   status |-> reference'[e][s].status]
            /\ reference[e][s].effects \subseteq reference'[e][s].effects
      /\ \A d \in Calls \ {c} : HoldsReference(d) => R(d)' = R(d)
  <2>1. CASE reference' = reference
    BY <2>1 DEF RowsInv, RowsShaped, R
  <2>2. CASE reference' # reference
    <3>1. PICK more, status : /\ IsFiniteSet(more) /\ status \in Statuses
                              /\ reference' = Set(reference, c,
                                    [effects |-> R(c).effects \cup more, status |-> status])
      BY <2>2, RowWriters
    <3>2. HoldsReference(c)
      BY <2>2, RowWriters
    <3> DEFINE row == [effects |-> R(c).effects \cup more, status |-> status]
    <3>3. /\ Rowed(reference') /\ R(c)' = row
          /\ \A e \in Experiments, s \in Scenarios :
                <<e, s>> # <<c.experiment, c.scenario>> => reference'[e][s] = reference[e][s]
      <4> DEFINE value == row
      <4>1. reference' = Set(reference, c, value) /\ Rowed(reference)
        BY <3>1 DEF RowsInv, RowsShaped
      <4>2. R(c)' = reference'[c.experiment][c.scenario]
        BY DEF R
      <4> HIDE DEF value
      <4>3. /\ Rowed(reference') /\ reference'[c.experiment][c.scenario] = value
            /\ \A e \in Experiments, s \in Scenarios :
                  <<e, s>> # <<c.experiment, c.scenario>> => reference'[e][s] = reference[e][s]
        BY <4>1, SetRow
      <4> QED
        BY <4>2, <4>3 DEF value
    <3>4. IsFiniteSet(R(c).effects \cup more)
      BY <1>0, <3>1, FS_Union DEF RowsInv, RowsShaped, R
    <3>7. /\ row.effects = R(c).effects \cup more /\ row.status \in Statuses
          /\ row = [effects |-> row.effects, status |-> row.status]
      BY <3>1
    <3> HIDE DEF row
    <3>5. ASSUME NEW e \in Experiments, NEW s \in Scenarios
          PROVE  /\ reference'[e][s].status \in Statuses
                 /\ IsFiniteSet(reference'[e][s].effects)
                 /\ reference'[e][s] = [effects |-> reference'[e][s].effects,
                                        status |-> reference'[e][s].status]
                 /\ reference[e][s].effects \subseteq reference'[e][s].effects
      <4>1. CASE <<e, s>> = <<c.experiment, c.scenario>>
        <5>1. reference[e][s] = R(c) /\ reference'[e][s] = row
          BY <3>3, <4>1 DEF R
        <5> QED
          BY <3>4, <3>7, <5>1
      <4>2. CASE <<e, s>> # <<c.experiment, c.scenario>>
        BY <3>3, <4>2 DEF RowsInv, RowsShaped
      <4> QED
        BY <4>1, <4>2
    <3>6. ASSUME NEW d \in Calls \ {c}, HoldsReference(d) PROVE R(d)' = R(d)
      <4>1. ~SameRow(c, d)
        BY <3>2, <3>6, HoldersAlone
      <4> QED
        BY <3>3, <4>1, CallsAssumption DEF R, SameRow
    <3> QED
      BY <3>3, <3>5, <3>6
  <2> QED
    BY <2>1, <2>2
<1> QED
  BY <1>1, <1>2 DEF RowsShaped

(* A call that keeps what it read and holds keeps it right. *)
LEMMA MemoKept ==
  ASSUME WayInv, RowsInv, NEW d \in Calls, held'[d] = held[d],
         memo'[d].portfolio = memo[d].portfolio, memo'[d].reference = memo[d].reference,
         pc'[d] = "commit" => pc[d] = "commit",
         pc'[d] \in Appending => pc[d] \in Appending \/ d.kind # "CHECKPOINT",
         P(d) \subseteq P(d)', R(d).effects \subseteq R(d).effects',
         HoldsPortfolio(d) => P(d)' = P(d), HoldsReference(d) => R(d)' = R(d)
  PROVE  MemoFits(d)'
<1>1. (HoldsPortfolio(d)' <=> HoldsPortfolio(d)) /\ (HoldsReference(d)' <=> HoldsReference(d))
  BY DEF HoldsPortfolio, HoldsReference
<1>2. MemoFits(d)
  BY DEF RowsInv
<1> QED
  BY <1>1, <1>2 DEF MemoFits

LEMMA FinishFits ==
  ASSUME WayInv, NEW c \in Calls, NEW phase \in Over \ {"unmade"}, Finish(c, phase)
  PROVE  MemoFits(c)'
<1>1. pc'[c] = phase /\ held'[c] = 0 /\ memo'[c] = NoMemo
  BY FinishTables DEF WayInv
<1>2. ~HoldsPortfolio(c)' /\ ~HoldsReference(c)'
  BY <1>1 DEF HoldsPortfolio, HoldsReference
<1> QED
  BY <1>1, <1>2 DEF MemoFits, NoMemo, Over, Appending

LEMMA BeginFits ==
  ASSUME WayInv, RowsInv, NEW c \in Calls, Begin(c)
  PROVE  MemoFits(c)'
<1>1. /\ memo'[c].portfolio = P(c) /\ memo'[c].reference = R(c)
      /\ held'[c] = 0 /\ pc'[c] \in {"lookup", "locking"}
      /\ P(c)' = P(c) /\ R(c)' = R(c)
  BY DEF Begin, P, R, Goto, WayInv, Tabled, OnItsWay, InFlight, Over, rowVars, money
<1>2. ~HoldsPortfolio(c)' /\ ~HoldsReference(c)'
  BY <1>1 DEF HoldsPortfolio, HoldsReference
<1>3. R(c) = [effects |-> R(c).effects, status |-> R(c).status]
  BY CallsAssumption DEF RowsInv, RowsShaped, R
<1> QED
  BY <1>1, <1>2, <1>3 DEF MemoFits, Appending

(* A lock taken: what was read before is compared with the row it locks. *)
LEMMA AcquireFits ==
  ASSUME WayInv, RowsInv, NEW c \in Calls, Acquire(c)
  PROVE  MemoFits(c)'
<1> DEFINE n == held[c]
<1>1. CASE \E phase \in {"stored", "refused"} : Finish(c, phase)
  BY <1>1, FinishFits DEF Over
<1>2. CASE /\ Allows(c, n) /\ ~Finds(c, n) /\ Goto(c, PhaseAfter(c, n))
           /\ held' = [held EXCEPT ![c] = @ + 1]
           /\ memo' = IF PhaseAfter(c, n) = "dated"
                      THEN [memo EXCEPT ![c].stamp = KeyRevoked(c)] ELSE memo
  <2>1. /\ n \in Nat /\ held'[c] = n + 1 /\ pc'[c] = PhaseAfter(c, n)
        /\ c.kind \notin Statements /\ P(c)' = P(c) /\ R(c)' = R(c)
    BY <1>2 DEF Acquire, Goto, WayInv, Tabled, OnItsWay, InFlight, Over, P, R, rowVars, money
  <2>2. memo'[c].portfolio = memo[c].portfolio /\ memo'[c].reference = memo[c].reference
    <3>1. CASE PhaseAfter(c, n) = "dated"
      <4>1. memo'[c] = [memo[c] EXCEPT !.stamp = KeyRevoked(c)] /\ IsMemo(memo[c])
        BY <1>2, <3>1 DEF WayInv, Tabled
      <4> QED
        BY <4>1 DEF IsMemo
    <3>2. CASE PhaseAfter(c, n) # "dated"
      BY <1>2, <3>2
    <3> QED
      BY <3>1, <3>2
  <2>3. MemoFits(c)
    BY DEF RowsInv
  <2>4. /\ IsFiniteSet(P(c)) /\ IsFiniteSet(R(c).effects)
        /\ R(c) = [effects |-> R(c).effects, status |-> R(c).status]
    BY CallsAssumption DEF RowsInv, RowsShaped, P, R
  <2>5. Fresh(c) => memo[c].portfolio = P(c)
    BY <2>3, <2>4, SameVersion DEF Fresh, P, MemoFits
  <2>6. FreshReference(c) => memo[c].reference = R(c)
    <3>1. FreshReference(c) => memo[c].reference.effects = R(c).effects
      BY <2>3, <2>4, SameVersion DEF FreshReference, R, MemoFits
    <3> QED
      BY <2>3, <2>4, <3>1 DEF FreshReference, R, MemoFits
  <2>7. /\ c.kind = "APPLY" /\ n = 1 => Fresh(c)
        /\ c.kind = "CHECKPOINT" /\ n = 0 => Fresh(c)
        /\ c.kind = "CHECKPOINT" /\ n = 1 => FreshReference(c)
    BY <1>2 DEF Allows, ApplyAllows, CheckpointAllows
  <2>8. c.kind = "ENTRY" => R(c).effects = {}
    BY <1>2 DEF Allows, EntryAllows, EntryDone, R
  <2>9. /\ c.kind = "APPLY" /\ PhaseAfter(c, n) = "commit" => n >= 1
        /\ c.kind = "CHECKPOINT" /\ PhaseAfter(c, n) \in Appending => n >= 2
    BY <2>1, RowPhases
  <2>10. /\ HoldsPortfolio(c)' /\ ~HoldsPortfolio(c) =>
               \/ c.kind = "APPLY" /\ n = 1
               \/ c.kind = "CHECKPOINT" /\ n = 0
         /\ HoldsReference(c)' /\ ~HoldsReference(c) =>
               \/ c.kind = "ENTRY" /\ n = 0
               \/ c.kind = "CHECKPOINT" /\ n = 1
    BY <2>1 DEF HoldsPortfolio, HoldsReference
  <2> HIDE DEF n
  <2>11. HoldsPortfolio(c)' => memo[c].portfolio = P(c)
    BY <2>3, <2>5, <2>7, <2>10 DEF MemoFits
  <2>12. HoldsReference(c)' /\ c.kind = "CHECKPOINT" => memo[c].reference = R(c)
    BY <2>3, <2>6, <2>7, <2>10 DEF MemoFits
  <2>13. /\ c.kind = "APPLY" /\ pc'[c] = "commit" => HoldsPortfolio(c)'
         /\ c.kind = "CHECKPOINT" /\ pc'[c] \in Appending => HoldsReference(c)'
    BY <2>1, <2>9 DEF HoldsPortfolio, HoldsReference
  <2> QED
    BY <2>1, <2>2, <2>3, <2>8, <2>11, <2>12, <2>13 DEF MemoFits
<1> QED
  BY <1>1, <1>2 DEF Acquire

LEMMA MoverFits ==
  ASSUME WayInv, RowsInv, NEW c \in Calls, CallStep(c)
  PROVE  MemoFits(c)'
<1>1. ASSUME NEW phase \in Over \ {"unmade"}, Finish(c, phase) PROVE MemoFits(c)'
  BY <1>1, FinishFits
<1>2. ASSUME UNCHANGED <<held, rowVars>>, NEW phase, Goto(c, phase),
             memo'[c].portfolio = memo[c].portfolio, memo'[c].reference = memo[c].reference,
             phase # "commit", phase \in Appending => pc[c] \in Appending \/ c.kind # "CHECKPOINT"
      PROVE  MemoFits(c)'
  <2>1. /\ held'[c] = held[c] /\ pc'[c] = phase
        /\ P(c)' = P(c) /\ R(c)' = R(c)
    BY <1>2 DEF Goto, WayInv, Tabled, P, R, rowVars, money
  <2> QED
    BY <1>2, <2>1, MemoKept
<1>3. CASE Statement(c) \/ Commit(c) \/ RollBack(c)
  BY <1>1, <1>3 DEF Statement, Register, Create, Revoke, Commit, RollBack, Over
<1>4. CASE Begin(c)
  BY <1>4, BeginFits
<1>5. CASE Acquire(c)
  BY <1>5, AcquireFits
<1>6. CASE Lookup(c) \/ CheckRevoked(c)
  BY <1>1, <1>2, <1>6 DEF Lookup, CheckRevoked, Over, Appending
<1>7. CASE ReadPolicy(c)
  BY <1>1, <1>2, <1>7 DEF ReadPolicy, Over, Appending, WayInv, OnItsWay
<1>8. CASE ReadHead(c)
  <2>1. memo'[c] = [memo[c] EXCEPT !.head = Len(journal[c.experiment])] /\ IsMemo(memo[c])
    BY <1>8 DEF ReadHead, WayInv, Tabled
  <2>2. memo'[c].portfolio = memo[c].portfolio /\ memo'[c].reference = memo[c].reference
    BY <2>1 DEF IsMemo
  <2> QED
    BY <1>2, <1>8, <2>2 DEF ReadHead, Appending
<1>9. CASE InsertEvent(c)
  BY <1>1, <1>2, <1>9 DEF InsertEvent, Over, Appending
<1> QED
  BY <1>3, <1>4, <1>5, <1>6, <1>7, <1>8, <1>9 DEF CallStep, Proceed

LEMMA RowsStep ==
  ASSUME WayInv, LocksInv, RowsInv, NEW c \in Calls, CallStep(c)
  PROVE  RowsInv'
<1>1. ASSUME NEW d \in Calls PROVE MemoFits(d)'
  <2>1. CASE d = c
    BY <2>1, MoverFits
  <2>2. CASE d # c
    <3>1. pc'[d] = pc[d] /\ held'[d] = held[d] /\ memo'[d] = memo[d]
      BY <2>2, WayStep DEF Others
    <3>2. P(d) \subseteq P(d)' /\ R(d).effects \subseteq R(d).effects'
      BY RowsGrow, CallsAssumption DEF P, R
    <3> QED
      BY <2>2, <3>1, <3>2, RowsGrow, MemoKept
  <2> QED
    BY <2>1, <2>2
<1> QED
  BY <1>1, RowsGrow DEF RowsInv

LEMMA RowsInit == Init => RowsInv
<1> SUFFICES ASSUME Init PROVE RowsInv
  OBVIOUS
<1>1. /\ \A e \in Experiments, s \in Scenarios :
            portfolio[e][s] = {} /\ reference[e][s] = NoMemo.reference
      /\ \A c \in Calls : /\ held[c] = 0 /\ memo[c] = NoMemo /\ pc[c] \in {"idle", "unmade"}
                          /\ P(c) = {} /\ R(c) = NoMemo.reference
      /\ Rowed(portfolio) /\ Rowed(reference)
  BY CallsAssumption DEF Init, Rowed, P, R
<1>2. NoMemo.portfolio = {} /\ NoMemo.reference = [effects |-> {}, status |-> "ACTIVE"]
  BY DEF NoMemo
<1>3. RowsShaped
  <2>1. ASSUME NEW e \in Experiments, NEW s \in Scenarios
        PROVE  /\ portfolio[e][s] = {} /\ reference[e][s].effects = {}
               /\ reference[e][s].status = "ACTIVE"
               /\ reference[e][s] = [effects |-> {}, status |-> "ACTIVE"]
    BY <1>1, <1>2
  <2>2. IsFiniteSet({})
    BY FS_EmptySet
  <2>3. ASSUME NEW e \in Experiments, NEW s \in Scenarios
        PROVE  /\ reference[e][s].status \in Statuses
               /\ IsFiniteSet(portfolio[e][s]) /\ IsFiniteSet(reference[e][s].effects)
               /\ reference[e][s] = [effects |-> reference[e][s].effects,
                                     status |-> reference[e][s].status]
    <3> DEFINE row == reference[e][s]
    <3>1. portfolio[e][s] = {} /\ row.effects = {} /\ row.status = "ACTIVE"
          /\ row = [effects |-> {}, status |-> "ACTIVE"]
      BY <2>1
    <3> HIDE DEF row
    <3>2. row.status \in Statuses /\ row = [effects |-> row.effects, status |-> row.status]
      BY <3>1 DEF Statuses
    <3>3. IsFiniteSet(portfolio[e][s]) /\ IsFiniteSet(row.effects)
      BY <2>2, <3>1
    <3> QED
      BY <3>2, <3>3 DEF row
  <2> QED
    BY <1>1, <2>3 DEF RowsShaped
<1>4. \A c \in Calls : ~HoldsPortfolio(c) /\ ~HoldsReference(c)
  BY <1>1 DEF HoldsPortfolio, HoldsReference
<1>5. \A c \in Calls : MemoFits(c)
  BY <1>1, <1>2, <1>4 DEF MemoFits, Appending
<1> QED
  BY <1>3, <1>5 DEF RowsInv

LEMMA RowsStutter ==
  ASSUME WayInv, RowsInv, UNCHANGED vars
  PROVE  RowsInv'
<1>1. UNCHANGED <<pc, held, memo, portfolio, reference>>
  BY DEF vars, txVars, rowVars, money
<1>2. RowsShaped'
  BY <1>1 DEF RowsInv, RowsShaped, Rowed
<1>3. ASSUME NEW c \in Calls PROVE MemoFits(c)'
  <2>1. /\ MemoFits(c) /\ P(c)' = P(c) /\ R(c)' = R(c)
        /\ pc'[c] = pc[c] /\ held'[c] = held[c] /\ memo'[c] = memo[c]
    BY <1>1 DEF RowsInv, P, R
  <2> QED
    BY <2>1, MemoKept
<1> QED
  BY <1>2, <1>3 DEF RowsInv

(* What is saved is in the rows. *)
ReceiptsIn(e, s) ==
  \A r \in receipts : <<r[1], r[2]>> = <<e, s>> => <<"receipt", r[3]>> \in portfolio[e][s]

CheckpointsIn(e, s) ==
  \A k \in checkpoints : k.experiment = e /\ k.scenario = s =>
    k.valued \subseteq portfolio[e][s] /\ k.compared \subseteq reference[e][s].effects

OneApproval(e, s) ==
  \A x, y \in reference[e][s].effects : x[1] = "approval" /\ y[1] = "approval" => x = y

EntryIn(c) == c.kind = "ENTRY" /\ pc[c] = "done" => EntryReceipts(c) \subseteq R(c).effects

SavedInv ==
  /\ \A e \in Experiments, s \in Scenarios :
        ReceiptsIn(e, s) /\ CheckpointsIn(e, s) /\ OneApproval(e, s)
  /\ \A c \in Calls : EntryIn(c)

LEMMA ReceiptsStep ==
  ASSUME WayInv, LocksInv, RowsInv, SavedInv, NEW c \in Calls, CallStep(c),
         NEW e \in Experiments, NEW s \in Scenarios
  PROVE  ReceiptsIn(e, s)'
<1>1. portfolio[e][s] \subseteq portfolio'[e][s]
  BY RowsGrow
<1>2. CASE receipts' = receipts
  BY <1>1, <1>2 DEF ReceiptsIn, SavedInv
<1>3. CASE Commit(c) /\ Apply(c)
  <2>1. /\ receipts' = receipts \cup {ReceiptOf(c)}
        /\ portfolio' = Set(portfolio, c, memo[c].portfolio \cup {<<"receipt", c.key>>})
    BY <1>3 DEF Apply
  <2>2. portfolio'[c.experiment][c.scenario] = memo[c].portfolio \cup {<<"receipt", c.key>>}
    BY <2>1, SetRow DEF RowsInv, RowsShaped
  <2>3. ASSUME NEW r \in receipts', <<r[1], r[2]>> = <<e, s>>
        PROVE  <<"receipt", r[3]>> \in portfolio'[e][s]
    <3>1. CASE r \in receipts
      BY <1>1, <2>3, <3>1 DEF ReceiptsIn, SavedInv
    <3>2. CASE r = ReceiptOf(c)
      <4>1. r[1] = c.experiment /\ r[2] = c.scenario /\ r[3] = c.key
        BY <3>2 DEF ReceiptOf
      <4>2. c.experiment = e /\ c.scenario = s
        BY <2>3, <4>1
      <4> QED
        BY <2>2, <4>1, <4>2
    <3> QED
      BY <2>1, <3>1, <3>2
  <2> QED
    BY <2>3 DEF ReceiptsIn
<1> QED
  BY <1>2, <1>3 DEF CallStep, Proceed, Statement, Begin, Lookup, Acquire, CheckRevoked,
     ReadPolicy, ReadHead, InsertEvent, RollBack, rowVars, money, Commit, Start, Accept,
     Complete, Checkpoint, Enter, Stop, Record

LEMMA CheckpointsStep ==
  ASSUME WayInv, LocksInv, RowsInv, SavedInv, NEW c \in Calls, CallStep(c),
         NEW e \in Experiments, NEW s \in Scenarios
  PROVE  CheckpointsIn(e, s)'
<1>1. /\ portfolio[e][s] \subseteq portfolio'[e][s]
      /\ reference[e][s].effects \subseteq reference'[e][s].effects
  BY RowsGrow
<1>2. CASE checkpoints' = checkpoints
  BY <1>1, <1>2 DEF CheckpointsIn, SavedInv
<1>3. CASE Commit(c) /\ Checkpoint(c)
  <2> DEFINE saved == [id |-> c.id, experiment |-> c.experiment, scenario |-> c.scenario,
                       valued |-> memo[c].portfolio, compared |-> memo[c].reference.effects]
  <2>1. checkpoints' = checkpoints \cup {saved}
    BY <1>3 DEF Checkpoint
  <2>2. ASSUME c.experiment = e, c.scenario = s
        PROVE  saved.valued \subseteq portfolio'[e][s] /\ saved.compared \subseteq reference'[e][s].effects
    <3>1. MemoFits(c)
      BY DEF RowsInv
    <3>2. memo[c].portfolio \subseteq portfolio[e][s]
      BY <2>2, <3>1 DEF MemoFits, P
    <3>3. memo[c].reference.effects \subseteq reference[e][s].effects
      BY <2>2, <3>1 DEF MemoFits, R
    <3> QED
      BY <1>1, <3>2, <3>3
  <2>3. saved.experiment = c.experiment /\ saved.scenario = c.scenario
    OBVIOUS
  <2> HIDE DEF saved
  <2> QED
    BY <1>1, <2>1, <2>2, <2>3 DEF CheckpointsIn, SavedInv
<1> QED
  BY <1>2, <1>3 DEF CallStep, Proceed, Statement, Begin, Lookup, Acquire, CheckRevoked,
     ReadPolicy, ReadHead, InsertEvent, RollBack, rowVars, Commit, Start, Accept, Apply,
     Complete, Enter, Stop, Record

LEMMA ApprovalStep ==
  ASSUME WayInv, LocksInv, RowsInv, SavedInv, NEW c \in Calls, CallStep(c),
         NEW e \in Experiments, NEW s \in Scenarios
  PROVE  OneApproval(e, s)'
<1>1. CASE reference'[e][s].effects = reference[e][s].effects
  BY <1>1 DEF OneApproval, SavedInv
<1>2. CASE reference'[e][s].effects # reference[e][s].effects
  <2>1. Commit(c) /\ reference' # reference
    BY <1>2, RowWriters
  <2>2. Checkpoint(c) \/ Enter(c)
    BY <2>1 DEF Commit, Start, Accept, Apply, Complete, Stop, Record
  <2>3. ASSUME NEW value, reference' = Set(reference, c, value)
        PROVE  e = c.experiment /\ s = c.scenario /\ reference'[e][s] = value
    <3>1. /\ Set(reference, c, value)[c.experiment][c.scenario] = value
          /\ <<e, s>> # <<c.experiment, c.scenario>> =>
                Set(reference, c, value)[e][s] = reference[e][s]
      BY SetRow DEF RowsInv, RowsShaped
    <3> QED
      BY <1>2, <2>3, <3>1
  <2>4. CASE Enter(c)
    <3>1. reference'[e][s].effects = EntryReceipts(c)
      BY <2>3, <2>4 DEF Enter
    <3> QED
      BY <3>1 DEF OneApproval, EntryReceipts
  <2>5. CASE Checkpoint(c)
    <3> DEFINE row == [memo[c].reference EXCEPT !.effects = @ \cup Accrual(c, @)]
    <3>1. reference'[e][s] = row /\ e = c.experiment /\ s = c.scenario
      BY <2>3, <2>5 DEF Checkpoint
    <3>2. MemoFits(c)
      BY DEF RowsInv
    <3>3. row.effects = memo[c].reference.effects \cup Accrual(c, memo[c].reference.effects)
      BY <3>2 DEF MemoFits
    <3>4. memo[c].reference.effects \subseteq reference[e][s].effects
      BY <3>1, <3>2 DEF MemoFits, R
    <3>5. \A x \in Accrual(c, memo[c].reference.effects) : x[1] # "approval"
      BY DEF Accrual
    <3>6. \A x \in reference'[e][s].effects : x[1] = "approval" => x \in reference[e][s].effects
      BY <3>1, <3>3, <3>4, <3>5
    <3> QED
      BY <3>6 DEF OneApproval, SavedInv
  <2> QED
    BY <2>2, <2>4, <2>5
<1> QED
  BY <1>1, <1>2

LEMMA EntryStep ==
  ASSUME WayInv, LocksInv, RowsInv, SavedInv, NEW c \in Calls, CallStep(c), NEW d \in Calls
  PROVE  EntryIn(d)'
<1> SUFFICES ASSUME d.kind = "ENTRY", pc'[d] = "done" PROVE EntryReceipts(d) \subseteq R(d)'.effects
  BY DEF EntryIn, EntryReceipts
<1>1. R(d).effects \subseteq R(d)'.effects
  BY RowsGrow, CallsAssumption DEF R
<1>2. CASE pc[d] = "done"
  BY <1>1, <1>2 DEF SavedInv, EntryIn
<1>3. CASE pc[d] # "done"
  <2>1. d = c
    BY <1>3, WayStep DEF Others
  <2>2. Commit(c) /\ Enter(c)
    BY <1>3, <2>1, DoneByCommit DEF Statements, Commit, Start, Accept, Apply, Complete,
       Checkpoint, Stop, Record
  <2>3. reference' = Set(reference, c, [effects |-> EntryReceipts(c), status |-> c.outcome])
    BY <2>2 DEF Enter
  <2>4. R(c)' = [effects |-> EntryReceipts(c), status |-> c.outcome]
    BY <2>3, SetRow DEF RowsInv, RowsShaped, R
  <2> QED
    BY <2>1, <2>4
<1> QED
  BY <1>2, <1>3

(* No effect is lost: a receipt that was applied stays in the portfolio of   *)
(* its scenario, a checkpoint replaces only portfolios it has valued, and a  *)
(* reference has one entry, whose receipts it keeps: applyReceipt,           *)
(* saveCheckpoint and the entries of references, with their locks and        *)
(* version checks.                                                           *)
THEOREM EffectsAreKept == Spec => []NothingLost
<1> DEFINE Inv == WayInv /\ LocksInv /\ RowsInv /\ SavedInv
<1>1. Init => Inv
  <2> SUFFICES ASSUME Init PROVE SavedInv
    BY WayInit, LocksInit, RowsInit
  <2>1. /\ \A e \in Experiments, s \in Scenarios : reference[e][s].effects = {}
        /\ \A c \in Calls : pc[c] \in {"idle", "unmade"}
        /\ receipts = {} /\ checkpoints = {}
    BY DEF Init, NoMemo
  <2> QED
    BY <2>1 DEF SavedInv, ReceiptsIn, CheckpointsIn, OneApproval, EntryIn
<1>2. Inv /\ [Next]_vars => Inv'
  <2> SUFFICES ASSUME Inv, [Next]_vars PROVE Inv'
    OBVIOUS
  <2>1. CASE Next
    <3>1. PICK c \in Calls : CallStep(c)
      BY <2>1 DEF Next, CallStep
    <3>2. WayInv' /\ LocksInv' /\ RowsInv'
      BY <3>1, WayStep, LocksStep, RowsStep
    <3>3. SavedInv'
      BY <3>1, ReceiptsStep, CheckpointsStep, ApprovalStep, EntryStep DEF SavedInv
    <3> QED
      BY <3>2, <3>3
  <2>2. CASE UNCHANGED vars
    <3>1. UNCHANGED <<pc, held, memo, version, state, portfolio, reference, receipts, checkpoints>>
      BY <2>2 DEF vars, txVars, rowVars, registry, money
    <3>2. WayInv'
      BY <3>1 DEF WayInv, Tabled, OnItsWay, InFlight, Journaled
    <3>3. RowsInv'
      BY <2>2, RowsStutter
    <3>4. SavedInv'
      BY <3>1 DEF SavedInv, ReceiptsIn, CheckpointsIn, OneApproval, EntryIn, R
    <3> QED
      BY <2>2, <3>2, <3>3, <3>4, LocksStutter
  <2> QED
    BY <2>1, <2>2
<1>3. Inv => NothingLost
  <2> SUFFICES ASSUME Inv, NEW e \in Experiments, NEW s \in Scenarios
               PROVE  /\ ReceiptsIn(e, s) /\ CheckpointsIn(e, s)
                      /\ Cardinality({x \in reference[e][s].effects : x[1] = "approval"}) <= 1
                      /\ \A c \in Calls : c.kind = "ENTRY" /\ pc[c] = "done" /\ c.experiment = e
                            /\ c.scenario = s => EntryReceipts(c) \subseteq reference[e][s].effects
    BY DEF NothingLost, ReceiptsIn, CheckpointsIn
  <2>1. Cardinality({x \in reference[e][s].effects : x[1] = "approval"}) <= 1
    <3> DEFINE approvals == {x \in reference[e][s].effects : x[1] = "approval"}
    <3>1. \A x, y \in approvals : x = y
      BY DEF SavedInv, OneApproval
    <3>2. approvals = {} \/ \E x : approvals = {x}
      BY <3>1
    <3> HIDE DEF approvals
    <3>3. Cardinality(approvals) \in {0, 1}
      BY <3>2, FS_EmptySet, FS_Singleton
    <3> QED
      BY <3>3 DEF approvals
  <2> QED
    BY <2>1 DEF SavedInv, EntryIn, R
<1> HIDE DEF Inv
<1> QED
  BY <1>1, <1>2, <1>3, PTL DEF Spec

-----------------------------------------------------------------------------
(* Calls delivered twice                                                   *)

(* What a call has found out under a lock that it still holds stays true.    *)
StoredInv ==
  \A c \in Calls :
    /\ c.kind = "ACCEPT" /\ held[c] >= 2 => \A a \in actions : a.envelope # Envelope(c)
    /\ c.kind = "ACCEPT" /\ pc[c] \in Appending \cup {"dated"} => held[c] >= 2
    /\ c.kind = "STOP" /\ held[c] >= 1 => state[c.experiment] = "STARTED"
    /\ c.kind = "APPLY" /\ held[c] >= 1 => SameKey(c) # {}
    /\ c.kind = "APPLY" /\ ReceiptOf(c) \in receipts => SameKey(c) # {}

LEMMA AcceptsAlone ==
  ASSUME WayInv, LocksInv, NEW c \in Calls, NEW d \in Calls, c.kind = "ACCEPT", d.kind = "ACCEPT",
         held[c] >= 1, held[d] >= 1, Envelope(c) = Envelope(d)
  PROVE  c = d
<1>1. Row(c, "intake") = Row(d, "intake")
  BY DEF Envelope, Row
<1>2. ASSUME NEW x \in Calls, x.kind = "ACCEPT", held[x] >= 1
      PROVE  Lock("UPDATE", Row(x, "intake")) \in LocksOf(x)
  <2>1. Needs(x)[1] = Lock("UPDATE", Row(x, "intake"))
    BY <1>2 DEF Needs, AcceptLocks
  <2> QED
    BY <1>2, <2>1, LockHeld
<1> QED
  BY <1>1, <1>2, LockAlone

LEMMA StopsAlone ==
  ASSUME WayInv, LocksInv, NEW c \in Calls, NEW d \in Calls, c.kind = "STOP", d.kind = "STOP",
         held[c] >= 1, held[d] >= 1, c.experiment = d.experiment
  PROVE  c = d
<1>1. ASSUME NEW x \in Calls, x.kind = "STOP", held[x] >= 1
      PROVE  Lock("UPDATE", ExperimentRow(x)) \in LocksOf(x)
  <2>1. Needs(x)[1] = Lock("UPDATE", ExperimentRow(x))
    BY <1>1 DEF Needs, StopLocks
  <2> QED
    BY <1>1, <2>1, LockHeld
<1> QED
  BY <1>1, LockAlone DEF ExperimentRow

LEMMA ActionsGrow ==
  ASSUME WayInv, NEW c \in Calls, CallStep(c)
  PROVE  \/ actions' = actions
         \/ /\ Commit(c) /\ c.kind = "ACCEPT" /\ pc[c] \in Appending
            /\ \E a : actions' = actions \cup {a} /\ a.envelope = Envelope(c)
<1>1. CASE Commit(c) /\ Accept(c)
  BY <1>1 DEF Commit, Accept, WayInv, OnItsWay, Appending
<1> QED
  BY <1>1 DEF CallStep, Proceed, Statement, Begin, Lookup, Acquire, CheckRevoked, ReadPolicy,
     ReadHead, InsertEvent, RollBack, rowVars, Commit, Start, Apply, Complete, Checkpoint,
     Enter, Stop, Record

LEMMA ReceiptsGrow ==
  ASSUME WayInv, NEW c \in Calls, CallStep(c)
  PROVE  \/ receipts' = receipts
         \/ c.kind = "APPLY" /\ held[c] >= 1 /\ receipts' = receipts \cup {ReceiptOf(c)}
<1>1. CASE Commit(c) /\ Apply(c)
  BY <1>1 DEF Commit, Apply, WayInv, OnItsWay, Appending, Journaled
<1> QED
  BY <1>1 DEF CallStep, Proceed, Statement, Begin, Lookup, Acquire, CheckRevoked, ReadPolicy,
     ReadHead, InsertEvent, RollBack, rowVars, money, Commit, Start, Accept, Complete,
     Checkpoint, Enter, Stop, Record

(* What taking its lock tells a call that goes on. *)
LEMMA TakesLock ==
  ASSUME WayInv, NEW c \in Calls, Acquire(c), held'[c] = held[c] + 1
  PROVE  /\ Allows(c, held[c]) /\ pc'[c] = PhaseAfter(c, held[c])
         /\ UNCHANGED rowVars /\ c.kind \notin Statements
<1>1. ASSUME NEW phase, Finish(c, phase) PROVE FALSE
  BY <1>1 DEF Finish, WayInv, Tabled
<1> QED
  BY <1>1 DEF Acquire, Goto, WayInv, Tabled, OnItsWay, InFlight, Over

LEMMA StoredStep ==
  ASSUME WayInv, LocksInv, StoredInv, NEW c \in Calls, CallStep(c)
  PROVE  StoredInv'
<1>0. held[c] \in Nat /\ held'[c] \in Nat
  BY WayStep DEF WayInv, Tabled
<1>1. ASSUME Commit(c) PROVE held'[c] = 0 /\ pc'[c] = "done"
  BY <1>1 DEF Commit, Finish, Goto, WayInv, Tabled
<1>2. \A d \in Calls : SameKey(d) # {} => SameKey(d)' # {}
  <2>1. actions \subseteq actions'
    BY ActionsGrow
  <2> QED
    BY <2>1 DEF SameKey
<1>3. ASSUME NEW d \in Calls, NEW k \in {1, 2}, held'[d] >= k
      PROVE  held[d] >= k \/ (d = c /\ Acquire(c) /\ held'[c] = held[c] + 1 /\ held[c] = k - 1)
  BY <1>0, <1>3, WayStep, HeldChanges DEF Others
<1>4. ASSUME NEW d \in Calls, d.kind = "ACCEPT", held'[d] >= 2, NEW a \in actions'
      PROVE  a.envelope # Envelope(d)
  <2>1. CASE a \in actions /\ held[d] >= 2
    BY <1>4, <2>1 DEF StoredInv
  <2>2. CASE ~(held[d] >= 2)
    <3>1. d = c /\ Acquire(c) /\ held'[c] = held[c] + 1 /\ held[c] = 1
      BY <1>3, <1>4, <2>2
    <3>2. Allows(c, 1) /\ UNCHANGED rowVars
      BY <3>1, TakesLock
    <3>3. SameKey(c) = {} /\ a \in actions
      BY <1>4, <3>1, <3>2 DEF Allows, AcceptAllows, rowVars
    <3> QED
      BY <3>1, <3>3 DEF SameKey, Envelope
  <2>3. CASE a \notin actions /\ held[d] >= 2
    <3>1. Commit(c) /\ c.kind = "ACCEPT" /\ pc[c] \in Appending /\ a.envelope = Envelope(c)
      BY <1>4, <2>3, ActionsGrow
    <3>2. held[c] >= 1 /\ held[d] >= 1
      BY <1>0, <2>3, <3>1 DEF StoredInv, WayInv, Tabled
    <3>3. d # c
      BY <1>1, <1>4, <3>1
    <3> QED
      BY <1>4, <3>1, <3>2, <3>3, AcceptsAlone
  <2> QED
    BY <2>1, <2>2, <2>3
<1>5. ASSUME NEW d \in Calls, d.kind = "ACCEPT", pc'[d] \in Appending \cup {"dated"}
      PROVE  held'[d] >= 2
  <2>1. CASE d # c
    BY <1>5, <2>1, WayStep DEF Others, StoredInv
  <2>2. CASE d = c /\ Acquire(c) /\ held'[c] = held[c] + 1
    <3>1. PhaseAfter(c, held[c]) = "append" \/ (PhaseAfter(c, held[c]) = "dated" /\ held[c] = 1)
      BY <1>0, <1>5, <2>2, TakesLock, PhaseAfterLock DEF Appending
    <3> QED
      BY <1>0, <1>5, <2>2, <3>1, TakesLock, AppendAfter
  <2>3. CASE d = c /\ ~(Acquire(c) /\ held'[c] = held[c] + 1)
    <3>1. ASSUME NEW phase, Goto(c, phase) PROVE pc'[c] = phase
      BY <3>1 DEF Goto, WayInv, Tabled
    <3>2. pc[c] \in Appending \cup {"dated"} /\ held' = held
      BY <1>5, <2>3, <3>1 DEF CallStep, Proceed, Statement, Register, Create, Revoke, Begin,
         Lookup, Acquire, CheckRevoked, ReadPolicy, ReadHead, InsertEvent, Commit, RollBack,
         Finish, Appending, WayInv, Tabled, OnItsWay
    <3> QED
      BY <1>5, <2>3, <3>2 DEF StoredInv
  <2> QED
    BY <2>1, <2>2, <2>3
<1>6. ASSUME NEW d \in Calls, d.kind = "STOP", held'[d] >= 1
      PROVE  state'[d.experiment] = "STARTED"
  <2>1. CASE held[d] >= 1
    <3>1. d.experiment \in Started
      BY <1>6, <2>1, CallsAssumption DEF StoredInv, Started
    <3>2. ASSUME Commit(c), c.kind = "STOP", c.experiment = d.experiment PROVE FALSE
      <4>1. held[c] >= 1
        BY <3>2 DEF Commit, WayInv, OnItsWay, Appending, Journaled
      <4> QED
        BY <1>1, <1>6, <2>1, <3>2, <4>1, StopsAlone
    <3>3. d.experiment \in Started'
      BY <3>1, <3>2, StartedChanges
    <3> QED
      BY <3>3 DEF Started
  <2>2. CASE ~(held[d] >= 1)
    <3>1. d = c /\ Acquire(c) /\ held'[c] = held[c] + 1 /\ held[c] = 0
      BY <1>3, <1>6, <2>2
    <3> QED
      BY <1>6, <3>1, TakesLock DEF Allows, StopAllows, rowVars, registry
  <2> QED
    BY <2>1, <2>2
<1>7. ASSUME NEW d \in Calls, d.kind = "APPLY", held'[d] >= 1 PROVE SameKey(d)' # {}
  <2>1. CASE held[d] >= 1
    BY <1>2, <1>7, <2>1 DEF StoredInv
  <2>2. CASE ~(held[d] >= 1)
    <3>1. d = c /\ Acquire(c) /\ held'[c] = held[c] + 1
      BY <1>3, <1>7, <2>2
    <3> QED
      BY <1>2, <1>7, <3>1, TakesLock DEF Allows, ApplyAllows
  <2> QED
    BY <2>1, <2>2
<1>8. ASSUME NEW d \in Calls, d.kind = "APPLY", ReceiptOf(d) \in receipts' PROVE SameKey(d)' # {}
  <2>1. CASE ReceiptOf(d) \in receipts
    BY <1>2, <1>8, <2>1 DEF StoredInv
  <2>2. CASE ReceiptOf(d) \notin receipts
    <3>1. c.kind = "APPLY" /\ held[c] >= 1 /\ ReceiptOf(d) = ReceiptOf(c)
      BY <1>8, <2>2, ReceiptsGrow
    <3>2. SameKey(c) # {} /\ SameKey(d) = SameKey(c)
      BY <3>1 DEF StoredInv, SameKey, ReceiptOf
    <3> QED
      BY <1>2, <3>2
  <2> QED
    BY <2>1, <2>2
<1> QED
  BY <1>4, <1>5, <1>6, <1>7, <1>8 DEF StoredInv, Envelope, ReceiptOf

LEMMA RefusedHadNoEffect ==
  ASSUME WayInv, StoredInv, NEW c \in Calls, CallStep(c), pc[c] # "refused", pc'[c] = "refused"
  PROVE  ~Effective(c)
<1> DEFINE n == held[c]
<1>1. ASSUME NEW phase, Goto(c, phase) PROVE phase = "refused"
  BY <1>1 DEF Goto, WayInv, Tabled
<1>2. n \in Nat
  BY DEF WayInv, Tabled
<1>3. CASE c.kind \notin {"ACCEPT", "APPLY", "STOP", "ENTRY"}
  BY <1>3 DEF Effective
<1>4. CASE CheckRevoked(c)
  <2>1. c.kind = "ACCEPT" /\ n >= 2
    BY <1>4 DEF CheckRevoked, WayInv, OnItsWay, StoredInv
  <2> QED
    BY <2>1 DEF StoredInv, Effective
<1>5. CASE Acquire(c) /\ ~Finds(c, n) /\ ~Allows(c, n)
  <2>1. CASE c.kind = "ACCEPT"
    <3>1. CASE n >= 2
      BY <2>1, <3>1 DEF StoredInv, Effective
    <3>2. CASE n = 1
      BY <1>5, <2>1, <3>2 DEF Finds, AcceptFinds, Effective, SameKey, Envelope
    <3>3. CASE n = 0
      BY <1>5, <2>1, <3>3 DEF Allows, AcceptAllows
    <3> QED
      BY <1>2, <3>1, <3>2, <3>3
  <2>2. CASE c.kind = "APPLY"
    BY <1>5, <2>2 DEF Finds, ApplyFinds, Allows, ApplyAllows, Effective, StoredInv
  <2>3. CASE c.kind = "STOP"
    <3>1. CASE n >= 1
      BY <2>3, <3>1 DEF StoredInv, Effective
    <3>2. CASE n = 0
      BY <1>5, <2>3, <3>2 DEF Finds, StopFinds, Effective
    <3> QED
      BY <1>2, <3>1, <3>2
  <2>4. CASE c.kind = "ENTRY"
    BY <1>5, <2>4 DEF Finds, EntryFinds, Effective
  <2> QED
    BY <1>3, <2>1, <2>2, <2>3, <2>4
<1>6. CASE Acquire(c) /\ ~(~Finds(c, n) /\ ~Allows(c, n))
  <2>1. PhaseAfter(c, n) # "refused"
    BY <1>2, <1>6, PhaseAfterLock DEF Acquire, WayInv, OnItsWay, InFlight, Over
  <2> QED
    BY <1>1, <1>6, <2>1 DEF Acquire, Finish
<1>7. CASE Statement(c) \/ ReadPolicy(c)
  BY <1>3, <1>7 DEF Statement, Register, Create, Revoke, ReadPolicy, WayInv, OnItsWay
<1> QED
  BY <1>1, <1>4, <1>5, <1>6, <1>7 DEF CallStep, Proceed, Begin, Lookup, ReadHead, InsertEvent,
     Commit, RollBack, Finish

(* A call delivered twice, even at the same time, is never refused once one  *)
(* of the two has had its effect: acceptAction, applyReceipt, the entries of *)
(* references and stopExperiment, which look for what is stored under the    *)
(* lock they decide by.                                                      *)
THEOREM RepeatsFindTheOutcome == Spec => RepeatsAreStored
<1> DEFINE Inv == WayInv /\ LocksInv /\ StoredInv
<1>1. Init => Inv
  <2> SUFFICES ASSUME Init PROVE StoredInv
    BY WayInit, LocksInit
  <2> QED
    BY DEF Init, StoredInv, Appending
<1>2. Inv /\ [Next]_vars => Inv'
  <2> SUFFICES ASSUME Inv, [Next]_vars PROVE Inv'
    OBVIOUS
  <2>1. CASE Next
    BY <2>1, WayStep, LocksStep, StoredStep DEF Next, CallStep
  <2>2. CASE UNCHANGED vars
    BY <2>2, LocksStutter DEF vars, txVars, rowVars, registry, money, WayInv, Tabled, OnItsWay,
       InFlight, Journaled, StoredInv, SameKey
  <2> QED
    BY <2>1, <2>2
<1>3. Inv /\ [Next]_vars =>
        [\A c \in Calls : pc[c] # "refused" /\ pc'[c] = "refused" => ~Effective(c)]_vars
  <2> SUFFICES ASSUME Inv, Next, NEW c \in Calls, pc[c] # "refused", pc'[c] = "refused"
               PROVE  ~Effective(c)
    OBVIOUS
  <2>1. PICK d \in Calls : CallStep(d)
    BY DEF Next, CallStep
  <2>2. c = d
    BY <2>1, WayStep DEF Others
  <2> QED
    BY <2>1, <2>2, RefusedHadNoEffect
<1> HIDE DEF Inv
<1> QED
  BY <1>1, <1>2, <1>3, PTL DEF Spec, RepeatsAreStored

-----------------------------------------------------------------------------
(* Type correctness                                                        *)

Flying == {c \in Calls : InFlight(c)}

(* A call that is still acquiring locks has one more to acquire.             *)
Acquiring == {"lookup", "locking", "dated"}

HeldFits(c) ==
  /\ held[c] <= Len(Needs(c))
  /\ pc[c] \in Acquiring => held[c] < Len(Needs(c))

PoolInv ==
  /\ IsFiniteSet(Flying) /\ Connections <= PoolSize
  /\ \A c \in Calls : HeldFits(c)

LEMMA ScenarioOrder == SetToSeq(Scenarios) \in Seq(Scenarios)
<1> DEFINE n == Cardinality(Scenarios)
<1>1. n \in Nat /\ ExistsBijection(1 .. n, Scenarios)
  BY ScenariosAssumption, FS_CardinalityType
<1>2. \E f \in [1 .. n -> Scenarios] : IsInjective(f)
  BY <1>1 DEF ExistsBijection, Bijection, Injection
<1>3. SetToSeq(Scenarios) \in [1 .. n -> Scenarios]
  BY <1>2 DEF SetToSeq
<1> QED
  BY <1>1, <1>3

LEMMA NeedsLength ==
  ASSUME NEW c \in Calls
  PROVE  /\ Len(Needs(c)) \in Nat
         /\ c.kind \notin Statements => Len(Needs(c)) >= 1
         /\ c.kind = "ACCEPT" => Len(Needs(c)) = 3
<1>1. CASE c.kind = "STOP"
  <2> DEFINE rows == ScenarioRows(c)
             first == <<Lock("UPDATE", ExperimentRow(c))>>
             middle == [i \in DOMAIN rows |-> Lock("UPDATE", rows[i])]
             last == <<Lock("UPDATE", <<"audit", c.experiment>>)>>
             All == {first[1], last[1]} \cup {middle[i] : i \in DOMAIN rows}
  <2>1. DOMAIN rows = 1 .. Len(SetToSeq(Scenarios)) /\ Len(SetToSeq(Scenarios)) \in Nat
    BY ScenarioOrder DEF ScenarioRows
  <2>2. middle \in Seq(All) /\ first \in Seq(All) /\ last \in Seq(All)
    BY <2>1
  <2>3. Needs(c) = first \o middle \o last
    BY <1>1 DEF Needs, StopLocks
  <2>4. Len(first) = 1 /\ Len(last) = 1 /\ Len(middle) \in Nat
    BY <2>2
  <2> HIDE DEF first, middle, last, All, rows
  <2>5. first \o middle \in Seq(All) /\ Len(first \o middle) = 1 + Len(middle)
    BY <2>2, <2>4, ConcatProperties
  <2>6. Len((first \o middle) \o last) = 1 + Len(middle) + 1
    BY <2>2, <2>4, <2>5, ConcatProperties
  <2> QED
    BY <1>1, <2>3, <2>4, <2>6
<1>2. CASE c.kind # "STOP"
  BY <1>2, CallsAssumption DEF Kinds, Statements, Needs, StartLocks, AcceptLocks, ApplyLocks,
     CompleteLocks, CheckpointLocks, EntryLocks, CorrectLocks, AuditLocks
<1> QED
  BY <1>1, <1>2

LEMMA PhaseLeavesLocks ==
  ASSUME NEW c \in Calls, c.kind \notin Statements, NEW n \in Nat, n < Len(Needs(c)),
         PhaseAfter(c, n) \in Acquiring
  PROVE  n + 1 < Len(Needs(c))
<1>1. CASE c.kind = "ACCEPT" /\ n = 1
  BY <1>1, NeedsLength
<1>2. CASE ~(c.kind = "ACCEPT" /\ n = 1)
  BY <1>2 DEF PhaseAfter, Acquiring
<1> QED
  BY <1>1, <1>2

LEMMA FlightBegins ==
  ASSUME WayInv, NEW c \in Calls, CallStep(c)
  PROVE  \/ Flying' \subseteq Flying
         \/ Begin(c) /\ Flying' \subseteq Flying \cup {c}
<1>1. \A d \in Calls \ {c} : InFlight(d)' <=> InFlight(d)
  BY WayStep DEF Others, InFlight
<1>2. InFlight(c) \/ Begin(c) \/ ~InFlight(c)'
  <2>1. ASSUME Statement(c) PROVE ~InFlight(c)'
    BY <2>1 DEF Statement, Register, Create, Revoke, Finish, Goto, WayInv, Tabled, InFlight, Over
  <2> QED
    BY <2>1 DEF CallStep, Proceed, Lookup, Acquire, CheckRevoked, ReadPolicy, ReadHead,
       InsertEvent, Commit, RollBack, InFlight, Over
<1> QED
  BY <1>1, <1>2 DEF Flying

LEMMA HeldStep ==
  ASSUME WayInv, NEW c \in Calls, CallStep(c), HeldFits(c)
  PROVE  HeldFits(c)'
<1> DEFINE n == held[c]
<1>0. n \in Nat /\ Len(Needs(c)) \in Nat
  BY NeedsLength DEF WayInv, Tabled
<1>1. CASE Acquire(c) /\ held'[c] = n + 1
  <2>1. pc'[c] = PhaseAfter(c, n) /\ c.kind \notin Statements /\ n < Len(Needs(c))
    BY <1>1, TakesLock DEF HeldFits, Acquiring, Acquire
  <2> QED
    BY <1>0, <1>1, <2>1, PhaseLeavesLocks DEF HeldFits
<1>2. CASE Begin(c)
  <2>1. held'[c] = 0 /\ c.kind \notin Statements
    BY <1>2 DEF Begin, WayInv, Tabled, OnItsWay, InFlight, Over
  <2> QED
    BY <1>0, <2>1, NeedsLength DEF HeldFits
<1>3. CASE ~Begin(c) /\ ~(Acquire(c) /\ held'[c] = n + 1)
  <2>1. ASSUME NEW phase, Goto(c, phase) PROVE pc'[c] = phase
    BY <2>1 DEF Goto, WayInv, Tabled
  <2>2. ASSUME NEW phase \in Over, Finish(c, phase) PROVE HeldFits(c)'
    <3>1. held'[c] = 0 /\ pc'[c] = phase
      BY <2>1, <2>2 DEF Finish, WayInv, Tabled
    <3> QED
      BY <1>0, <3>1, <2>2 DEF HeldFits, Over, Acquiring
  <2>3. ASSUME held' = held, pc'[c] \in Acquiring => pc[c] \in Acquiring PROVE HeldFits(c)'
    BY <2>3 DEF HeldFits
  <2>4. CASE Statement(c) \/ Commit(c) \/ RollBack(c)
    BY <2>2, <2>4 DEF Statement, Register, Create, Revoke, Commit, RollBack, Over
  <2>5. CASE Lookup(c) \/ CheckRevoked(c) \/ ReadPolicy(c) \/ ReadHead(c) \/ InsertEvent(c)
    BY <2>1, <2>2, <2>3, <2>5 DEF Lookup, CheckRevoked, ReadPolicy, ReadHead, InsertEvent, Over,
       Acquiring
  <2>6. CASE Acquire(c)
    <3>1. ~(held' = [held EXCEPT ![c] = @ + 1])
      BY <1>3, <2>6 DEF WayInv, Tabled
    <3> QED
      BY <2>2, <2>6, <3>1 DEF Acquire, Over
  <2> QED
    BY <1>3, <2>4, <2>5, <2>6 DEF CallStep, Proceed
<1> QED
  BY <1>1, <1>2, <1>3

LEMMA PoolStep ==
  ASSUME WayInv, PoolInv, NEW c \in Calls, CallStep(c)
  PROVE  PoolInv'
<1>0. PoolSize \in Nat /\ Cardinality(Flying) <= PoolSize /\ IsFiniteSet(Flying)
  BY ControlBoundsAssumption DEF PoolInv, Connections, Flying
<1>1. IsFiniteSet(Flying') /\ Cardinality(Flying') <= PoolSize
  <2>1. CASE Flying' \subseteq Flying
    <3>1. IsFiniteSet(Flying') /\ Cardinality(Flying') <= Cardinality(Flying)
      BY <1>0, <2>1, FS_Subset
    <3>2. Cardinality(Flying') \in Nat /\ Cardinality(Flying) \in Nat
      BY <1>0, <3>1, FS_CardinalityType
    <3> QED
      BY <1>0, <3>1, <3>2
  <2>2. CASE Begin(c) /\ Flying' \subseteq Flying \cup {c}
    <3>1. Cardinality(Flying) < PoolSize
      BY <2>2 DEF Begin, Connections, Flying
    <3>2. /\ IsFiniteSet(Flying \cup {c})
          /\ Cardinality(Flying \cup {c}) =
               IF c \in Flying THEN Cardinality(Flying) ELSE Cardinality(Flying) + 1
      BY <1>0, FS_AddElement
    <3>3. IsFiniteSet(Flying') /\ Cardinality(Flying') <= Cardinality(Flying \cup {c})
      BY <2>2, <3>2, FS_Subset
    <3>4. Cardinality(Flying') \in Nat /\ Cardinality(Flying) \in Nat
      BY <1>0, <3>3, FS_CardinalityType
    <3> QED
      BY <1>0, <3>1, <3>2, <3>3, <3>4
  <2> QED
    BY <2>1, <2>2, FlightBegins
<1>2. ASSUME NEW d \in Calls PROVE HeldFits(d)'
  <2>1. CASE d = c
    BY <2>1, HeldStep DEF PoolInv
  <2>2. CASE d # c
    BY <2>2, WayStep DEF Others, PoolInv, HeldFits
  <2> QED
    BY <2>1, <2>2
<1>3. Connections' <= PoolSize
  BY <1>1 DEF Connections, Flying
<1> QED
  BY <1>1, <1>2, <1>3 DEF PoolInv

(* The calls, their locks, the rows and the pool together.                   *)
ControlInv == WayInv /\ LocksInv /\ RowsInv /\ PoolInv

LEMMA ControlInitially == Init => ControlInv
<1> SUFFICES ASSUME Init PROVE PoolInv
  BY WayInit, LocksInit, RowsInit DEF ControlInv
<1>1. \A c \in Calls : ~InFlight(c) /\ held[c] = 0
  BY DEF Init, InFlight, Over
<1>2. Flying = {} /\ {c \in Calls : InFlight(c)} = {}
  BY <1>1 DEF Flying
<1>3. \A c \in Calls : HeldFits(c)
  BY <1>1, NeedsLength DEF HeldFits, InFlight, Over, Acquiring
<1> QED
  BY <1>2, <1>3, FS_EmptySet, ControlBoundsAssumption DEF PoolInv, Connections

LEMMA ControlStep == ControlInv /\ [Next]_vars => ControlInv'
<1> SUFFICES ASSUME ControlInv, [Next]_vars PROVE ControlInv'
  OBVIOUS
<1>1. WayInv /\ LocksInv /\ RowsInv /\ PoolInv
  BY DEF ControlInv
<1>2. CASE Next
  <2>1. WayInv' /\ LocksInv' /\ RowsInv' /\ PoolInv'
    BY <1>1, <1>2, WayStep, LocksStep, RowsStep, PoolStep DEF Next, CallStep
  <2> QED
    BY <2>1 DEF ControlInv
<1>3. CASE UNCHANGED vars
  <2>1. UNCHANGED <<pc, held, memo, version, state>>
    BY <1>3 DEF vars, txVars, rowVars, registry
  <2>2. WayInv'
    BY <1>1, <2>1 DEF WayInv, Tabled, OnItsWay, InFlight, Journaled
  <2>3. PoolInv'
    BY <1>1, <2>1 DEF PoolInv, Flying, Connections, InFlight, HeldFits
  <2> QED
    BY <1>1, <1>3, <2>2, <2>3, LocksStutter, RowsStutter DEF ControlInv
<1> QED
  BY <1>2, <1>3

(* The rows have the shape of their tables, a call holds at most the locks   *)
(* its transaction takes, and the calls in flight never need more than the   *)
(* connections of the pool: createPool.                                      *)
THEOREM TypesAreKept == Spec => []TypeOK
<1>1. ControlInv => TypeOK
  BY DEF ControlInv, TypeOK, WayInv, Tabled, PoolInv, HeldFits, RowsInv, RowsShaped, Statuses
<1> QED
  BY <1>1, ControlInitially, ControlStep, PTL DEF Spec

-----------------------------------------------------------------------------
(* Stalls.  When every call in flight is blocked and none waits for a      *)
(* connection, each is acquiring locks and waits for another such call, so *)
(* a table whose locks no such call holds yet has no waiter.  The tables   *)
(* are cleared one after the other until no call is left.                  *)

RowOf(l) == l.row
ModeOf(l) == l.mode
Table(l) == l.row[1]
Scope(l) == l.row[2]

(* The n-th lock of a call: its table, its mode, its place in the order.     *)
LockFits(c, n) ==
  LET l == Needs(c)[n]
      end == n = Len(Needs(c))
  IN  \/ /\ Table(l) = "experiment" /\ Scope(l) = c.experiment /\ RowOf(l) = ExperimentRow(c)
         /\ \/ ModeOf(l) = "UPDATE" /\ c.kind \in {"START", "STOP"} /\ n = 1
            \/ ModeOf(l) = "UPDATE" /\ c.kind = "COMPLETE" /\ n = 2
            \/ ModeOf(l) = "SHARE" /\ c.kind = "ACCEPT" /\ n = 2
            \/ ModeOf(l) = "KEY SHARE" /\ c.kind \in {"CHECKPOINT", "CORRECT", "AUDIT"} /\ end
      \/ Table(l) = "quota" /\ c.kind = "START" /\ end
      \/ Table(l) = "intake" /\ c.kind = "ACCEPT" /\ n = 1
      \/ /\ Table(l) = "scenario" /\ Scope(l) = c.experiment
         /\ \/ c.kind \in {"ACCEPT", "APPLY"} /\ end
            \/ c.kind = "COMPLETE" /\ n = 3
            \/ c.kind = "CHECKPOINT" /\ n = 1
            \/ c.kind = "STOP" /\ n > 1
      \/ /\ Table(l) = "reference" /\ RowOf(l) = Row(c, "reference")
         /\ \/ c.kind = "CHECKPOINT" /\ n = 2
            \/ c.kind = "ENTRY" /\ end
      \/ /\ Table(l) = "audit" /\ Scope(l) = c.experiment
         /\ \/ c.kind \in {"STOP", "COMPLETE"} /\ end
            \/ c.kind = "AUDIT" /\ n = 1
      \/ Table(l) = "action" /\ c.kind \in {"APPLY", "COMPLETE"} /\ n = 1

LEMMA StopLockFits ==
  ASSUME NEW c \in Calls, c.kind = "STOP", NEW n \in 1 .. Len(Needs(c))
  PROVE  LockFits(c, n) /\ (n = 1 => Needs(c)[n] = Lock("UPDATE", ExperimentRow(c)))
<1> DEFINE rows == ScenarioRows(c)
           first == <<Lock("UPDATE", ExperimentRow(c))>>
           middle == [i \in DOMAIN rows |-> Lock("UPDATE", rows[i])]
           last == <<Lock("UPDATE", <<"audit", c.experiment>>)>>
           All == {first[1], last[1]} \cup {middle[i] : i \in DOMAIN rows}
<1>1. /\ DOMAIN rows = 1 .. Len(SetToSeq(Scenarios)) /\ Len(SetToSeq(Scenarios)) \in Nat
      /\ \A i \in DOMAIN rows : rows[i] = <<"scenario", c.experiment, SetToSeq(Scenarios)[i]>>
  BY ScenarioOrder DEF ScenarioRows
<1>2. middle \in Seq(All) /\ first \in Seq(All) /\ last \in Seq(All)
  BY <1>1
<1>3. Needs(c) = first \o middle \o last
  BY DEF Needs, StopLocks
<1>4. /\ Len(first) = 1 /\ Len(last) = 1
      /\ first[1] = Lock("UPDATE", ExperimentRow(c))
      /\ last[1] = Lock("UPDATE", <<"audit", c.experiment>>)
  OBVIOUS
<1>10. /\ Len(middle) \in Nat
       /\ \A i \in 1 .. Len(middle) :
            \E s : middle[i] = Lock("UPDATE", <<"scenario", c.experiment, s>>)
  <2>1. /\ middle = [i \in 1 .. Len(SetToSeq(Scenarios)) |-> Lock("UPDATE", rows[i])]
        /\ Len(SetToSeq(Scenarios)) \in Nat
    BY <1>1
  <2>2. \A i \in 1 .. Len(SetToSeq(Scenarios)) :
           rows[i] = <<"scenario", c.experiment, SetToSeq(Scenarios)[i]>>
    BY <1>1
  <2> HIDE DEF middle, rows
  <2>3. Len(middle) = Len(SetToSeq(Scenarios))
    BY <2>1
  <2> QED BY <2>1, <2>2, <2>3
<1> HIDE DEF first, middle, last, All, rows
<1>5. /\ first \o middle \in Seq(All) /\ Len(first \o middle) = 1 + Len(middle)
      /\ \A i \in 1 .. 1 + Len(middle) :
            (first \o middle)[i] = IF i <= 1 THEN first[i] ELSE middle[i - 1]
  <2>1. /\ first \o middle \in Seq(All) /\ Len(first \o middle) = Len(first) + Len(middle)
        /\ \A i \in 1 .. Len(first) + Len(middle) :
              (first \o middle)[i] = IF i <= Len(first) THEN first[i] ELSE middle[i - Len(first)]
    BY <1>2, ConcatProperties
  <2> QED BY <1>4, <1>10, <2>1
<1>6. /\ Len(Needs(c)) = Len(middle) + 2
      /\ \A i \in 1 .. Len(middle) + 2 :
            Needs(c)[i] = IF i <= 1 + Len(middle) THEN (first \o middle)[i]
                          ELSE last[i - (1 + Len(middle))]
  BY <1>2, <1>3, <1>4, <1>5, <1>10, ConcatProperties
<1>7. CASE n = 1
  <2>1. Needs(c)[n] = Lock("UPDATE", ExperimentRow(c))
    BY <1>4, <1>5, <1>6, <1>7, <1>10
  <2>2. /\ Table(Needs(c)[n]) = "experiment" /\ Scope(Needs(c)[n]) = c.experiment
        /\ RowOf(Needs(c)[n]) = ExperimentRow(c) /\ ModeOf(Needs(c)[n]) = "UPDATE"
    BY <2>1 DEF Table, Scope, RowOf, ModeOf, Lock, ExperimentRow
  <2>3. LockFits(c, n)
    BY <1>7, <2>2 DEF LockFits
  <2> QED BY <2>1, <2>3
<1>8. CASE n > 1 /\ n <= Len(middle) + 1
  <2>1. n - 1 \in 1 .. Len(middle) /\ Needs(c)[n] = middle[n - 1]
    BY <1>4, <1>5, <1>6, <1>8, <1>10
  <2>2. PICK s : Needs(c)[n] = Lock("UPDATE", <<"scenario", c.experiment, s>>)
    BY <1>10, <2>1
  <2>3. Table(Needs(c)[n]) = "scenario" /\ Scope(Needs(c)[n]) = c.experiment
    BY <2>2 DEF Table, Scope, Lock
  <2> QED BY <1>8, <2>3 DEF LockFits
<1>9. CASE n = Len(middle) + 2
  <2>1. Needs(c)[n] = Lock("UPDATE", <<"audit", c.experiment>>)
    BY <1>4, <1>6, <1>9, <1>10
  <2>2. Table(Needs(c)[n]) = "audit" /\ Scope(Needs(c)[n]) = c.experiment
    BY <2>1 DEF Table, Scope, Lock
  <2>3. n = Len(Needs(c)) /\ n # 1
    BY <1>6, <1>9, <1>10
  <2> QED BY <2>2, <2>3 DEF LockFits
<1> QED BY <1>6, <1>7, <1>8, <1>9, <1>10

LEMMA StopLater ==
  ASSUME NEW c \in Calls, c.kind = "STOP", NEW n \in 1 .. Len(Needs(c)), n > 1
  PROVE  Table(Needs(c)[n]) \in {"scenario", "audit"} /\ Scope(Needs(c)[n]) = c.experiment
<1>1. LockFits(c, n) /\ n # 1
  BY StopLockFits
<1>2. Table(Needs(c)[n]) = "experiment" => FALSE
  BY <1>1 DEF LockFits
<1> QED BY <1>1, <1>2 DEF LockFits

LEMMA LockParts ==
  \A mode, row : ModeOf(Lock(mode, row)) = mode /\ RowOf(Lock(mode, row)) = row
BY DEF Lock, ModeOf, RowOf

(* The lock of an experiment row, or of another row of the experiment. *)
IsExperimentLock(c, l, mode) ==
  Table(l) = "experiment" /\ Scope(l) = c.experiment /\ RowOf(l) = ExperimentRow(c) /\ ModeOf(l) = mode

IsLockOf(c, l, table) ==
  /\ Table(l) = table /\ Scope(l) = c.experiment
  /\ table = "reference" => RowOf(l) = Row(c, "reference")

LEMMA StopFirst ==
  ASSUME NEW c \in Calls, c.kind = "STOP"
  PROVE  Needs(c)[1] = Lock("UPDATE", ExperimentRow(c))
<1>1. Len(Needs(c)) \in Nat /\ Len(Needs(c)) >= 1
  BY NeedsLength DEF Statements
<1>2. 1 \in 1 .. Len(Needs(c))
  BY <1>1
<1> QED BY <1>2, StopLockFits

LEMMA LocksTaken ==
  ASSUME NEW c \in Calls
  PROVE  /\ \A mode \in {"UPDATE", "SHARE", "KEY SHARE"} :
              IsExperimentLock(c, Lock(mode, ExperimentRow(c)), mode)
         /\ \A table \in {"intake", "scenario", "reference"} :
              IsLockOf(c, Lock("UPDATE", Row(c, table)), table)
         /\ IsLockOf(c, Lock("UPDATE", <<"audit", c.experiment>>), "audit")
         /\ IsLockOf(c, Lock("UPDATE", ActionRow(c)), "action")
         /\ Table(Lock("UPDATE", <<"quota">>)) = "quota"
BY DEF IsExperimentLock, IsLockOf, Lock, ExperimentRow, Table, Scope, RowOf, ModeOf, Row, ActionRow

LEMMA LockKinds ==
  ASSUME NEW c \in Calls, NEW n \in 1 .. Len(Needs(c))
  PROVE  LockFits(c, n)
<1>1. CASE c.kind = "START"
  <2>0. Len(Needs(c)) = 2
    BY <1>1 DEF Needs, StartLocks
  <2>1. /\ Needs(c)[1] = Lock("UPDATE", ExperimentRow(c))
        /\ Needs(c)[2] = Lock("UPDATE", <<"quota">>)
    BY <1>1 DEF Needs, StartLocks
  <2>2. /\ IsExperimentLock(c, Needs(c)[1], "UPDATE")
        /\ Table(Needs(c)[2]) = "quota"
    BY <2>1, LocksTaken
  <2>3. n \in {1, 2}
    BY <2>0
  <2> QED BY <1>1, <2>0, <2>2, <2>3 DEF LockFits, IsExperimentLock, IsLockOf
<1>2. CASE c.kind = "ACCEPT"
  <2>0. Len(Needs(c)) = 3
    BY <1>2 DEF Needs, AcceptLocks
  <2>1. /\ Needs(c)[1] = Lock("UPDATE", Row(c, "intake"))
        /\ Needs(c)[2] = Lock("SHARE", ExperimentRow(c))
        /\ Needs(c)[3] = Lock("UPDATE", Row(c, "scenario"))
    BY <1>2 DEF Needs, AcceptLocks
  <2>2. /\ IsLockOf(c, Needs(c)[1], "intake")
        /\ IsExperimentLock(c, Needs(c)[2], "SHARE")
        /\ IsLockOf(c, Needs(c)[3], "scenario")
    BY <2>1, LocksTaken
  <2>3. n \in {1, 2, 3}
    BY <2>0
  <2> QED BY <1>2, <2>0, <2>2, <2>3 DEF LockFits, IsExperimentLock, IsLockOf
<1>3. CASE c.kind = "APPLY"
  <2>0. Len(Needs(c)) = 2
    BY <1>3 DEF Needs, ApplyLocks
  <2>1. /\ Needs(c)[1] = Lock("UPDATE", ActionRow(c))
        /\ Needs(c)[2] = Lock("UPDATE", Row(c, "scenario"))
    BY <1>3 DEF Needs, ApplyLocks
  <2>2. /\ IsLockOf(c, Needs(c)[1], "action")
        /\ IsLockOf(c, Needs(c)[2], "scenario")
    BY <2>1, LocksTaken
  <2>3. n \in {1, 2}
    BY <2>0
  <2> QED BY <1>3, <2>0, <2>2, <2>3 DEF LockFits, IsExperimentLock, IsLockOf
<1>4. CASE c.kind = "COMPLETE"
  <2>0. Len(Needs(c)) = 4
    BY <1>4 DEF Needs, CompleteLocks
  <2>1. /\ Needs(c)[1] = Lock("UPDATE", ActionRow(c))
        /\ Needs(c)[2] = Lock("UPDATE", ExperimentRow(c))
        /\ Needs(c)[3] = Lock("UPDATE", Row(c, "scenario"))
        /\ Needs(c)[4] = Lock("UPDATE", <<"audit", c.experiment>>)
    BY <1>4 DEF Needs, CompleteLocks
  <2>2. /\ IsLockOf(c, Needs(c)[1], "action")
        /\ IsExperimentLock(c, Needs(c)[2], "UPDATE")
        /\ IsLockOf(c, Needs(c)[3], "scenario")
        /\ IsLockOf(c, Needs(c)[4], "audit")
    BY <2>1, LocksTaken
  <2>3. n \in {1, 2, 3, 4}
    BY <2>0
  <2> QED BY <1>4, <2>0, <2>2, <2>3 DEF LockFits, IsExperimentLock, IsLockOf
<1>5. CASE c.kind = "CHECKPOINT"
  <2>0. Len(Needs(c)) = 3
    BY <1>5 DEF Needs, CheckpointLocks
  <2>1. /\ Needs(c)[1] = Lock("UPDATE", Row(c, "scenario"))
        /\ Needs(c)[2] = Lock("UPDATE", Row(c, "reference"))
        /\ Needs(c)[3] = Lock("KEY SHARE", ExperimentRow(c))
    BY <1>5 DEF Needs, CheckpointLocks
  <2>2. /\ IsLockOf(c, Needs(c)[1], "scenario")
        /\ IsLockOf(c, Needs(c)[2], "reference")
        /\ IsExperimentLock(c, Needs(c)[3], "KEY SHARE")
    BY <2>1, LocksTaken
  <2>3. n \in {1, 2, 3}
    BY <2>0
  <2>4. CASE n = 1
    BY <1>5, <2>0, <2>2, <2>4 DEF LockFits, IsLockOf
  <2>5. CASE n = 2
    BY <1>5, <2>0, <2>2, <2>5 DEF LockFits, IsLockOf
  <2>6. CASE n = 3
    BY <1>5, <2>0, <2>2, <2>6 DEF LockFits, IsExperimentLock
  <2> QED BY <2>3, <2>4, <2>5, <2>6
<1>6. CASE c.kind = "ENTRY"
  <2>0. Len(Needs(c)) = 1
    BY <1>6 DEF Needs, EntryLocks
  <2>1. Needs(c)[1] = Lock("UPDATE", Row(c, "reference"))
    BY <1>6 DEF Needs, EntryLocks
  <2>2. IsLockOf(c, Needs(c)[1], "reference")
    BY <2>1, LocksTaken
  <2> QED BY <1>6, <2>0, <2>2 DEF LockFits, IsExperimentLock, IsLockOf
<1>7. CASE c.kind = "CORRECT"
  <2>0. Len(Needs(c)) = 1
    BY <1>7 DEF Needs, CorrectLocks
  <2>1. Needs(c)[1] = Lock("KEY SHARE", ExperimentRow(c))
    BY <1>7 DEF Needs, CorrectLocks
  <2>2. IsExperimentLock(c, Needs(c)[1], "KEY SHARE")
    BY <2>1, LocksTaken
  <2>3. n = 1
    BY <2>0
  <2> QED BY <1>7, <2>0, <2>2, <2>3 DEF LockFits, IsExperimentLock
<1>8. CASE c.kind = "AUDIT"
  <2>0. Len(Needs(c)) = 2
    BY <1>8 DEF Needs, AuditLocks
  <2>1. /\ Needs(c)[1] = Lock("UPDATE", <<"audit", c.experiment>>)
        /\ Needs(c)[2] = Lock("KEY SHARE", ExperimentRow(c))
    BY <1>8 DEF Needs, AuditLocks
  <2>2. /\ IsLockOf(c, Needs(c)[1], "audit")
        /\ IsExperimentLock(c, Needs(c)[2], "KEY SHARE")
    BY <2>1, LocksTaken
  <2>3. n \in {1, 2}
    BY <2>0
  <2> QED BY <1>8, <2>0, <2>2, <2>3 DEF LockFits, IsExperimentLock, IsLockOf
<1>9. CASE c.kind = "STOP"
  BY <1>9, StopLockFits
<1>10. CASE c.kind \in Statements
  <2>1. Len(Needs(c)) = 0
    BY <1>10 DEF Statements, Needs
  <2> QED BY <2>1
<1> QED
  BY <1>1, <1>2, <1>3, <1>4, <1>5, <1>6, <1>7, <1>8, <1>9, <1>10, CallsAssumption
     DEF Kinds

(* What a lock of each table tells of the call and of its place.             *)
Experimental(c, n) ==
  /\ Scope(Needs(c)[n]) = c.experiment /\ RowOf(Needs(c)[n]) = ExperimentRow(c)
  /\ \/ ModeOf(Needs(c)[n]) = "UPDATE" /\ c.kind \in {"START", "STOP"} /\ n = 1
     \/ ModeOf(Needs(c)[n]) = "UPDATE" /\ c.kind = "COMPLETE" /\ n = 2
     \/ ModeOf(Needs(c)[n]) = "SHARE" /\ c.kind = "ACCEPT" /\ n = 2
     \/ /\ ModeOf(Needs(c)[n]) = "KEY SHARE" /\ c.kind \in {"CHECKPOINT", "CORRECT", "AUDIT"}
        /\ n = Len(Needs(c))

Tables == {"experiment", "quota", "intake", "scenario", "reference", "audit", "action"}

LEMMA TableTells ==
  ASSUME NEW c \in Calls, NEW n, LockFits(c, n)
  PROVE  /\ Table(Needs(c)[n]) \in Tables
         /\ Table(Needs(c)[n]) = "experiment" => Experimental(c, n)
         /\ Table(Needs(c)[n]) = "quota" => c.kind = "START" /\ n = Len(Needs(c))
         /\ Table(Needs(c)[n]) = "intake" => c.kind = "ACCEPT" /\ n = 1
         /\ Table(Needs(c)[n]) = "scenario" =>
              /\ Scope(Needs(c)[n]) = c.experiment
              /\ \/ c.kind \in {"ACCEPT", "APPLY"} /\ n = Len(Needs(c))
                 \/ c.kind = "COMPLETE" /\ n = 3
                 \/ c.kind = "CHECKPOINT" /\ n = 1
                 \/ c.kind = "STOP" /\ n > 1
         /\ Table(Needs(c)[n]) = "reference" =>
              /\ RowOf(Needs(c)[n]) = Row(c, "reference")
              /\ (c.kind = "CHECKPOINT" /\ n = 2) \/ (c.kind = "ENTRY" /\ n = Len(Needs(c)))
         /\ Table(Needs(c)[n]) = "audit" =>
              /\ Scope(Needs(c)[n]) = c.experiment
              /\ \/ c.kind \in {"STOP", "COMPLETE"} /\ n = Len(Needs(c))
                 \/ c.kind = "AUDIT" /\ n = 1
         /\ Table(Needs(c)[n]) = "action" => c.kind \in {"APPLY", "COMPLETE"} /\ n = 1
<1>1. Table(Needs(c)[n]) \in Tables
  BY DEF LockFits, Tables
<1>2. ASSUME Table(Needs(c)[n]) = "experiment" PROVE Experimental(c, n)
  BY <1>2 DEF LockFits, Experimental
<1>3. ASSUME Table(Needs(c)[n]) = "quota" PROVE c.kind = "START" /\ n = Len(Needs(c))
  BY <1>3 DEF LockFits
<1>4. ASSUME Table(Needs(c)[n]) = "intake" PROVE c.kind = "ACCEPT" /\ n = 1
  BY <1>4 DEF LockFits
<1>5. ASSUME Table(Needs(c)[n]) = "scenario"
      PROVE  /\ Scope(Needs(c)[n]) = c.experiment
             /\ \/ c.kind \in {"ACCEPT", "APPLY"} /\ n = Len(Needs(c))
                \/ c.kind = "COMPLETE" /\ n = 3
                \/ c.kind = "CHECKPOINT" /\ n = 1
                \/ c.kind = "STOP" /\ n > 1
  BY <1>5 DEF LockFits
<1>6. ASSUME Table(Needs(c)[n]) = "reference"
      PROVE  /\ RowOf(Needs(c)[n]) = Row(c, "reference")
             /\ (c.kind = "CHECKPOINT" /\ n = 2) \/ (c.kind = "ENTRY" /\ n = Len(Needs(c)))
  BY <1>6 DEF LockFits
<1>7. ASSUME Table(Needs(c)[n]) = "audit"
      PROVE  /\ Scope(Needs(c)[n]) = c.experiment
             /\ \/ c.kind \in {"STOP", "COMPLETE"} /\ n = Len(Needs(c))
                \/ c.kind = "AUDIT" /\ n = 1
  BY <1>7 DEF LockFits
<1>8. ASSUME Table(Needs(c)[n]) = "action" PROVE c.kind \in {"APPLY", "COMPLETE"} /\ n = 1
  BY <1>8 DEF LockFits
<1> QED
  BY <1>1, <1>2, <1>3, <1>4, <1>5, <1>6, <1>7, <1>8

(* A jam: every call in flight waits for another, and none of the two known  *)
(* orders is crossed.                                                        *)
Crossed(c, d) == /\ c \in ExperimentLast /\ d \in ExperimentFirst
                 /\ WaitsFor(c, d) /\ WaitsFor(d, c)

Jam ==
  /\ WayInv /\ LocksInv /\ PoolInv
  /\ \A c \in Calls : InFlight(c) => pc[c] = "locking" /\ \E d \in Calls : WaitsFor(c, d)
  /\ \A c, d \in Calls : ~Crossed(c, d)

(* In a jam c waits for the n-th lock of d, which waits for a later one.     *)
Meets(c, d, n) ==
  /\ c # d /\ InFlight(d) /\ pc[d] = "locking" /\ WaitsFor(c, d)
  /\ n \in Nat /\ 1 <= n /\ n <= held[d] /\ held[d] < Len(Needs(d)) /\ n < Len(Needs(d))
  /\ Needs(d)[n] \in LocksOf(d) /\ LockFits(d, n)
  /\ RowOf(Needs(d)[n]) = RowOf(NextLock(c)) /\ Table(Needs(d)[n]) = Table(NextLock(c))
  /\ Conflicting(ModeOf(Needs(d)[n]), ModeOf(NextLock(c)))

LEMMA CallInJam ==
  ASSUME Jam, NEW c \in Calls, InFlight(c)
  PROVE  /\ pc[c] = "locking" /\ held[c] \in Nat /\ Len(Needs(c)) \in Nat
         /\ held[c] < Len(Needs(c)) /\ held[c] + 1 \in 1 .. Len(Needs(c))
         /\ LockFits(c, held[c] + 1) /\ NextLock(c) = Needs(c)[held[c] + 1]
<1>1. pc[c] = "locking" /\ held[c] \in Nat /\ Len(Needs(c)) \in Nat /\ held[c] < Len(Needs(c))
  BY NeedsLength DEF Jam, WayInv, Tabled, PoolInv, HeldFits, Acquiring
<1>2. held[c] + 1 \in 1 .. Len(Needs(c))
  BY <1>1
<1> QED BY <1>1, <1>2, LockKinds DEF NextLock

LEMMA WaitsInJam ==
  ASSUME Jam, NEW c \in Calls, InFlight(c)
  PROVE  \E d \in Calls : \E n \in Nat : Meets(c, d, n)
<1>1. PICK d \in Calls : WaitsFor(c, d)
  BY DEF Jam
<1>2. PICK n \in 1 .. held[d] : RowOf(Needs(d)[n]) = RowOf(NextLock(c))
                             /\ Conflicting(ModeOf(Needs(d)[n]), ModeOf(NextLock(c)))
  BY <1>1 DEF WaitsFor, LocksOf, RowOf, ModeOf
<1>3. InFlight(d) /\ held[d] \in Nat /\ n \in Nat
  <2>1. held[d] \in Nat /\ OnItsWay(d)
    BY DEF Jam, WayInv, Tabled
  <2> QED BY <1>2, <2>1 DEF OnItsWay
<1>4. pc[d] = "locking" /\ held[d] < Len(Needs(d)) /\ Len(Needs(d)) \in Nat
  BY <1>3, CallInJam
<1>5. n < Len(Needs(d)) /\ n \in 1 .. Len(Needs(d)) /\ 1 <= n /\ n <= held[d]
  BY <1>2, <1>3, <1>4
<1>6. LockFits(d, n) /\ Needs(d)[n] \in LocksOf(d)
  BY <1>2, <1>5, LockKinds DEF LocksOf
<1>7. Meets(c, d, n)
  BY <1>1, <1>2, <1>3, <1>4, <1>5, <1>6 DEF Meets, Table, RowOf, WaitsFor
<1> QED BY <1>3, <1>7

(* The table of the lock it waits for, of which another call holds a row,    *)
(* as what that call is and what this one is.                                *)
Wanted(c) == Table(NextLock(c))

LEMMA HolderTells ==
  ASSUME NEW c \in Calls, NEW d \in Calls, NEW n, Meets(c, d, n)
  PROVE  /\ Wanted(c) \in Tables \ {"quota"}
         /\ Wanted(c) = "experiment" =>
              /\ RowOf(NextLock(c)) = ExperimentRow(d)
              /\ Conflicting(ModeOf(Needs(d)[n]), ModeOf(NextLock(c)))
              /\ \/ ModeOf(Needs(d)[n]) = "UPDATE" /\ d.kind \in {"START", "STOP"} /\ n = 1
                 \/ ModeOf(Needs(d)[n]) = "UPDATE" /\ d.kind = "COMPLETE" /\ n = 2
                 \/ ModeOf(Needs(d)[n]) = "SHARE" /\ d.kind = "ACCEPT" /\ n = 2
         /\ Wanted(c) = "intake" => d.kind = "ACCEPT"
         /\ Wanted(c) = "scenario" =>
              \/ d.kind = "COMPLETE" /\ n = 3
              \/ d.kind = "CHECKPOINT" /\ n = 1
              \/ d.kind = "STOP" /\ n > 1
         /\ Wanted(c) = "reference" =>
              /\ RowOf(NextLock(c)) = Row(d, "reference")
              /\ d.kind = "CHECKPOINT" /\ n = 2
         /\ Wanted(c) = "audit" => d.kind = "AUDIT" /\ n = 1
         /\ Wanted(c) = "action" => d.kind \in {"APPLY", "COMPLETE"}
<1>1. /\ LockFits(d, n) /\ n \in Nat /\ n < Len(Needs(d)) /\ Table(Needs(d)[n]) = Wanted(c)
      /\ RowOf(Needs(d)[n]) = RowOf(NextLock(c))
      /\ Conflicting(ModeOf(Needs(d)[n]), ModeOf(NextLock(c)))
  BY DEF Meets, Wanted
<1>2. n # Len(Needs(d))
  <2> SUFFICES ASSUME n = Len(Needs(d)) PROVE FALSE
    OBVIOUS
  <2> QED BY <1>1
<1>3. Wanted(c) \in Tables /\ Wanted(c) # "quota"
  BY <1>1, <1>2, TableTells
<1>4. Wanted(c) = "experiment" => Experimental(d, n)
  BY <1>1, TableTells
<1>5. Wanted(c) = "experiment" =>
        /\ RowOf(NextLock(c)) = ExperimentRow(d)
        /\ Conflicting(ModeOf(Needs(d)[n]), ModeOf(NextLock(c)))
        /\ \/ ModeOf(Needs(d)[n]) = "UPDATE" /\ d.kind \in {"START", "STOP"} /\ n = 1
           \/ ModeOf(Needs(d)[n]) = "UPDATE" /\ d.kind = "COMPLETE" /\ n = 2
           \/ ModeOf(Needs(d)[n]) = "SHARE" /\ d.kind = "ACCEPT" /\ n = 2
  BY <1>1, <1>2, <1>4 DEF Experimental
<1>6. Wanted(c) = "scenario" =>
        \/ d.kind = "COMPLETE" /\ n = 3
        \/ d.kind = "CHECKPOINT" /\ n = 1
        \/ d.kind = "STOP" /\ n > 1
  BY <1>1, <1>2, TableTells
<1>7. /\ Wanted(c) = "intake" => d.kind = "ACCEPT"
      /\ Wanted(c) = "action" => d.kind \in {"APPLY", "COMPLETE"}
      /\ Wanted(c) = "audit" => d.kind = "AUDIT" /\ n = 1
  BY <1>1, <1>2, TableTells
<1>8. Wanted(c) = "reference" =>
        /\ RowOf(NextLock(c)) = Row(d, "reference")
        /\ d.kind = "CHECKPOINT" /\ n = 2
  BY <1>1, <1>2, TableTells
<1> QED BY <1>3, <1>5, <1>6, <1>7, <1>8

(* The quota is taken last.                                                  *)
LEMMA NoQuotaWait ==
  ASSUME Jam, NEW c \in Calls, InFlight(c)
  PROVE  Wanted(c) \in Tables \ {"quota"} /\ (c.kind = "START" => held[c] = 0)
<1>1. PICK d \in Calls, n \in Nat : Meets(c, d, n)
  BY WaitsInJam
<1>2. Wanted(c) \in Tables \ {"quota"}
  BY <1>1, HolderTells
<1>3. c.kind = "START" => held[c] = 0
  <2> SUFFICES ASSUME c.kind = "START", held[c] # 0 PROVE FALSE
    OBVIOUS
  <2>1. Len(Needs(c)) = 2 /\ Needs(c)[2] = Lock("UPDATE", <<"quota">>)
    BY DEF Needs, StartLocks
  <2>2. held[c] + 1 = 2 /\ NextLock(c) = Needs(c)[2]
    BY <2>1, CallInJam
  <2>3. Wanted(c) = "quota"
    BY <2>1, <2>2, LocksTaken DEF Wanted
  <2> QED BY <1>2, <2>3
<1> QED BY <1>2, <1>3

LEMMA CheckpointNeeds ==
  ASSUME NEW c \in Calls, c.kind = "CHECKPOINT"
  PROVE  /\ Len(Needs(c)) = 3 /\ Needs(c)[1] = Lock("UPDATE", Row(c, "scenario"))
         /\ Table(Needs(c)[2]) = "reference" /\ RowOf(Needs(c)[2]) = Row(c, "reference")
         /\ Needs(c)[3] = Lock("KEY SHARE", ExperimentRow(c))
<1>1. /\ Len(Needs(c)) = 3 /\ Needs(c)[1] = Lock("UPDATE", Row(c, "scenario"))
      /\ Needs(c)[2] = Lock("UPDATE", Row(c, "reference"))
      /\ Needs(c)[3] = Lock("KEY SHARE", ExperimentRow(c))
  BY DEF Needs, CheckpointLocks
<1> QED BY <1>1, LocksTaken DEF IsLockOf

(* A checkpoint with its scenario finds the reference free.                  *)
LEMMA NoHalfCheckpoint ==
  ASSUME Jam, NEW c \in Calls, InFlight(c), c.kind = "CHECKPOINT"
  PROVE  held[c] # 1
<1> SUFFICES ASSUME held[c] = 1 PROVE FALSE
  OBVIOUS
<1>1. PICK d \in Calls, n \in Nat : Meets(c, d, n)
  BY WaitsInJam
<1>2. NextLock(c) = Needs(c)[2]
  BY CallInJam
<1>3. Wanted(c) = "reference" /\ RowOf(NextLock(c)) = Row(c, "reference")
  BY <1>2, CheckpointNeeds DEF Wanted
<1>4. d.kind = "CHECKPOINT" /\ n = 2 /\ Row(c, "reference") = Row(d, "reference")
  BY <1>1, <1>3, HolderTells
<1>5. Row(c, "scenario") = Row(d, "scenario")
  BY <1>4 DEF Row
<1>6. held[c] >= 1 /\ held[d] >= 1 /\ held[d] \in Nat
  BY <1>1, <1>4 DEF Meets, Jam, WayInv, Tabled
<1>7. Needs(c)[1] \in LocksOf(c) /\ Needs(d)[1] \in LocksOf(d)
  BY <1>6, LockHeld DEF Jam
<1>8. Lock("UPDATE", Row(c, "scenario")) \in LocksOf(c) /\ Lock("UPDATE", Row(c, "scenario")) \in LocksOf(d)
  BY <1>4, <1>5, <1>7, CheckpointNeeds
<1>9. c = d
  BY <1>8, LockAlone DEF Jam
<1> QED BY <1>1, <1>9 DEF Meets

(* A call that has the experiment row for itself.                            *)
Excludes(c) == \/ c.kind = "STOP" /\ held[c] >= 1
               \/ c.kind = "COMPLETE" /\ held[c] >= 2

ExperimentLocked(c) == Lock("UPDATE", ExperimentRow(c)) \in LocksOf(c)

LEMMA ExcludesLocked ==
  ASSUME WayInv, NEW c \in Calls, Excludes(c), held[c] <= Len(Needs(c))
  PROVE  ExperimentLocked(c)
<1>1. held[c] \in Nat /\ Len(Needs(c)) \in Nat
  BY NeedsLength DEF WayInv, Tabled
<1>2. CASE c.kind = "COMPLETE" /\ held[c] >= 2
  <2>1. Needs(c)[2] = Lock("UPDATE", ExperimentRow(c))
    BY <1>2 DEF Needs, CompleteLocks
  <2> QED BY <1>2, <2>1, LockHeld DEF ExperimentLocked
<1>3. CASE c.kind = "STOP" /\ held[c] >= 1
  <2>1. Needs(c)[1] = Lock("UPDATE", ExperimentRow(c))
    BY <1>1, <1>3, StopFirst
  <2> QED BY <1>3, <2>1, LockHeld DEF ExperimentLocked
<1> QED BY <1>2, <1>3 DEF Excludes

(* Whoever needs the experiment row of such a call waits for it.             *)
LEMMA WaitsForExcluder ==
  ASSUME NEW c \in Calls, NEW d \in Calls, c # d, ExperimentLocked(d), pc[c] = "locking",
         RowOf(NextLock(c)) = ExperimentRow(d)
  PROVE  WaitsFor(c, d)
<1>1. /\ Lock("UPDATE", ExperimentRow(d)).mode = "UPDATE"
      /\ Lock("UPDATE", ExperimentRow(d)).row = NextLock(c).row
  BY DEF Lock, RowOf
<1> QED BY <1>1 DEF WaitsFor, ExperimentLocked, Conflicting

LEMMA ExcluderWants ==
  ASSUME Jam, NEW e \in Calls, InFlight(e), Excludes(e)
  PROVE  Wanted(e) \in {"scenario", "audit"} /\ Scope(NextLock(e)) = e.experiment
<1>1. /\ held[e] \in Nat /\ held[e] < Len(Needs(e)) /\ Len(Needs(e)) \in Nat
      /\ LockFits(e, held[e] + 1) /\ NextLock(e) = Needs(e)[held[e] + 1]
  BY CallInJam
<1>2. CASE e.kind = "COMPLETE" /\ held[e] >= 2
  <2>1. /\ Len(Needs(e)) = 4 /\ Needs(e)[3] = Lock("UPDATE", Row(e, "scenario"))
        /\ Needs(e)[4] = Lock("UPDATE", <<"audit", e.experiment>>)
    BY <1>2 DEF Needs, CompleteLocks
  <2>2. NextLock(e) = Needs(e)[3] \/ NextLock(e) = Needs(e)[4]
    BY <1>1, <1>2, <2>1
  <2> QED BY <2>1, <2>2, LocksTaken DEF IsLockOf, Wanted
<1>3. CASE e.kind = "STOP" /\ held[e] >= 1
  <2> DEFINE n == held[e] + 1
  <2>1. n > 1 /\ n \in 1 .. Len(Needs(e)) /\ NextLock(e) = Needs(e)[n]
    BY <1>1, <1>3
  <2> HIDE DEF n
  <2> QED BY <1>3, <2>1, StopLater DEF Wanted
<1> QED BY <1>2, <1>3 DEF Excludes

LEMMA NoExcluder ==
  ASSUME Jam, NEW e \in Calls, InFlight(e)
  PROVE  ~Excludes(e)
<1> SUFFICES ASSUME Excludes(e) PROVE FALSE
  OBVIOUS
<1>1. PICK d \in Calls, n \in Nat : Meets(e, d, n)
  BY WaitsInJam
<1>2. WayInv /\ LocksInv /\ held[e] <= Len(Needs(e)) /\ held[e] \in Nat /\ held[d] \in Nat
  BY <1>1, CallInJam DEF Jam, Meets
<1>3. ExperimentLocked(e)
  BY <1>2, ExcludesLocked
<1>4. Wanted(e) \in {"scenario", "audit"} /\ Scope(NextLock(e)) = e.experiment
  BY <1>2, ExcluderWants
<1>5. d.experiment = e.experiment /\ ExperimentRow(d) = ExperimentRow(e)
  <2>1. LockFits(d, n) /\ Table(Needs(d)[n]) = Wanted(e) /\ RowOf(Needs(d)[n]) = RowOf(NextLock(e))
    BY <1>1 DEF Meets, Wanted
  <2>2. Scope(Needs(d)[n]) = d.experiment
    BY <1>4, <2>1, TableTells
  <2>3. Scope(Needs(d)[n]) = Scope(NextLock(e))
    BY <2>1 DEF Scope, RowOf
  <2> QED BY <1>4, <2>2, <2>3 DEF ExperimentRow
<1>6. ~Excludes(d)
  <2> SUFFICES ASSUME Excludes(d) PROVE FALSE
    OBVIOUS
  <2>1. ExperimentLocked(d)
    <3>1. held[d] <= Len(Needs(d))
      BY <1>1, <1>2, CallInJam DEF Meets
    <3> QED BY <1>2, <3>1, ExcludesLocked
  <2>2. d = e
    BY <1>2, <1>3, <1>5, <2>1, LockAlone DEF ExperimentLocked
  <2> QED BY <1>1, <2>2 DEF Meets
<1>7. \/ d.kind = "CHECKPOINT" /\ held[d] = 2
      \/ d.kind = "AUDIT" /\ held[d] = 1
  <2>1. CASE Wanted(e) = "scenario"
    <3>1. \/ d.kind = "CHECKPOINT" /\ n = 1
          \/ d.kind = "COMPLETE" /\ n = 3
          \/ d.kind = "STOP" /\ n > 1
      BY <1>1, <2>1, HolderTells
    <3>2. d.kind = "CHECKPOINT" /\ held[d] >= 1
      BY <1>1, <1>2, <1>6, <3>1 DEF Meets, Excludes
    <3>3. held[d] # 1 /\ held[d] < 3
      BY <1>1, <3>2, NoHalfCheckpoint, CheckpointNeeds DEF Meets
    <3> QED BY <1>2, <3>2, <3>3
  <2>2. CASE Wanted(e) = "audit"
    <3>1. d.kind = "AUDIT" /\ n = 1
      BY <1>1, <2>2, HolderTells
    <3>2. Len(Needs(d)) = 2
      BY <3>1 DEF Needs, AuditLocks
    <3> QED BY <1>1, <1>2, <3>1, <3>2 DEF Meets
  <2> QED BY <1>4, <2>1, <2>2
<1>8. RowOf(NextLock(d)) = ExperimentRow(d)
  <2>1. CASE d.kind = "CHECKPOINT" /\ held[d] = 2
    <3>1. NextLock(d) = Needs(d)[3]
      BY <2>1 DEF NextLock
    <3> QED BY <2>1, <3>1, CheckpointNeeds, LockParts
  <2>2. CASE d.kind = "AUDIT" /\ held[d] = 1
    <3>1. Needs(d)[2] = Lock("KEY SHARE", ExperimentRow(d))
      BY <2>2 DEF Needs, AuditLocks
    <3>2. NextLock(d) = Needs(d)[2]
      BY <2>2 DEF NextLock
    <3> QED BY <3>1, <3>2, LockParts
  <2> QED BY <1>7, <2>1, <2>2
<1>9. WaitsFor(d, e)
  BY <1>1, <1>3, <1>5, <1>8, WaitsForExcluder DEF Meets
<1>10. d \in ExperimentLast /\ e \in ExperimentFirst
  BY <1>7 DEF Excludes, ExperimentLast, ExperimentFirst
<1> QED BY <1>1, <1>9, <1>10 DEF Jam, Crossed, Meets

(* What a call that holds some of its locks still wants.                     *)
LEMMA AcceptWants ==
  ASSUME Jam, NEW c \in Calls, InFlight(c), c.kind = "ACCEPT", held[c] >= 1
  PROVE  \/ held[c] = 1 /\ Wanted(c) = "experiment"
         \/ held[c] = 2 /\ Wanted(c) = "scenario"
<1>1. /\ Len(Needs(c)) = 3 /\ Needs(c)[2] = Lock("SHARE", ExperimentRow(c))
      /\ Needs(c)[3] = Lock("UPDATE", Row(c, "scenario"))
  BY DEF Needs, AcceptLocks
<1>2. \/ held[c] = 1 /\ NextLock(c) = Needs(c)[2]
      \/ held[c] = 2 /\ NextLock(c) = Needs(c)[3]
  BY <1>1, CallInJam
<1> QED BY <1>1, <1>2, LocksTaken DEF IsLockOf, IsExperimentLock, Wanted

LEMMA ApplyWants ==
  ASSUME Jam, NEW c \in Calls, InFlight(c), c.kind = "APPLY", held[c] >= 1
  PROVE  Wanted(c) = "scenario"
<1>1. Len(Needs(c)) = 2 /\ Needs(c)[2] = Lock("UPDATE", Row(c, "scenario"))
  BY DEF Needs, ApplyLocks
<1>2. NextLock(c) = Needs(c)[2]
  BY <1>1, CallInJam
<1> QED BY <1>1, <1>2, LocksTaken DEF IsLockOf, Wanted

LEMMA CompleteWants ==
  ASSUME Jam, NEW c \in Calls, InFlight(c), c.kind = "COMPLETE", held[c] = 1
  PROVE  Wanted(c) = "experiment"
<1>1. Needs(c)[2] = Lock("UPDATE", ExperimentRow(c))
  BY DEF Needs, CompleteLocks
<1>2. NextLock(c) = Needs(c)[2]
  BY <1>1, CallInJam
<1> QED BY <1>1, <1>2, LocksTaken DEF IsExperimentLock, Wanted

LEMMA AuditWants ==
  ASSUME Jam, NEW c \in Calls, InFlight(c), c.kind = "AUDIT", held[c] >= 1
  PROVE  Wanted(c) = "experiment"
<1>1. Len(Needs(c)) = 2 /\ Needs(c)[2] = Lock("KEY SHARE", ExperimentRow(c))
  BY DEF Needs, AuditLocks
<1>2. held[c] \in Nat /\ held[c] < 2
  BY <1>1, CallInJam
<1>3. held[c] = 1
  BY <1>2
<1>4. NextLock(c) = Needs(c)[2]
  BY <1>3, CallInJam
<1> QED BY <1>1, <1>4, LocksTaken DEF IsExperimentLock, Wanted

LEMMA CheckpointWants ==
  ASSUME Jam, NEW c \in Calls, InFlight(c), c.kind = "CHECKPOINT", held[c] >= 1
  PROVE  Wanted(c) = "experiment" /\ ModeOf(NextLock(c)) = "KEY SHARE"
<1>1. Len(Needs(c)) = 3 /\ Needs(c)[3] = Lock("KEY SHARE", ExperimentRow(c))
  BY CheckpointNeeds
<1>2. held[c] \in Nat /\ held[c] < 3 /\ held[c] # 1
  BY <1>1, CallInJam, NoHalfCheckpoint
<1>3. held[c] = 2
  BY <1>2
<1>4. NextLock(c) = Needs(c)[3]
  BY <1>3, CallInJam
<1> QED BY <1>1, <1>4, LocksTaken DEF IsExperimentLock, Wanted

(* Whoever has the experiment row for itself is through, so only a           *)
(* completion, a start or a stop waits for that row, for acceptances that    *)
(* share it.                                                                 *)
LEMMA OnlyWritersWait ==
  ASSUME Jam, NEW c \in Calls, NEW d \in Calls, NEW n, Meets(c, d, n), InFlight(c),
         Wanted(c) = "experiment"
  PROVE  d.kind = "ACCEPT" /\ n = 2 /\ ModeOf(NextLock(c)) = "UPDATE"
<1>1. n \in Nat /\ 1 <= n /\ n <= held[d] /\ InFlight(d) /\ held[d] \in Nat
  BY CallInJam DEF Meets
<1>2. /\ Conflicting(ModeOf(Needs(d)[n]), ModeOf(NextLock(c)))
      /\ \/ d.kind \in {"START", "STOP"} /\ n = 1
         \/ d.kind = "COMPLETE" /\ n = 2
         \/ ModeOf(Needs(d)[n]) = "SHARE" /\ d.kind = "ACCEPT" /\ n = 2
  BY HolderTells
<1>3. d.kind # "START"
  BY <1>1, NoQuotaWait
<1>4. ~(d.kind = "STOP" /\ n = 1) /\ ~(d.kind = "COMPLETE" /\ n = 2)
  BY <1>1, NoExcluder DEF Excludes
<1>5. ModeOf(Needs(d)[n]) = "SHARE" /\ d.kind = "ACCEPT" /\ n = 2
  BY <1>2, <1>3, <1>4
<1> QED BY <1>2, <1>5 DEF Conflicting

LEMMA NoCheckpointHolds ==
  ASSUME Jam, NEW c \in Calls, InFlight(c), c.kind = "CHECKPOINT"
  PROVE  ~(held[c] >= 1)
<1> SUFFICES ASSUME held[c] >= 1 PROVE FALSE
  OBVIOUS
<1>1. PICK d \in Calls, n \in Nat : Meets(c, d, n)
  BY WaitsInJam
<1>2. Wanted(c) = "experiment" /\ ModeOf(NextLock(c)) = "KEY SHARE"
  BY CheckpointWants
<1> QED BY <1>1, <1>2, OnlyWritersWait

(* So nobody waits for the row of a scenario,                                *)
LEMMA NoScenarioWait ==
  ASSUME Jam, NEW c \in Calls, InFlight(c)
  PROVE  Wanted(c) # "scenario"
<1> SUFFICES ASSUME Wanted(c) = "scenario" PROVE FALSE
  OBVIOUS
<1>1. PICK d \in Calls, n \in Nat : Meets(c, d, n)
  BY WaitsInJam
<1>2. n \in Nat /\ 1 <= n /\ n <= held[d] /\ InFlight(d) /\ held[d] \in Nat
  BY <1>1, CallInJam DEF Meets
<1>3. \/ d.kind = "COMPLETE" /\ n = 3
      \/ d.kind = "CHECKPOINT" /\ n = 1
      \/ d.kind = "STOP" /\ n > 1
  BY <1>1, HolderTells
<1>4. d.kind = "COMPLETE" /\ n = 3 => held[d] >= 2
  BY <1>2
<1>5. held[d] >= 1
  BY <1>2
<1> QED BY <1>2, <1>3, <1>4, <1>5, NoExcluder, NoCheckpointHolds DEF Excludes

(* nobody for the row of an experiment,                                      *)
LEMMA NoExperimentWait ==
  ASSUME Jam, NEW c \in Calls, InFlight(c)
  PROVE  Wanted(c) # "experiment"
<1> SUFFICES ASSUME Wanted(c) = "experiment" PROVE FALSE
  OBVIOUS
<1>1. PICK d \in Calls, n \in Nat : Meets(c, d, n)
  BY WaitsInJam
<1>2. InFlight(d) /\ held[d] \in Nat /\ n <= held[d]
  BY <1>1, CallInJam DEF Meets
<1>3. d.kind = "ACCEPT" /\ n = 2
  BY <1>1, OnlyWritersWait
<1>4. held[d] >= 1 /\ held[d] # 1
  BY <1>2, <1>3
<1> QED BY <1>2, <1>3, <1>4, AcceptWants, NoScenarioWait

(* and nobody for anything else.                                             *)
LEMMA NoJam ==
  ASSUME Jam, NEW c \in Calls, InFlight(c)
  PROVE  FALSE
<1>1. PICK d \in Calls, n \in Nat : Meets(c, d, n)
  BY WaitsInJam
<1>2. InFlight(d) /\ held[d] \in Nat /\ held[d] >= 1
  BY <1>1, CallInJam DEF Meets
<1>3. Wanted(c) \in {"intake", "reference", "audit", "action"}
  BY NoQuotaWait, NoScenarioWait, NoExperimentWait DEF Tables
<1>4. d.kind \in {"ACCEPT", "CHECKPOINT", "AUDIT", "APPLY", "COMPLETE"}
  BY <1>1, <1>3, HolderTells
<1>5. Wanted(d) # "experiment" /\ Wanted(d) # "scenario"
  BY <1>2, NoScenarioWait, NoExperimentWait
<1>6. d.kind = "COMPLETE" => held[d] = 1
  BY <1>2, NoExcluder DEF Excludes
<1> QED
  BY <1>2, <1>4, <1>5, <1>6, AcceptWants, ApplyWants, CompleteWants, AuditWants,
     NoCheckpointHolds

(* Calls that are all blocked, none of them for a connection, all acquire    *)
(* locks: the one that wrote its journal row waits for nothing.              *)
LEMMA BlockedAreJammed ==
  ASSUME WayInv, LocksInv, PoolInv,
         \A c \in Calls : InFlight(c) => Blocked(c) /\ ~WaitsForConnection(c),
         \A c, d \in Calls : ~Crossed(c, d)
  PROVE  Jam
<1>1. ASSUME NEW c \in Calls, InFlight(c), WaitsForHead(c) PROVE FALSE
  <2>1. PICK d \in Calls : pc[d] = "journaled"
    BY <1>1 DEF WaitsForHead
  <2>2. InFlight(d)
    BY <2>1 DEF InFlight, Over
  <2>3. ~WaitsForHead(d) /\ \A e \in Calls : ~WaitsFor(d, e)
    BY <2>1 DEF WaitsForHead, WaitsFor
  <2> QED BY <2>2, <2>3 DEF Blocked
<1>2. ASSUME NEW c \in Calls, InFlight(c)
      PROVE  pc[c] = "locking" /\ \E d \in Calls : WaitsFor(c, d)
  <2>1. Blocked(c) /\ ~WaitsForConnection(c) /\ ~WaitsForHead(c)
    BY <1>1, <1>2
  <2>2. PICK d \in Calls : WaitsFor(c, d)
    BY <2>1 DEF Blocked
  <2> QED BY <2>2 DEF WaitsFor
<1> QED BY <1>2 DEF Jam

LEMMA BlockedAreKnown ==
  ASSUME WayInv, LocksInv, PoolInv
  PROVE  OnlyKnownStalls
<1> SUFFICES ASSUME NEW c \in Calls, InFlight(c),
                    \A d \in Calls : InFlight(d) => Blocked(d) /\ ~WaitsForConnection(d),
                    \A d, e \in Calls : ~Crossed(d, e)
             PROVE  FALSE
  BY DEF OnlyKnownStalls, Crossed, ExperimentLast, ExperimentFirst
<1>1. Jam
  BY BlockedAreJammed
<1> QED BY <1>1, NoJam

(* However many calls, experiments and scenarios there are, transactions that *)
(* all wait for each other do so in a known way only: a correction that wants *)
(* a second connection from an empty pool, or a checkpoint or an audit record *)
(* and a stop or a completion that cross.  No longer circle of locks exists:  *)
(* the statements' order of SELECT ... FOR UPDATE.                            *)
THEOREM StallsAreKnown == Spec => []OnlyKnownStalls
<1>1. ControlInv => OnlyKnownStalls
  BY BlockedAreKnown DEF ControlInv
<1> QED
  BY <1>1, ControlInitially, ControlStep, PTL DEF Spec
=============================================================================
