-------------------------- MODULE UploadLockProofs --------------------------
(***************************************************************************)
(* Theorems of UploadLock, for any number of consumers, on POSIX and on    *)
(* Windows.                                                                *)
(***************************************************************************)
EXTENDS UploadLock, TLAPS

(* As long as no live creator's file was removed, whoever has passed the    *)
(* creation owns the file.                                                  *)
OwnersOwn ==
    ~broken => \A p \in Consumers : pc[p] \in {"fill", "held"} => file = p /\ ~left

(* A file that was not left behind has its creator in or before the held    *)
(* state.                                                                   *)
CreatorIsThere == file # Nobody /\ ~left => pc[file] \in {"fill", "held"}

(* Two that are in the code at once have met, and so has whoever has found  *)
(* a running owner, or another file where it removed one.                   *)
Meeting ==
    /\ \A p, q \in Consumers : p # q /\ pc[p] # "out" /\ pc[q] # "out" => p \in met
    /\ \A p \in Consumers : pc[p] = "probe" /\ seen[p] \in Consumers => p \in met
    /\ \A p \in Consumers : pc[p] = "recreate" /\ file # Nobody => p \in met

IInv == TypeOK /\ OwnersOwn /\ CreatorIsThere /\ Meeting /\ RefusedWithCause

LEMMA InitLock == Init => IInv
BY LockAssumption
   DEF Init, IInv, TypeOK, Steps, OwnersOwn, CreatorIsThere, Meeting, RefusedWithCause

(* Every step keeps the types,                                              *)
LEMMA StepTypes ==
    ASSUME TypeOK, [Next]_vars PROVE TypeOK'
<1> USE DEF TypeOK, Steps, Goes, Ends, Created, Unlinked
<1>1. ASSUME NEW p \in Consumers, Enter(p) PROVE TypeOK'
  BY <1>1 DEF Enter
<1>2. ASSUME NEW p \in Consumers, Create(p) PROVE TypeOK'
  BY <1>2 DEF Create
<1>3. ASSUME NEW p \in Consumers, Read(p) PROVE TypeOK'
  BY <1>3 DEF Read
<1>4. ASSUME NEW p \in Consumers, Probe(p) PROVE TypeOK'
  BY <1>4 DEF Probe
<1>5. ASSUME NEW p \in Consumers, Unlink(p) PROVE TypeOK'
  BY <1>5 DEF Unlink
<1>6. ASSUME NEW p \in Consumers, UnlinkRaises(p) PROVE TypeOK'
  BY <1>6 DEF UnlinkRaises
<1>7. ASSUME NEW p \in Consumers, Recreate(p) PROVE TypeOK'
  BY <1>7 DEF Recreate
<1>8. ASSUME NEW p \in Consumers, Refused(p) PROVE TypeOK'
  BY <1>8 DEF Refused
<1>9. ASSUME NEW p \in Consumers, Fill(p) PROVE TypeOK'
  BY <1>9 DEF Fill
<1>10. ASSUME NEW p \in Consumers, Exit(p) PROVE TypeOK'
  BY <1>10 DEF Exit
<1>11. ASSUME NEW p \in Consumers, Crash(p) PROVE TypeOK'
  BY <1>11 DEF Crash
<1>12. CASE UNCHANGED vars
  BY <1>12 DEF vars
<1> QED
  BY <1>1, <1>2, <1>3, <1>4, <1>5, <1>6, <1>7, <1>8, <1>9, <1>10, <1>11, <1>12
  DEF Next

(* ... the ownership,                                                       *)
LEMMA StepOwners ==
    ASSUME TypeOK, OwnersOwn, [Next]_vars PROVE OwnersOwn'
<1> USE LockAssumption DEF TypeOK, OwnersOwn, Goes, Ends, Created, Unlinked
<1>1. ASSUME NEW p \in Consumers, Enter(p) PROVE OwnersOwn'
  BY <1>1 DEF Enter
<1>2. ASSUME NEW p \in Consumers, Create(p) PROVE OwnersOwn'
  BY <1>2 DEF Create
<1>3. ASSUME NEW p \in Consumers, Read(p) PROVE OwnersOwn'
  BY <1>3 DEF Read
<1>4. ASSUME NEW p \in Consumers, Probe(p) PROVE OwnersOwn'
  BY <1>4 DEF Probe
<1>5. ASSUME NEW p \in Consumers, Unlink(p) PROVE OwnersOwn'
  BY <1>5 DEF Unlink
<1>6. ASSUME NEW p \in Consumers, UnlinkRaises(p) PROVE OwnersOwn'
  BY <1>6 DEF UnlinkRaises
<1>7. ASSUME NEW p \in Consumers, Recreate(p) PROVE OwnersOwn'
  BY <1>7 DEF Recreate
<1>8. ASSUME NEW p \in Consumers, Refused(p) PROVE OwnersOwn'
  BY <1>8 DEF Refused
<1>9. ASSUME NEW p \in Consumers, Fill(p) PROVE OwnersOwn'
  BY <1>9 DEF Fill
<1>10. ASSUME NEW p \in Consumers, Exit(p) PROVE OwnersOwn'
  BY <1>10 DEF Exit, OpenInFill
<1>11. ASSUME NEW p \in Consumers, Crash(p) PROVE OwnersOwn'
  BY <1>11 DEF Crash
<1>12. CASE UNCHANGED vars
  BY <1>12 DEF vars
<1> QED
  BY <1>1, <1>2, <1>3, <1>4, <1>5, <1>6, <1>7, <1>8, <1>9, <1>10, <1>11, <1>12
  DEF Next

(* ... the creator's presence,                                              *)
LEMMA StepCreator ==
    ASSUME TypeOK, CreatorIsThere, [Next]_vars PROVE CreatorIsThere'
<1> USE LockAssumption DEF TypeOK, CreatorIsThere, Goes, Ends, Created, Unlinked
<1>1. ASSUME NEW p \in Consumers, Enter(p) PROVE CreatorIsThere'
  BY <1>1 DEF Enter
<1>2. ASSUME NEW p \in Consumers, Create(p) PROVE CreatorIsThere'
  BY <1>2 DEF Create
<1>3. ASSUME NEW p \in Consumers, Read(p) PROVE CreatorIsThere'
  BY <1>3 DEF Read
<1>4. ASSUME NEW p \in Consumers, Probe(p) PROVE CreatorIsThere'
  BY <1>4 DEF Probe
<1>5. ASSUME NEW p \in Consumers, Unlink(p) PROVE CreatorIsThere'
  BY <1>5 DEF Unlink
<1>6. ASSUME NEW p \in Consumers, UnlinkRaises(p) PROVE CreatorIsThere'
  BY <1>6 DEF UnlinkRaises
<1>7. ASSUME NEW p \in Consumers, Recreate(p) PROVE CreatorIsThere'
  BY <1>7 DEF Recreate
<1>8. ASSUME NEW p \in Consumers, Refused(p) PROVE CreatorIsThere'
  BY <1>8 DEF Refused
<1>9. ASSUME NEW p \in Consumers, Fill(p) PROVE CreatorIsThere'
  BY <1>9 DEF Fill
<1>10. ASSUME NEW p \in Consumers, Exit(p) PROVE CreatorIsThere'
  BY <1>10 DEF Exit, OpenInFill
<1>11. ASSUME NEW p \in Consumers, Crash(p) PROVE CreatorIsThere'
  BY <1>11 DEF Crash
<1>12. CASE UNCHANGED vars
  BY <1>12 DEF vars
<1> QED
  BY <1>1, <1>2, <1>3, <1>4, <1>5, <1>6, <1>7, <1>8, <1>9, <1>10, <1>11, <1>12
  DEF Next

(* ... and what those know who meet.                                        *)
LEMMA StepMeeting ==
    ASSUME TypeOK, CreatorIsThere, Meeting, RefusedWithCause, [Next]_vars PROVE (Meeting /\ RefusedWithCause)'
<1> USE LockAssumption DEF TypeOK, Steps, Meeting, RefusedWithCause, Goes, Ends, Created, Unlinked
<1>1. ASSUME NEW p \in Consumers, Enter(p) PROVE (Meeting /\ RefusedWithCause)'
  BY <1>1 DEF Enter
<1>2. ASSUME NEW p \in Consumers, Create(p) PROVE (Meeting /\ RefusedWithCause)'
  BY <1>2 DEF Create
<1>3. ASSUME NEW p \in Consumers, Read(p) PROVE (Meeting /\ RefusedWithCause)'
  <2>1. file # Nobody /\ ~left => file # p /\ pc[file] # "out"
    BY <1>3 DEF Read, CreatorIsThere
  <2> QED
    BY <1>3, <2>1 DEF Read
<1>4. ASSUME NEW p \in Consumers, Probe(p) PROVE (Meeting /\ RefusedWithCause)'
  BY <1>4 DEF Probe
<1>5. ASSUME NEW p \in Consumers, Unlink(p) PROVE (Meeting /\ RefusedWithCause)'
  BY <1>5 DEF Unlink
<1>6. ASSUME NEW p \in Consumers, UnlinkRaises(p) PROVE (Meeting /\ RefusedWithCause)'
  BY <1>6 DEF UnlinkRaises
<1>7. ASSUME NEW p \in Consumers, Recreate(p) PROVE (Meeting /\ RefusedWithCause)'
  BY <1>7 DEF Recreate
<1>8. ASSUME NEW p \in Consumers, Refused(p) PROVE (Meeting /\ RefusedWithCause)'
  BY <1>8 DEF Refused
<1>9. ASSUME NEW p \in Consumers, Fill(p) PROVE (Meeting /\ RefusedWithCause)'
  BY <1>9 DEF Fill
<1>10. ASSUME NEW p \in Consumers, Exit(p) PROVE (Meeting /\ RefusedWithCause)'
  BY <1>10 DEF Exit
<1>11. ASSUME NEW p \in Consumers, Crash(p) PROVE (Meeting /\ RefusedWithCause)'
  BY <1>11 DEF Crash
<1>12. CASE UNCHANGED vars
  BY <1>12 DEF vars
<1> QED
  BY <1>1, <1>2, <1>3, <1>4, <1>5, <1>6, <1>7, <1>8, <1>9, <1>10, <1>11, <1>12
  DEF Next

(* The inductive invariant.                                                 *)
THEOREM LockInvariant == Spec => []IInv
<1>1. IInv /\ [Next]_vars => IInv'
  BY StepTypes, StepOwners, StepCreator, StepMeeting DEF IInv
<1> QED BY InitLock, <1>1, PTL DEF Spec

(* Two consumers run at once only after a live one's file was removed.      *)
THEOREM SingleConsumer == Spec => []SingleUnlessBroken
<1>1. IInv => SingleUnlessBroken
  BY DEF IInv, OwnersOwn, SingleUnlessBroken, SingleInstance
<1> QED BY LockInvariant, <1>1, PTL

(* A consumer is refused only if another one was there since it entered, or *)
(* if it found a dead one's pid in use again.                               *)
THEOREM RefusedForACause == Spec => []RefusedWithCause
<1>1. IInv => RefusedWithCause BY DEF IInv
<1> QED BY LockInvariant, <1>1, PTL
=============================================================================
