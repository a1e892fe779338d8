------------------------- MODULE NodeServerProofs -------------------------
(***************************************************************************)
(* The node service keeps its types, and what the kubelet knows of a path  *)
(* is what is mounted there, as long as it never stops waiting for a call  *)
(* for that path, however many calls fail and however often the driver     *)
(* restarts.                                                               *)
(***************************************************************************)
EXTENDS NodeServer, TLAPS

(* The type invariant holds initially.                                      *)
LEMMA TypeInit == Init => TypeOK
  BY NodeAssumption DEF Init, TypeOK, Call, Idle, Ops, PCs

(* Every step of a handler, the kubelet or a restart preserves the types.   *)
LEMMA TypeNext == TypeOK /\ [Next]_vars => TypeOK'
<1> SUFFICES ASSUME TypeOK, [Next]_vars PROVE TypeOK'
  OBVIOUS
<1> USE NodeAssumption DEF TypeOK, Call, Ops, PCs, files, kubelet, At, Goto
<1>1. ASSUME NEW h \in Handlers, NEW p \in Paths \cup {None}, NodePublishVolume(h, p)
      PROVE  TypeOK'
  BY <1>1 DEF NodePublishVolume, Begin
<1>2. ASSUME NEW h \in Handlers, NEW p \in Paths \cup {None}, NodeUnpublishVolume(h, p)
      PROVE  TypeOK'
  BY <1>2 DEF NodeUnpublishVolume, Begin
<1>3. ASSUME NEW h \in Handlers, IsDirMounted(h) PROVE TypeOK'
  BY <1>3 DEF IsDirMounted
<1>4. ASSUME NEW h \in Handlers, MkdirAll(h) PROVE TypeOK'
  BY <1>4 DEF MkdirAll
<1>5. ASSUME NEW h \in Handlers, Mount(h) PROVE TypeOK'
  BY <1>5 DEF Mount, Fault
<1>6. ASSUME NEW h \in Handlers, UnmountPath(h) PROVE TypeOK'
  BY <1>6 DEF UnmountPath, Unmounted
<1>7. ASSUME NEW h \in Handlers, Unmount(h) PROVE TypeOK'
  BY <1>7 DEF Unmount, Unmounted
<1>8. ASSUME NEW h \in Handlers, CallFails(h) PROVE TypeOK'
  BY <1>8 DEF CallFails, Fault
<1>9. ASSUME NEW h \in Handlers, Reply(h) PROVE TypeOK'
  BY <1>9 DEF Reply, Idle
<1>10. ASSUME NEW h \in Handlers, StopWaiting(h) PROVE TypeOK'
  <2>1. [call[h] EXCEPT !.awaited = FALSE] \in Call
    OBVIOUS
  <2>2. /\ call' = [call EXCEPT ![h] = [call[h] EXCEPT !.awaited = FALSE]]
        /\ UNCHANGED <<dir, mounted, wanted, known>> /\ Fault("timeout")
    BY <1>10 DEF StopWaiting
  <2> HIDE DEF Call
  <2>3. call' \in [Handlers -> Call]
    BY <2>1, <2>2
  <2>4. \A g \in Handlers : call'[g].pc # "idle" => call'[g].path \in Paths
    BY <2>2 DEF Call
  <2>5. faults' \in 0..MaxFaults
    BY <2>2 DEF Fault
  <2> QED
    BY <2>2, <2>3, <2>4, <2>5
<1>11. ASSUME NEW p \in Paths, PodDeleted(p) \/ PathRemoved(p) PROVE TypeOK'
  BY <1>11 DEF PodDeleted, PathRemoved
<1>12. CASE Restart
  BY <1>12 DEF Restart, Fault, Idle
<1>13. CASE UNCHANGED vars
  BY <1>13 DEF vars
<1> QED
  BY <1>1, <1>2, <1>3, <1>4, <1>5, <1>6, <1>7, <1>8, <1>9, <1>10, <1>11,
     <1>12, <1>13 DEF Next, Step

(* The state of the node service keeps its types; in particular nothing is  *)
(* mounted where there is no directory.                                     *)
THEOREM NodeTypeCorrect == Spec => []TypeOK
  BY TypeInit, TypeNext, PTL DEF Spec

-----------------------------------------------------------------------------

Patient(p) == p \in Paths \ Impatient

(* Of a patient path there is at most one call, which the kubelet waits     *)
(* for, and of whose path it knows nothing while it waits.                  *)
OneCallPerPath ==
    /\ \A h \in Handlers : call[h].pc = "idle" => call[h].path = None
    /\ \A h \in Handlers : Patient(call[h].path) =>
          call[h].awaited /\ known[call[h].path] = "unknown"
    /\ \A g, h \in Handlers :
          Patient(call[g].path) /\ call[g].path = call[h].path => g = h

(* A handler that is about to report success has done what it reports.      *)
SuccessIsReal ==
    \A h \in Handlers : Patient(call[h].path) /\ call[h].pc = "ok" =>
        \/ call[h].op = "publish" /\ call[h].path \in mounted
        \/ call[h].op = "unpublish" /\ call[h].path \notin mounted

(* Handlers of either kind stay in their part of the code.                  *)
OwnCode ==
    \A h \in Handlers :
        /\ call[h].pc \in {"isMounted", "mkdir", "mount"} => call[h].op = "publish"
        /\ call[h].pc # "idle" => call[h].op \in {"publish", "unpublish"}

NodeInv == TypeOK /\ OneCallPerPath /\ SuccessIsReal /\ OwnCode /\ PatientCallsSafe

(* The inductive invariant holds initially.                                 *)
LEMMA NodeInit == Init => NodeInv
  BY TypeInit, NodeAssumption
     DEF Init, NodeInv, OneCallPerPath, SuccessIsReal, OwnCode, Idle, Patient,
         PatientCallsSafe, PublishedIsMounted, UnpublishedIsUnmounted

(* Every step of a handler, the kubelet or a restart preserves it.          *)
LEMMA NodeNext == NodeInv /\ [Next]_vars => NodeInv'
<1> SUFFICES ASSUME NodeInv, [Next]_vars PROVE NodeInv'
  OBVIOUS
<1>0. TypeOK /\ TypeOK'
  BY TypeNext DEF NodeInv
<1> DEFINE Rest == OneCallPerPath /\ SuccessIsReal /\ OwnCode /\ PatientCallsSafe
<1>a. Rest
  BY DEF NodeInv
<1> SUFFICES Rest'
  BY <1>0 DEF NodeInv
<1> HIDE DEF Rest
<1> USE <1>0, <1>a, NodeAssumption
        DEF TypeOK, Call, files, kubelet, At, Goto, OneCallPerPath, SuccessIsReal,
            OwnCode, PatientCallsSafe, PublishedIsMounted, UnpublishedIsUnmounted,
            Patient
<1>1. ASSUME NEW h \in Handlers, NEW p \in Paths \cup {None}, NodePublishVolume(h, p)
      PROVE  Rest'
  BY <1>1 DEF NodePublishVolume, Begin, NotWaitedFor, Rest
<1>2. ASSUME NEW h \in Handlers, NEW p \in Paths \cup {None}, NodeUnpublishVolume(h, p)
      PROVE  Rest'
  BY <1>2 DEF NodeUnpublishVolume, Begin, NotWaitedFor, Rest
<1>3. ASSUME NEW h \in Handlers, IsDirMounted(h) PROVE Rest'
  BY <1>3 DEF IsDirMounted, Rest
<1>4. ASSUME NEW h \in Handlers, MkdirAll(h) PROVE Rest'
  BY <1>4 DEF MkdirAll, Rest
<1>5. ASSUME NEW h \in Handlers, Mount(h) PROVE Rest'
  BY <1>5 DEF Mount, Rest
<1>6. ASSUME NEW h \in Handlers, UnmountPath(h) PROVE Rest'
  BY <1>6 DEF UnmountPath, Unmounted, Rest
<1>7. ASSUME NEW h \in Handlers, Unmount(h) PROVE Rest'
  BY <1>7 DEF Unmount, Unmounted, Rest
<1>8. ASSUME NEW h \in Handlers, CallFails(h) PROVE Rest'
  BY <1>8 DEF CallFails, Rest
<1>9. ASSUME NEW h \in Handlers, Reply(h) PROVE Rest'
  BY <1>9 DEF Reply, Idle, Rest
<1>10. ASSUME NEW h \in Handlers, StopWaiting(h) PROVE Rest'
  BY <1>10 DEF StopWaiting, Rest
<1>11. ASSUME NEW p \in Paths, PodDeleted(p) \/ PathRemoved(p) PROVE Rest'
  BY <1>11 DEF PodDeleted, PathRemoved, Rest
<1>12. CASE Restart
  BY <1>12 DEF Restart, Idle, Rest
<1>13. CASE UNCHANGED vars
  BY <1>13 DEF vars, Rest
<1> QED
  BY <1>1, <1>2, <1>3, <1>4, <1>5, <1>6, <1>7, <1>8, <1>9, <1>10, <1>11,
     <1>12, <1>13 DEF Next, Step

(* What the kubelet knows of a path is what is mounted there, after any     *)
(* number of failed calls and restarts, unless it stops waiting for a call  *)
(* of NodePublishVolume or NodeUnpublishVolume for this path.               *)
THEOREM PatientPathsAreSafe == Spec => []PatientCallsSafe
<1>1. NodeInv => PatientCallsSafe
  BY DEF NodeInv
<1> QED
  BY <1>1, NodeInit, NodeNext, PTL DEF Spec

=============================================================================
