-------------------------- MODULE SignalGroup_proofs -------------------------
(***************************************************************************)
(* What holds of change_process_group.c and signal_process_group.c         *)
(* whichever calls fail and however long anybody sleeps.  GroupInv is the  *)
(* argument both share: the group is complete before process 3 opens the   *)
(* FIFO, and process 5 has no number to use before it has opened it too.   *)
(***************************************************************************)
EXTENDS SignalGroup, TLAPS

(* The program of assignment_7 itself: the variables are the same. *)
P7 == INSTANCE ProcessGroup

(* Where a process goes when it is through with the section. *)
Tails == {"sleep", "sigalrm", "sigusr1", "peek"}

(* A process that is not forked yet, or that has yet to fork its child. *)
Births ==
  /\ pc[0] \in {"unborn", "mmap", "fork"} => pc[1] = "unborn"
  /\ pc[0] \in {"unborn", "mmap", "fork", "fork2"} => pc[2] = "unborn"
  /\ pc[1] \in {"unborn", "fork"} => pc[5] = "unborn"
  /\ pc[2] \in {"unborn", "fork"} => pc[3] = "unborn"
  /\ pc[3] \in {"unborn", "fork"} => pc[4] = "unborn"
  /\ pc[3] \in {"setpgid_self", "setpgid_child"} => pc[4] # "unborn"

(* The groups before there is a new one. *)
OldGroup ==
  /\ \A p \in Procs : pc[p] = "unborn" \/ p \in 0 .. 2 => pgid[p] = 0
  /\ pc[3] \in {"unborn", "fork", "setpgid_self"} => pgid[3] = 0
  /\ pgid[3] # 5 /\ pgid[4] # 5

(* The group of process 3 has the members it is to have before 5 joins.    *)
Complete == pgid[3] = 3 /\ (pgid[4] = 3 \/ "setpgid_child" \in MayFail)

(* Once process 3 has come so far, or 5 has met it in opening the FIFO. *)
HandingOver ==
  \/ pc[3] \in {"access", "mkfifo", "creat", "creat_blocked", "write", "close"}
  \/ met
  \/ pc[5] \in {"read", "setpgid"}
  \/ pgid[5] = 3

NewGroupMade ==
  /\ pc[3] = "setpgid_child" => pgid[3] = 3
  /\ HandingOver => Complete

GroupInv(places) ==
  /\ GroupTypeOK(places)
  /\ Births
  /\ OldGroup
  /\ NewGroupMade

(* The number process 5 has is that of the group, once it has one, and     *)
(* process 3 has sent it.                                                  *)
Sent == pc[3] \in {"close", "sigusr1", "sleep", "exited"}

Told ==
  /\ pipe = 3 => Sent
  /\ pc[5] \in {"setpgid", "peek", "store"} => pgid_3 = 3 /\ Sent
  /\ pc[5] \in {"peek", "store"} => pgid[5] = 3
  /\ shared \in {Unset, TimedOut, 3}

(* Process 0 knows what it has waited for. *)
Checks ==
  /\ pc[0] \in {"cancel", "check"} => shared # Unset
  /\ pc[0] \in {"check", "kill", "munmap", "deref", "segfault"} => ~armed
  /\ pc[0] = "kill" => shared = 3
  /\ shared = 3 => pgid[5] = 3 /\ Sent /\ pc[5] \in {"sigusr1", "sleep", "exited"}

Signalled ==
  \A p \in Procs : usr1[p] # "none" =>
    /\ p \in {3, 4, 5}
    /\ pgid[5] = 3 /\ Sent /\ pc[5] \in {"sigusr1", "sleep", "exited"}

Places4 == pc[4] \in {"unborn", "sigusr1", "sleep", "exited"}

IInv ==
  /\ TypeOK
  /\ GroupInv(Places)
  /\ Places4
  /\ "read" \notin MayFail => Told /\ Checks /\ Signalled

-----------------------------------------------------------------------------
(* The section both programs share. *)
LEMMA SectionInv ==
  ASSUME NEW start \in {"mmap", "fork"}, NEW places, GroupPlaces \subseteq places,
         start \in places, SectionInit(start)
  PROVE  GroupInv(places)
<1> USE DEF SectionInit, Procs
<1>1. GroupTypeOK(places)
  BY DEF GroupTypeOK, GroupPlaces
<1>2. Births
  BY DEF Births
<1>3. OldGroup
  BY DEF OldGroup
<1>4. NewGroupMade
  BY DEF NewGroupMade, HandingOver
<1> QED
  BY <1>1, <1>2, <1>3, <1>4 DEF GroupInv

LEMMA GroupStep ==
  ASSUME NEW places, GroupPlaces \subseteq places,
         NEW next \in [Procs -> Tails \intersect places],
         GroupInv(places), Group(next)
  PROVE  GroupInv(places)'
<1> USE DEF GroupPlaces, GroupInv, GroupTypeOK, Procs, Goto, Tails
<1>1. CASE Forks(next)
  <2>1. GroupTypeOK(places)'
    BY <1>1 DEF Forks, Fork
  <2>2. Births'
    BY <1>1 DEF Forks, Fork, Births
  <2>3. OldGroup'
    BY <1>1 DEF Forks, Fork, Births, OldGroup, NewGroupMade
  <2>4. NewGroupMade'
    BY <1>1 DEF Forks, Fork, Births, OldGroup, NewGroupMade, HandingOver,
       Complete
  <2> QED
    BY <2>1, <2>2, <2>3, <2>4
<1>2. CASE NewGroup
  <2>1. GroupTypeOK(places)'
    BY <1>2 DEF NewGroup
  <2>2. Births'
    BY <1>2 DEF NewGroup, Births
  <2>3. OldGroup'
    BY <1>2 DEF NewGroup, Births, OldGroup, NewGroupMade
  <2>4. NewGroupMade'
    BY <1>2 DEF NewGroup, Births, OldGroup, NewGroupMade, HandingOver, Complete
  <2> QED
    BY <2>1, <2>2, <2>3, <2>4
<1>3. CASE MoveChild
  <2>1. GroupTypeOK(places)'
    BY <1>3 DEF MoveChild, OldGroup, NewGroupMade
  <2>2. Births'
    BY <1>3 DEF MoveChild, Births
  <2>3. OldGroup'
    BY <1>3 DEF MoveChild, Births, OldGroup, NewGroupMade
  <2>4. NewGroupMade'
    BY <1>3 DEF MoveChild, Births, OldGroup, NewGroupMade, HandingOver, Complete
  <2> QED
    BY <2>1, <2>2, <2>3, <2>4
<1>4. CASE Access \/ Mkfifo
  <2>1. GroupTypeOK(places)'
    BY <1>4 DEF Access, Mkfifo
  <2>2. Births'
    BY <1>4 DEF Access, Mkfifo, Births
  <2>3. OldGroup'
    BY <1>4 DEF Access, Mkfifo, Births, OldGroup, NewGroupMade
  <2>4. NewGroupMade'
    BY <1>4 DEF Access, Mkfifo, Births, OldGroup, NewGroupMade, HandingOver,
       Complete
  <2> QED
    BY <2>1, <2>2, <2>3, <2>4
<1>5. CASE ArriveWriter \/ ArriveReader
  <2>1. GroupTypeOK(places)'
    BY <1>5 DEF ArriveWriter, ArriveReader
  <2>2. Births'
    BY <1>5 DEF ArriveWriter, ArriveReader, Births
  <2>3. OldGroup'
    BY <1>5 DEF ArriveWriter, ArriveReader, Births, OldGroup, NewGroupMade
  <2>4. NewGroupMade'
    BY <1>5 DEF ArriveWriter, ArriveReader, Births, OldGroup, NewGroupMade,
       HandingOver, Complete
  <2> QED
    BY <2>1, <2>2, <2>3, <2>4
<1>6. CASE Opened
  <2>1. GroupTypeOK(places)'
    BY <1>6 DEF Opened
  <2>2. Births'
    BY <1>6 DEF Opened, Births
  <2>3. OldGroup'
    BY <1>6 DEF Opened, Births, OldGroup, NewGroupMade
  <2>4. NewGroupMade'
    BY <1>6 DEF Opened, Births, OldGroup, NewGroupMade, HandingOver, Complete
  <2> QED
    BY <2>1, <2>2, <2>3, <2>4
<1>7. CASE Write
  <2>1. GroupTypeOK(places)'
    BY <1>7 DEF Write, OldGroup, NewGroupMade, HandingOver, Complete
  <2>2. Births'
    BY <1>7 DEF Write, Births
  <2>3. OldGroup'
    BY <1>7 DEF Write, Births, OldGroup, NewGroupMade
  <2>4. NewGroupMade'
    BY <1>7 DEF Write, Births, OldGroup, NewGroupMade, HandingOver, Complete
  <2> QED
    BY <2>1, <2>2, <2>3, <2>4
<1>8. CASE Close(next)
  <2>1. GroupTypeOK(places)'
    BY <1>8 DEF Close
  <2>2. Births'
    BY <1>8 DEF Close, Births
  <2>3. OldGroup'
    BY <1>8 DEF Close, Births, OldGroup, NewGroupMade
  <2>4. NewGroupMade'
    BY <1>8 DEF Close, Births, OldGroup, NewGroupMade, HandingOver, Complete
  <2> QED
    BY <2>1, <2>2, <2>3, <2>4
<1>9. CASE Read \/ ReadFails
  <2>1. GroupTypeOK(places)'
    BY <1>9 DEF Read, ReadFails, Nothing, NoGroup, Zero
  <2>2. Births'
    BY <1>9 DEF Read, ReadFails, Nothing, NoGroup, Zero, Births
  <2>3. OldGroup'
    BY <1>9 DEF Read, ReadFails, Nothing, NoGroup, Zero, Births, OldGroup,
       NewGroupMade
  <2>4. NewGroupMade'
    BY <1>9 DEF Read, ReadFails, Nothing, NoGroup, Zero, Births, OldGroup,
       NewGroupMade, HandingOver, Complete
  <2> QED
    BY <2>1, <2>2, <2>3, <2>4
<1>10. CASE JoinGroup(next)
  <2>1. GroupTypeOK(places)'
    BY <1>10 DEF JoinGroup, GroupExists, Member, Nothing, NoGroup, Zero
  <2>2. Births'
    BY <1>10 DEF JoinGroup, GroupExists, Member, Nothing, NoGroup, Zero, Births
  <2>3. OldGroup'
    BY <1>10 DEF JoinGroup, GroupExists, Member, Nothing, NoGroup, Zero, Births,
       OldGroup, NewGroupMade
  <2>4. NewGroupMade'
    BY <1>10 DEF JoinGroup, GroupExists, Member, Nothing, NoGroup, Zero, Births,
       OldGroup, NewGroupMade, HandingOver, Complete
  <2> QED
    BY <2>1, <2>2, <2>3, <2>4
<1>11. ASSUME NEW p \in Procs, SleepEnds(p) \/ CallFails(p) PROVE GroupInv(places)'
  <2>1. GroupTypeOK(places)'
    BY <1>11 DEF SleepEnds, CallFails
  <2>2. Births'
    <3>1. pc[p] # "unborn"
      BY <1>11, SignalAssumption DEF SleepEnds, CallFails, FatalCall,
         SignalCalls, Calls
    <3> QED
      BY <1>11, <3>1 DEF SleepEnds, CallFails, Births
  <2>3. OldGroup'
    BY <1>11 DEF SleepEnds, CallFails, Births, OldGroup, NewGroupMade
  <2>4. NewGroupMade'
    BY <1>11 DEF SleepEnds, CallFails, Births, OldGroup, NewGroupMade,
       HandingOver, Complete
  <2> QED
    BY <2>1, <2>2, <2>3, <2>4
<1> QED
  BY <1>1, <1>2, <1>3, <1>4, <1>5, <1>6, <1>7, <1>8, <1>9, <1>10, <1>11 DEF
     Group

-----------------------------------------------------------------------------
(* change_process_group.c *)
LEMMA P7Init == P7!Init => GroupInv(GroupPlaces)
  BY SectionInv DEF P7!Init, P7!SectionInit, SectionInit, P7!Procs, Procs,
     P7!Nothing, Nothing, GroupPlaces

LEMMA P7Group == P7!Next <=> Group(P7!ThenSleep)
  BY DEF P7!Next, P7!Group, Group, P7!Procs, P7!Goto, P7!Forks, P7!Fork,
     P7!NewGroup, P7!MoveChild, P7!Access, P7!Mkfifo, P7!ArriveWriter,
     P7!ArriveReader, P7!Opened, P7!Write, P7!Close, P7!Read, P7!ReadFails,
     P7!JoinGroup, P7!GroupExists, P7!Member, P7!Alive, P7!Parent, P7!SleepEnds,
     P7!CallFails, P7!FatalCall, P7!Nothing, P7!NoGroup, P7!Zero, Procs, Goto,
     Forks, Fork, NewGroup, MoveChild, Access, Mkfifo, ArriveWriter,
     ArriveReader, Opened, Write, Close, Read, ReadFails, JoinGroup,
     GroupExists, Member, Alive, Parent, SleepEnds, CallFails, FatalCall,
     Nothing, NoGroup, Zero

LEMMA P7Next == GroupInv(GroupPlaces) /\ [P7!Next]_(P7!groupVars) => GroupInv(GroupPlaces)'
<1>1. P7!ThenSleep \in [Procs -> Tails \intersect GroupPlaces]
  BY DEF P7!ThenSleep, P7!Procs, Procs, Tails, GroupPlaces
<1>2. CASE P7!Next
  BY <1>1, <1>2, P7Group, GroupStep
<1>3. CASE UNCHANGED P7!groupVars
  BY <1>3 DEF P7!groupVars, GroupInv, GroupTypeOK, Births, OldGroup,
     NewGroupMade, HandingOver, Complete
<1> QED
  BY <1>2, <1>3

(* The program of assignment_7: whichever calls fail and however long the  *)
(* others sleep, process 5 joins a group that process 3 leads and its      *)
(* child 4 is in, unless the call that moves it failed.                    *)
THEOREM JoinsGroup == P7!Spec => []("setpgid_child" \in MayFail \/ JoinsCompleteGroup)
<1>1. GroupInv(GroupPlaces) => "setpgid_child" \in MayFail \/ JoinsCompleteGroup
  BY DEF GroupInv, NewGroupMade, HandingOver, Complete, JoinsCompleteGroup
<1> QED
  BY <1>1, P7Init, P7Next, PTL DEF P7!Spec

-----------------------------------------------------------------------------
(* signal_process_group.c *)
Known == Told /\ Checks /\ Signalled

LEMMA ThenIs ==
  /\ Then \in [Procs -> Tails \intersect Places]
  /\ Then[0] = "sigalrm" /\ Then[3] = "sigusr1" /\ Then[4] = "sigusr1" /\ Then[5] = "peek"
<1> DEFINE F(p) == CASE p = 0 -> "sigalrm"
                     [] p \in {1, 2} -> "sleep"
                     [] p \in {3, 4} -> "sigusr1"
                     [] p = 5 -> "peek"
<1>1. /\ F(0) = "sigalrm" /\ F(1) = "sleep" /\ F(2) = "sleep"
      /\ F(3) = "sigusr1" /\ F(4) = "sigusr1" /\ F(5) = "peek"
  OBVIOUS
<1>2. Then = [p \in Procs |-> F(p)]
  BY DEF Then
<1> HIDE DEF F
<1> QED
  BY <1>1, <1>2 DEF Procs, Tails, Places, GroupPlaces

LEMMA InitInv == Init => IInv
<1> SUFFICES ASSUME Init PROVE IInv
  OBVIOUS
<1>1. GroupInv(Places)
  BY SectionInv DEF Init, Places, GroupPlaces
<1>2. TypeOK
  BY <1>1 DEF Init, TypeOK, GroupInv
<1>3. Places4 /\ Known
  BY DEF Init, SectionInit, Procs, Places4, Known, Told, Checks, Signalled,
     Unset, Nothing
<1> QED
  BY <1>1, <1>2, <1>3 DEF IInv, Known

LEMMA GroupKnown ==
  ASSUME IInv, "read" \notin MayFail, Group(Then), UNCHANGED ownVars
  PROVE  Known'
<1> USE ThenIs DEF IInv, TypeOK, GroupInv, GroupTypeOK, Procs, Goto, ownVars,
   Known, Sent, Unset, TimedOut, Nothing, NoGroup, Zero, OldGroup, Births
<1>1. CASE Forks(Then)
  <2>1. Told'
    BY <1>1 DEF Forks, Fork, Told
  <2>2. Checks'
    BY <1>1 DEF Forks, Fork, Told, Checks
  <2>3. Signalled'
    BY <1>1 DEF Forks, Fork, Told, Signalled
  <2> QED
    BY <2>1, <2>2, <2>3
<1>2. CASE NewGroup
  <2>1. Told'
    BY <1>2 DEF NewGroup, Told
  <2>2. Checks'
    BY <1>2 DEF NewGroup, Told, Checks
  <2>3. Signalled'
    BY <1>2 DEF NewGroup, Told, Signalled
  <2> QED
    BY <2>1, <2>2, <2>3
<1>3. CASE MoveChild
  <2>1. Told'
    BY <1>3 DEF MoveChild, Told
  <2>2. Checks'
    BY <1>3 DEF MoveChild, Told, Checks
  <2>3. Signalled'
    BY <1>3 DEF MoveChild, Told, Signalled
  <2> QED
    BY <2>1, <2>2, <2>3
<1>4. CASE Access \/ Mkfifo
  <2>1. Told'
    BY <1>4 DEF Access, Mkfifo, Told
  <2>2. Checks'
    BY <1>4 DEF Access, Mkfifo, Told, Checks
  <2>3. Signalled'
    BY <1>4 DEF Access, Mkfifo, Told, Signalled
  <2> QED
    BY <2>1, <2>2, <2>3
<1>5. CASE ArriveWriter \/ ArriveReader
  <2>1. Told'
    BY <1>5 DEF ArriveWriter, ArriveReader, Told
  <2>2. Checks'
    BY <1>5 DEF ArriveWriter, ArriveReader, Told, Checks
  <2>3. Signalled'
    BY <1>5 DEF ArriveWriter, ArriveReader, Told, Signalled
  <2> QED
    BY <2>1, <2>2, <2>3
<1>6. CASE Opened
  <2>1. Told'
    BY <1>6 DEF Opened, Told
  <2>2. Checks'
    BY <1>6 DEF Opened, Told, Checks
  <2>3. Signalled'
    BY <1>6 DEF Opened, Told, Signalled
  <2> QED
    BY <2>1, <2>2, <2>3
<1>7. CASE Write
  <2>1. Told'
    BY <1>7 DEF Write, Told
  <2>2. Checks'
    BY <1>7 DEF Write, Told, Checks
  <2>3. Signalled'
    BY <1>7 DEF Write, Told, Signalled
  <2> QED
    BY <2>1, <2>2, <2>3
<1>8. CASE Close(Then)
  <2>1. Told'
    BY <1>8 DEF Close, Told
  <2>2. Checks'
    BY <1>8 DEF Close, Told, Checks
  <2>3. Signalled'
    BY <1>8 DEF Close, Told, Signalled
  <2> QED
    BY <2>1, <2>2, <2>3
<1>9. CASE Read
  <2>1. Told'
    BY <1>9 DEF Read, Told
  <2>2. Checks'
    BY <1>9 DEF Read, Told, Checks
  <2>3. Signalled'
    BY <1>9 DEF Read, Told, Signalled
  <2> QED
    BY <2>1, <2>2, <2>3
<1>10. CASE ReadFails
  BY <1>10 DEF ReadFails
<1>11. CASE JoinGroup(Then)
  <2>1. Told'
    BY <1>11 DEF JoinGroup, Told
  <2>2. Checks'
    BY <1>11 DEF JoinGroup, Told, Checks
  <2>3. Signalled'
    BY <1>11 DEF JoinGroup, Told, Signalled
  <2> QED
    BY <2>1, <2>2, <2>3
<1>12. ASSUME NEW p \in Procs, SleepEnds(p) \/ CallFails(p) PROVE Known'
  <2>1. Told'
    BY <1>12 DEF SleepEnds, CallFails, Told
  <2>2. Checks'
    BY <1>12 DEF SleepEnds, CallFails, Told, Checks
  <2>3. Signalled'
    BY <1>12 DEF SleepEnds, CallFails, Told, Signalled
  <2> QED
    BY <2>1, <2>2, <2>3
<1> QED
  BY <1>1, <1>2, <1>3, <1>4, <1>5, <1>6, <1>7, <1>8, <1>9, <1>10, <1>11, <1>12
     DEF Group

(* Steps of process 0 and of the alarm, and those of the others that the   *)
(* program of assignment_7 does not have.                                  *)
OwnStep ==
  \/ Process0
  \/ Process5
  \/ \E p \in {3, 4, 5} : CatchUsr1(p)
  \/ \E p \in Procs : Deliver(p) \/ OwnCallFails(p)

LEMMA NextCases == Next <=> (Group(Then) /\ UNCHANGED ownVars) \/ OwnStep
  BY DEF Next, OwnStep

LEMMA OwnKeepsGroup ==
  ASSUME IInv, OwnStep
  PROVE  GroupInv(Places)' /\ Places4'
<1> USE DEF IInv, TypeOK, GroupInv, GroupTypeOK, Procs, Goto, Step, Places4
<1>1. CASE Mmap \/ CatchAlarm \/ SetAlarm
  <2>1. GroupTypeOK(Places)' /\ Places4'
    BY <1>1 DEF Mmap, CatchAlarm, SetAlarm, Places, GroupPlaces
  <2>2. Births'
    BY <1>1 DEF Mmap, CatchAlarm, SetAlarm, Births
  <2>3. OldGroup'
    BY <1>1 DEF Mmap, CatchAlarm, SetAlarm, OldGroup
  <2>4. NewGroupMade'
    BY <1>1 DEF Mmap, CatchAlarm, SetAlarm, NewGroupMade, HandingOver, Complete
  <2> QED
    BY <2>1, <2>2, <2>3, <2>4
<1>2. CASE sig_alrm
  <2>1. GroupTypeOK(Places)' /\ Places4'
    BY <1>2 DEF sig_alrm, groupVars, Places, GroupPlaces
  <2>2. Births'
    BY <1>2 DEF sig_alrm, groupVars, Births
  <2>3. OldGroup'
    BY <1>2 DEF sig_alrm, groupVars, OldGroup
  <2>4. NewGroupMade'
    BY <1>2 DEF sig_alrm, groupVars, NewGroupMade, HandingOver, Complete
  <2> QED
    BY <2>1, <2>2, <2>3, <2>4
<1>3. CASE SpinEnds \/ SpinsForEver \/ CancelAlarm
  <2>1. GroupTypeOK(Places)' /\ Places4'
    BY <1>3 DEF SpinEnds, SpinsForEver, CancelAlarm, Places, GroupPlaces
  <2>2. Births'
    BY <1>3 DEF SpinEnds, SpinsForEver, CancelAlarm, Births
  <2>3. OldGroup'
    BY <1>3 DEF SpinEnds, SpinsForEver, CancelAlarm, OldGroup
  <2>4. NewGroupMade'
    BY <1>3 DEF SpinEnds, SpinsForEver, CancelAlarm, NewGroupMade, HandingOver,
       Complete
  <2> QED
    BY <2>1, <2>2, <2>3, <2>4
<1>4. CASE Check \/ Kill
  <2>1. GroupTypeOK(Places)' /\ Places4'
    BY <1>4 DEF Check, Kill, Places, GroupPlaces
  <2>2. Births'
    BY <1>4 DEF Check, Kill, Births
  <2>3. OldGroup'
    BY <1>4 DEF Check, Kill, OldGroup
  <2>4. NewGroupMade'
    BY <1>4 DEF Check, Kill, NewGroupMade, HandingOver, Complete
  <2> QED
    BY <2>1, <2>2, <2>3, <2>4
<1>5. CASE Munmap \/ Deref \/ Reap
  <2>1. GroupTypeOK(Places)' /\ Places4'
    BY <1>5 DEF Munmap, Deref, Reap, Places, GroupPlaces
  <2>2. Births'
    BY <1>5 DEF Munmap, Deref, Reap, Births
  <2>3. OldGroup'
    BY <1>5 DEF Munmap, Deref, Reap, OldGroup
  <2>4. NewGroupMade'
    BY <1>5 DEF Munmap, Deref, Reap, NewGroupMade, HandingOver, Complete
  <2> QED
    BY <2>1, <2>2, <2>3, <2>4
<1>6. CASE Process5
  <2>1. GroupTypeOK(Places)' /\ Places4'
    BY <1>6 DEF Process5, Peek, Store, Places, GroupPlaces
  <2>2. Births'
    BY <1>6 DEF Process5, Peek, Store, Births
  <2>3. OldGroup'
    BY <1>6 DEF Process5, Peek, Store, OldGroup
  <2>4. NewGroupMade'
    BY <1>6 DEF Process5, Peek, Store, NewGroupMade, HandingOver, Complete
  <2> QED
    BY <2>1, <2>2, <2>3, <2>4
<1>7. ASSUME NEW p \in {3, 4, 5}, CatchUsr1(p) PROVE GroupInv(Places)' /\ Places4'
  <2>1. GroupTypeOK(Places)' /\ Places4'
    BY <1>7 DEF CatchUsr1, Places, GroupPlaces
  <2>2. Births'
    BY <1>7 DEF CatchUsr1, Births
  <2>3. OldGroup'
    BY <1>7 DEF CatchUsr1, OldGroup
  <2>4. NewGroupMade'
    BY <1>7 DEF CatchUsr1, NewGroupMade, HandingOver, Complete
  <2> QED
    BY <2>1, <2>2, <2>3, <2>4
<1>8. ASSUME NEW p \in Procs, Deliver(p) PROVE GroupInv(Places)' /\ Places4'
  <2>1. GroupTypeOK(Places)' /\ Places4'
    BY <1>8 DEF Deliver, Alive, Places, GroupPlaces
  <2>2. Births'
    BY <1>8 DEF Deliver, Alive, Births
  <2>3. OldGroup'
    BY <1>8 DEF Deliver, Alive, OldGroup
  <2>4. NewGroupMade'
    BY <1>8 DEF Deliver, Alive, NewGroupMade, HandingOver, Complete
  <2> QED
    BY <2>1, <2>2, <2>3, <2>4
<1>9. ASSUME NEW p \in Procs, OwnCallFails(p) PROVE GroupInv(Places)' /\ Places4'
  <2>1. pc[p] # "unborn"
    BY <1>9, SignalAssumption DEF OwnCallFails, OwnCall, SignalCalls, Calls
  <2>2. GroupTypeOK(Places)' /\ Places4'
    BY <1>9 DEF OwnCallFails, Places, GroupPlaces
  <2>3. Births'
    BY <1>9, <2>1 DEF OwnCallFails, Births
  <2>4. OldGroup'
    BY <1>9, <2>1 DEF OwnCallFails, OldGroup
  <2>5. NewGroupMade'
    BY <1>9 DEF OwnCallFails, NewGroupMade, HandingOver, Complete
  <2> QED
    BY <2>2, <2>3, <2>4, <2>5
<1> QED
  BY <1>1, <1>2, <1>3, <1>4, <1>5, <1>6, <1>7, <1>8, <1>9 DEF OwnStep, Process0

LEMMA OwnKnown ==
  ASSUME IInv, "read" \notin MayFail, OwnStep
  PROVE  Known'
<1> USE DEF IInv, TypeOK, GroupInv, GroupTypeOK, Procs, Goto, Step, Known, Sent,
     Unset, TimedOut, Nothing, NoGroup, Zero
<1>1. CASE Mmap \/ CatchAlarm \/ SetAlarm
  <2>1. Told'
    BY <1>1 DEF Mmap, CatchAlarm, SetAlarm, ownVars, Told
  <2>2. Checks'
    BY <1>1 DEF Mmap, CatchAlarm, SetAlarm, ownVars, Told, Checks
  <2>3. Signalled'
    BY <1>1 DEF Mmap, CatchAlarm, SetAlarm, ownVars, Told, Checks, Signalled
  <2> QED
    BY <2>1, <2>2, <2>3
<1>2. CASE sig_alrm
  <2>1. Told'
    BY <1>2 DEF sig_alrm, groupVars, ownVars, Told
  <2>2. Checks'
    BY <1>2 DEF sig_alrm, groupVars, ownVars, Told, Checks
  <2>3. Signalled'
    BY <1>2 DEF sig_alrm, groupVars, ownVars, Told, Checks, Signalled
  <2> QED
    BY <2>1, <2>2, <2>3
<1>3. CASE SpinEnds \/ SpinsForEver \/ CancelAlarm
  <2>1. Told'
    BY <1>3 DEF SpinEnds, SpinsForEver, CancelAlarm, ownVars, Told
  <2>2. Checks'
    BY <1>3 DEF SpinEnds, SpinsForEver, CancelAlarm, ownVars, Told, Checks
  <2>3. Signalled'
    BY <1>3 DEF SpinEnds, SpinsForEver, CancelAlarm, ownVars, Told, Checks,
       Signalled
  <2> QED
    BY <2>1, <2>2, <2>3
<1>4. CASE Check \/ Kill
  <2>1. Told'
    BY <1>4 DEF Check, Kill, ownVars, Told
  <2>2. Checks'
    BY <1>4 DEF Check, Kill, ownVars, Told, Checks
  <2>3. Signalled'
    BY <1>4 DEF Check, Kill, ownVars, Told, Checks, Signalled, OldGroup, Target,
       Alive
  <2> QED
    BY <2>1, <2>2, <2>3
<1>5. CASE Munmap \/ Deref \/ Reap
  <2>1. Told'
    BY <1>5 DEF Munmap, Deref, Reap, ownVars, Told
  <2>2. Checks'
    BY <1>5 DEF Munmap, Deref, Reap, ownVars, Told, Checks
  <2>3. Signalled'
    BY <1>5 DEF Munmap, Deref, Reap, ownVars, Told, Checks, Signalled
  <2> QED
    BY <2>1, <2>2, <2>3
<1>6. CASE Process5
  <2>1. Told'
    BY <1>6 DEF Process5, Peek, Store, ownVars, Told
  <2>2. Checks'
    BY <1>6 DEF Process5, Peek, Store, ownVars, Told, Checks
  <2>3. Signalled'
    BY <1>6 DEF Process5, Peek, Store, ownVars, Told, Checks, Signalled
  <2> QED
    BY <2>1, <2>2, <2>3
<1>7. ASSUME NEW p \in {3, 4, 5}, CatchUsr1(p) PROVE Known'
  <2>1. Told'
    BY <1>7 DEF CatchUsr1, ownVars, Told
  <2>2. Checks'
    BY <1>7 DEF CatchUsr1, ownVars, Told, Checks
  <2>3. Signalled'
    BY <1>7 DEF CatchUsr1, ownVars, Told, Checks, Signalled
  <2> QED
    BY <2>1, <2>2, <2>3
<1>8. ASSUME NEW p \in Procs, Deliver(p) PROVE Known'
  <2>1. Told'
    BY <1>8 DEF Deliver, Alive, ownVars, Told
  <2>2. Checks'
    BY <1>8 DEF Deliver, Alive, ownVars, Told, Checks
  <2>3. Signalled'
    BY <1>8 DEF Deliver, Alive, ownVars, Told, Checks, Signalled
  <2> QED
    BY <2>1, <2>2, <2>3
<1>9. ASSUME NEW p \in Procs, OwnCallFails(p) PROVE Known'
  <2>1. Told'
    BY <1>9 DEF OwnCallFails, ownVars, Told
  <2>2. Checks'
    BY <1>9 DEF OwnCallFails, ownVars, Told, Checks
  <2>3. Signalled'
    BY <1>9 DEF OwnCallFails, ownVars, Told, Checks, Signalled
  <2> QED
    BY <2>1, <2>2, <2>3
<1> QED
  BY <1>1, <1>2, <1>3, <1>4, <1>5, <1>6, <1>7, <1>8, <1>9 DEF OwnStep, Process0

(* What the steps leave of the types of the variables of this program. *)
LEMMA OwnTypes == IInv /\ [Next]_vars => TypeOK'
<1> SUFFICES ASSUME IInv, [Next]_vars PROVE TypeOK'
  OBVIOUS
<1>1. CASE Group(Then) /\ UNCHANGED ownVars
  <2>1. GroupInv(Places)'
    BY <1>1, GroupStep, ThenIs DEF IInv, Places
  <2> QED
    BY <1>1, <2>1 DEF GroupInv, IInv, TypeOK, ownVars
<1>2. CASE OwnStep
  <2>1. GroupTypeOK(Places)'
    BY <1>2, OwnKeepsGroup DEF GroupInv
  <2> USE DEF IInv, TypeOK, GroupTypeOK, ownVars, Unset, TimedOut, Zero,
     Nothing, NoGroup
  <2>2. CASE Process0
    BY <1>2, <2>1, <2>2 DEF Process0, Mmap, CatchAlarm, SetAlarm, sig_alrm,
       SpinEnds, SpinsForEver, CancelAlarm, Check, Kill, Munmap, Deref, Reap
  <2>3. CASE Process5
    BY <2>1, <2>3 DEF Process5, Peek, Store
  <2>4. ASSUME NEW p \in Procs,
               (p \in {3, 4, 5} /\ CatchUsr1(p)) \/ Deliver(p) \/ OwnCallFails(p)
        PROVE  TypeOK'
    BY <2>1, <2>4 DEF CatchUsr1, Deliver, OwnCallFails
  <2> QED
    BY <1>2, <2>2, <2>3, <2>4 DEF OwnStep, Procs
<1>3. CASE UNCHANGED vars
  BY <1>3 DEF vars, groupVars, ownVars, IInv, TypeOK, GroupTypeOK
<1> QED
  BY <1>1, <1>2, <1>3, NextCases

LEMMA NextInv == IInv /\ [Next]_vars => IInv'
<1> SUFFICES ASSUME IInv, [Next]_vars PROVE IInv'
  OBVIOUS
<1>1. CASE Group(Then) /\ UNCHANGED ownVars
  <2>1. GroupInv(Places)'
    BY <1>1, GroupStep, ThenIs DEF IInv, Places
  <2>2. Places4'
    BY <1>1, ThenIs DEF Places4, IInv, GroupInv, GroupTypeOK, Group, Forks,
       Fork, NewGroup, MoveChild, Access, Mkfifo, ArriveWriter, ArriveReader,
       Opened, Write, Close, Read, ReadFails, JoinGroup, SleepEnds, CallFails,
       Goto, Procs
  <2> QED
    BY <1>1, <2>1, <2>2, GroupKnown, OwnTypes DEF IInv, Known
<1>2. CASE OwnStep
  BY <1>2, OwnKeepsGroup, OwnKnown, OwnTypes DEF IInv, Known
<1>3. CASE UNCHANGED vars
  <2>1. UNCHANGED <<groupVars, ownVars>>
    BY <1>3 DEF vars
  <2>2. GroupInv(Places)'
    BY <2>1 DEF groupVars, IInv, GroupInv, GroupTypeOK, Births, OldGroup,
       NewGroupMade, HandingOver, Complete
  <2>3. "read" \notin MayFail => Known'
    BY <2>1 DEF groupVars, ownVars, IInv, Known, Told, Checks, Signalled, Sent
  <2> QED
    BY <2>1, <2>2, <2>3, OwnTypes DEF IInv, Known, Places4, groupVars
<1> QED
  BY <1>1, <1>2, <1>3, NextCases

(* Type correctness of signal_process_group.c, whichever calls fail.       *)
THEOREM TypeCorrect == Spec => []TypeOK
<1>1. IInv => TypeOK
  BY DEF IInv
<1> QED
  BY <1>1, InitInv, NextInv, PTL DEF Spec

(* As long as process 5 reads the number it was sent, process 0 signals    *)
(* the group of process 3 and nobody else, however late the alarm goes off.*)
THEOREM SignalsGroup == Spec => []("read" \in MayFail \/ SignalsOnlyTheGroup)
<1>1. IInv => "read" \in MayFail \/ SignalsOnlyTheGroup
  BY DEF IInv, Checks, Signalled, SignalsOnlyTheGroup, Procs
<1> QED
  BY <1>1, InitInv, NextInv, PTL DEF Spec

(* And, if the call that moves process 4 did not fail either, the signal   *)
(* reaches every process of the group that still runs.                     *)
THEOREM ReachesGroup ==
  ASSUME {"read", "setpgid_child"} \intersect MayFail = {}
  PROVE  Spec => ReachesTheWholeGroup
<1>1. ASSUME IInv, [Next]_vars, pc[0] = "kill" /\ pc'[0] = "munmap"
      PROVE  \A p \in {3, 4, 5} : usr1'[p] = "pending" \/ pc[p] = "exited"
  <2>1. shared = 3 /\ pgid[5] = 3 /\ Complete
    BY <1>1 DEF IInv, Checks, GroupInv, NewGroupMade, HandingOver
  <2>2. \A p \in {3, 4, 5} : pgid[p] = 3 /\ pc[p] # "unborn"
    BY <1>1, <2>1 DEF IInv, GroupInv, OldGroup, Complete, Procs
  <2>3. Kill
    <3> USE DEF Goto, Step, IInv, TypeOK, GroupTypeOK, Procs
    <3>1. ~UNCHANGED vars
      BY <1>1 DEF vars, groupVars
    <3>2. ~Group(Then)
      BY <1>1, ThenIs DEF Group, Forks, Fork, NewGroup, MoveChild, Access,
         Mkfifo, ArriveWriter, ArriveReader, Opened, Write, Close, Read,
         ReadFails, JoinGroup, SleepEnds, CallFails
    <3>3. \A p \in Procs : ~Deliver(p) /\ ~OwnCallFails(p) /\ ~CatchUsr1(p)
      BY <1>1 DEF Deliver, OwnCallFails, CatchUsr1
    <3>4. ~Process5
      BY <1>1 DEF Process5, Peek, Store
    <3>5. Process0
      BY <1>1, <3>1, <3>2, <3>3, <3>4 DEF Next
    <3> QED
      BY <1>1, <3>5 DEF Process0, Mmap, CatchAlarm, SetAlarm, sig_alrm,
         SpinEnds, SpinsForEver, CancelAlarm, Check, Munmap, Deref, Reap,
         groupVars
  <2>4. Target = 3 /\ (\A p \in {3, 4, 5} : pgid[p] = 3 /\ (Alive(p) \/ pc[p] = "exited"))
    BY <2>1, <2>2 DEF Target, Alive, Zero
  <2>5. usr1' = [p \in Procs |->
                   IF Alive(p) /\ pgid[p] = Target THEN "pending" ELSE usr1[p]]
    BY <1>1, <2>3 DEF Kill, Step, Goto, IInv, TypeOK, GroupTypeOK, Procs
  <2> QED
    BY <2>4, <2>5 DEF Procs
<1> QED
  BY <1>1, InitInv, NextInv, PTL DEF Spec, ReachesTheWholeGroup

-----------------------------------------------------------------------------
(* The refinement.  Abs(x) is where a process at x is in change_process_group.c. *)
Abs(x) == IF x = "mmap" THEN "fork" ELSE IF x \in GroupPlaces THEN x ELSE "sleep"

Mapped == [p \in Procs |-> Abs(pc[p])]

LEMMA AbsIs ==
  /\ \A x \in GroupPlaces : Abs(x) = x
  /\ \A x \in Places : Abs(x) \in {"unborn", "exited"} <=> x \in {"unborn", "exited"}
  /\ \A x \in Tails : Abs(x) = "sleep"
  BY DEF Abs, GroupPlaces, Places, Tails

LEMMA GroupPlaceIs == TypeOK => [p \in Procs |-> GroupPlace(p)] = Mapped
<1> SUFFICES ASSUME TypeOK, NEW p \in Procs PROVE GroupPlace(p) = Abs(pc[p])
  BY DEF Mapped
<1>1. pc[p] \in Places
  BY DEF TypeOK, GroupTypeOK
<1> QED
  BY <1>1 DEF GroupPlace, Abs, Places, GroupPlaces

LEMMA GroupPlaceIsPrimed == TypeOK' => [p \in Procs |-> GroupPlace(p)]' = Mapped'
<1>1. (TypeOK => [p \in Procs |-> GroupPlace(p)] = Mapped)'
  BY GroupPlaceIs, PTL
<1> QED
  BY <1>1

(* A process moves in the one program as it does in the other. *)
LEMMA MappedMove ==
  ASSUME TypeOK, TypeOK', NEW p \in Procs, NEW from \in Places, NEW to \in Places,
         Goto(p, from, to)
  PROVE  PG!Goto(p, Abs(from), Abs(to))
<1>1. Mapped[p] = Abs(from) /\ Mapped' = [Mapped EXCEPT ![p] = Abs(to)]
  BY DEF Goto, Mapped, TypeOK, GroupTypeOK
<1> QED
  BY <1>1, GroupPlaceIs, GroupPlaceIsPrimed DEF PG!Goto

LEMMA MappedAlive ==
  ASSUME TypeOK, NEW p \in Procs
  PROVE  PG!Alive(p) <=> Alive(p)
  BY GroupPlaceIs, AbsIs DEF PG!Alive, Alive, Mapped, TypeOK, GroupTypeOK

LEMMA MappedFork ==
  ASSUME TypeOK, TypeOK', NEW p \in Procs, NEW c \in Procs, NEW from \in GroupPlaces,
         NEW after \in Places, NEW entry \in Places, Fork(p, from, after, c, entry)
  PROVE  PG!Fork(p, from, Abs(after), c, Abs(entry))
<1>1. /\ Mapped[p] = Abs(from)
      /\ Mapped' = [Mapped EXCEPT ![p] = Abs(after), ![c] = Abs(entry)]
  BY DEF Fork, Mapped, TypeOK, GroupTypeOK
<1>2. Mapped[p] = from
  BY <1>1, AbsIs
<1> QED
  BY <1>1, <1>2, GroupPlaceIs, GroupPlaceIsPrimed DEF PG!Fork, Fork

LEMMA MappedMember ==
  ASSUME TypeOK, NEW p \in Procs, NEW g
  PROVE  PG!Member(p, g) <=> Member(p, g)
<1>1. \A q \in Procs : [r \in Procs |-> GroupPlace(r)][q] = "exited" <=> pc[q] = "exited"
  BY GroupPlaceIs DEF Mapped, Abs, TypeOK, GroupTypeOK, Places, GroupPlaces
<1>2. p # 0 => Parent(p) \in Procs /\ PG!Parent(p) = Parent(p)
  BY DEF Parent, PG!Parent, Procs
<1> QED
  BY <1>1, <1>2, MappedAlive DEF PG!Member, Member

(* A call that fails ends the process in both. *)
LEMMA MappedFailure ==
  ASSUME TypeOK, TypeOK', NEW p \in Procs, CallFails(p)
  PROVE  PG!CallFails(p)
<1>1. pc[p] \in {"fork", "fork2", "setpgid_self", "mkfifo", "creat", "write", "close"}
  BY SignalAssumption DEF CallFails, FatalCall, SignalCalls, Calls
<1>2. [q \in Procs |-> GroupPlace(q)][p] = pc[p]
  BY <1>1, GroupPlaceIs, AbsIs DEF Mapped, GroupPlaces
<1>3. PG!FatalCall(p) = FatalCall(p)
  BY <1>2 DEF PG!FatalCall, FatalCall
<1>4. PG!Goto(p, pc[p], "exited")
  BY <1>1, MappedMove, AbsIs DEF CallFails, GroupPlaces, Places
<1> QED
  BY <1>2, <1>3, <1>4 DEF CallFails, PG!CallFails

LEMMA PGGroup ==
  ASSUME TypeOK, TypeOK', Group(Then)
  PROVE  PG!Next
<1> DEFINE sleep == PG!ThenSleep
<1> SUFFICES PG!Group(sleep)
  BY DEF PG!Next
<1>1. \A p \in Procs : sleep[p] = "sleep" /\ Abs(Then[p]) = "sleep" /\ Then[p] \in Places
  BY AbsIs, ThenIs DEF PG!ThenSleep, PG!Procs, Procs
<1>2. ASSUME NEW p \in Procs, NEW from \in GroupPlaces, NEW to \in GroupPlaces,
             Goto(p, from, to)
      PROVE  PG!Goto(p, from, to)
  BY <1>2, MappedMove, AbsIs DEF Places
<1>3. ASSUME NEW p \in Procs, NEW from \in GroupPlaces, Goto(p, from, Then[p])
      PROVE  PG!Goto(p, from, sleep[p])
  BY <1>1, <1>3, MappedMove, AbsIs DEF Places
<1> HIDE DEF sleep
<1> USE DEF Procs, PG!Procs, GroupPlaces
<1>4. CASE Forks(Then)
  <2> SUFFICES PG!Forks(sleep)
    BY DEF PG!Group
  <2>1. /\ 0 \in Procs /\ 1 \in Procs /\ 2 \in Procs /\ 3 \in Procs /\ 4 \in Procs /\ 5 \in Procs
        /\ "fork" \in GroupPlaces /\ "fork2" \in GroupPlaces
    OBVIOUS
  <2>2. /\ \A x \in {"fork", "fork2", "sleep", "open", "setpgid_self"} : x \in Places /\ Abs(x) = x
        /\ \A p \in {0, 4} : Abs(Then[p]) = sleep[p] /\ Then[p] \in Places
    BY <1>1, AbsIs DEF Places
  <2> HIDE DEF Procs, GroupPlaces
  <2>3. CASE Fork(0, "fork", "fork2", 1, "fork") \/ Fork(0, "fork2", Then[0], 2, "fork")
    BY <2>1, <2>2, <2>3, MappedFork DEF PG!Forks
  <2>4. CASE Fork(1, "fork", "sleep", 5, "open") \/ Fork(2, "fork", "sleep", 3, "fork")
    BY <2>1, <2>2, <2>4, MappedFork DEF PG!Forks
  <2>5. CASE Fork(3, "fork", "setpgid_self", 4, Then[4])
    BY <2>1, <2>2, <2>5, MappedFork DEF PG!Forks
  <2> QED
    BY <1>4, <2>3, <2>4, <2>5 DEF Forks
<1>5. CASE NewGroup \/ MoveChild
  BY <1>2, <1>5 DEF NewGroup, PG!NewGroup, MoveChild, PG!MoveChild, PG!Group
<1>6. CASE Access \/ Mkfifo
  BY <1>2, <1>6 DEF Access, PG!Access, Mkfifo, PG!Mkfifo, PG!Group
<1>7. CASE ArriveWriter \/ ArriveReader
  <2>1. /\ [p \in Procs |-> GroupPlace(p)][5] = "open_blocked" <=> pc[5] = "open_blocked"
        /\ [p \in Procs |-> GroupPlace(p)][3] = "creat_blocked" <=> pc[3] = "creat_blocked"
    BY GroupPlaceIs DEF Mapped, Abs, TypeOK, GroupTypeOK
  <2> QED
    BY <1>2, <1>7, <2>1 DEF ArriveWriter, PG!ArriveWriter, ArriveReader,
       PG!ArriveReader, PG!Group
<1>8. CASE Opened
  BY <1>2, <1>8 DEF Opened, PG!Opened, PG!Group
<1>9. CASE Write
  <2>1. /\ [p \in Procs |-> GroupPlace(p)][3] = "write" <=> pc[3] = "write"
        /\ [p \in Procs |-> GroupPlace(p)][5] = "exited" <=> pc[5] = "exited"
    BY GroupPlaceIs DEF Mapped, Abs, TypeOK, GroupTypeOK
  <2> QED
    BY <1>2, <1>9, <2>1 DEF Write, PG!Write, PG!Group
<1>10. CASE Close(Then)
  BY <1>3, <1>10 DEF Close, PG!Close, PG!Group
<1>11. CASE Read
  <2>1. [p \in Procs |-> GroupPlace(p)][3] = "exited" <=> pc[3] = "exited"
    BY GroupPlaceIs DEF Mapped, Abs, TypeOK, GroupTypeOK
  <2> QED
    BY <1>2, <1>11, <2>1 DEF Read, PG!Read, PG!Group, Nothing, PG!Nothing
<1>12. CASE ReadFails
  BY <1>2, <1>12 DEF ReadFails, PG!ReadFails, PG!Group, NoGroup, Zero,
     PG!NoGroup, PG!Zero
<1>13. CASE JoinGroup(Then)
  <2>1. \A g : PG!GroupExists(g) <=> GroupExists(g)
    BY MappedMember DEF PG!GroupExists, GroupExists
  <2> QED
    BY <1>2, <1>3, <1>13, <2>1 DEF JoinGroup, PG!JoinGroup, PG!Group, Zero,
       PG!Zero
<1>14. ASSUME NEW p \in Procs, SleepEnds(p) PROVE PG!Group(sleep)
  BY <1>2, <1>14 DEF SleepEnds, PG!SleepEnds, PG!Group
<1>15. ASSUME NEW p \in Procs, CallFails(p) PROVE PG!Group(sleep)
  <2>1. PG!CallFails(p)
    BY <1>15, MappedFailure
  <2> QED
    BY <2>1 DEF PG!Group
<1> QED
  BY <1>4, <1>5, <1>6, <1>7, <1>8, <1>9, <1>10, <1>11, <1>12, <1>13, <1>14,
     <1>15 DEF Group

(* The steps that program does not have: none of its processes moves, or   *)
(* one wakes up from its sleep, or dies of a signal before it has closed   *)
(* the FIFO.                                                               *)
LEMMA MappedStep ==
  ASSUME TypeOK, TypeOK', NEW p \in Procs, NEW from \in Places, NEW to \in Places,
         Step(p, from, to)
  PROVE  /\ Abs(from) = Abs(to) => UNCHANGED PG!groupVars
         /\ Abs(from) = "sleep" /\ to = "exited" => PG!Next
         /\ from \in {"close", "mmap"} /\ to = "exited" => PG!Next
<1>1. PG!Goto(p, Abs(from), Abs(to))
  BY MappedMove DEF Step
<1>2. UNCHANGED <<pgid, fifo, met, pipe, pgid_3>>
  BY DEF Step
<1>3. Abs("exited") = "exited"
  BY AbsIs DEF GroupPlaces
<1>4. p \in PG!Procs
  BY DEF PG!Procs, Procs
<1>5. ASSUME Abs(from) = Abs(to) PROVE UNCHANGED PG!groupVars
  <2>1. Mapped' = Mapped
    BY <1>5 DEF Step, Goto, Mapped, TypeOK, GroupTypeOK
  <2> QED
    BY <1>2, <2>1, GroupPlaceIs, GroupPlaceIsPrimed DEF PG!groupVars
<1>6. ASSUME Abs(from) = "sleep", to = "exited" PROVE PG!Next
  <2>1. PG!SleepEnds(p)
    BY <1>1, <1>2, <1>3, <1>6 DEF PG!SleepEnds
  <2> QED
    BY <1>4, <2>1 DEF PG!Next, PG!Group
<1>7. ASSUME from \in {"close", "mmap"}, to = "exited" PROVE PG!Next
  <2>1. Abs(from) \in {"close", "fork"}
    BY <1>7 DEF Abs, GroupPlaces
  <2>2. [q \in Procs |-> GroupPlace(q)][p] = Abs(from)
    BY <1>1 DEF PG!Goto
  <2>3. PG!FatalCall(p) = Abs(from)
    BY <2>1, <2>2 DEF PG!FatalCall
  <2>4. PG!CallFails(p)
    BY <1>1, <1>2, <1>3, <1>7, <2>1, <2>2, <2>3 DEF PG!CallFails
  <2> QED
    BY <1>4, <2>4 DEF PG!Next, PG!Group
<1> QED
  BY <1>5, <1>6, <1>7

LEMMA PGOwn ==
  ASSUME IInv, TypeOK', "read" \notin MayFail, OwnStep
  PROVE  PG!Next \/ UNCHANGED PG!groupVars
<1> DEFINE Inner == {"sigalrm", "alarm", "spin", "stuck", "cancel", "check", "kill", "munmap",
                     "deref", "segfault", "peek", "store", "sigusr1", "sleep"}
<1>1. /\ TypeOK
      /\ \A x \in Inner : x \in Places /\ Abs(x) = "sleep"
      /\ \A x \in {"mmap", "fork"} : x \in Places /\ Abs(x) = "fork"
      /\ "exited" \in Places /\ "close" \in Places
      /\ \A p \in {0, 3, 4, 5} : p \in Procs
  BY DEF IInv, Inner, Places, GroupPlaces, Abs, Procs
<1>2. ASSUME NEW p \in {0, 3, 4, 5}, NEW from \in Inner, NEW to \in Inner \union {"exited"},
             Step(p, from, to)
      PROVE  PG!Next \/ UNCHANGED PG!groupVars
  BY <1>1, <1>2, MappedStep
<1>3. CASE Process0
  <2>1. CASE Mmap
    BY <1>1, <2>1, MappedStep DEF Mmap
  <2>2. CASE sig_alrm
    <3>1. Mapped' = Mapped
      BY <2>2 DEF sig_alrm, groupVars, Mapped
    <3> QED
      BY <1>1, <2>2, <3>1, GroupPlaceIs, GroupPlaceIsPrimed DEF PG!groupVars,
         sig_alrm, groupVars
  <2>3. \/ Mmap \/ sig_alrm
        \/ \E from \in Inner, to \in Inner \union {"exited"} : Step(0, from, to)
    BY <1>3 DEF Process0, CatchAlarm, SetAlarm, SpinEnds, SpinsForEver,
       CancelAlarm, Check, Kill, Munmap, Deref, Reap, Inner
  <2> QED
    BY <1>2, <2>1, <2>2, <2>3
<1>4. CASE Process5
  BY <1>2, <1>4 DEF Process5, Peek, Store, Inner
<1>5. ASSUME NEW p \in {3, 4, 5}, CatchUsr1(p) PROVE PG!Next \/ UNCHANGED PG!groupVars
  BY <1>2, <1>5 DEF CatchUsr1, Inner
<1>6. ASSUME NEW p \in Procs, Deliver(p) PROVE PG!Next
  <2>1. p \in {3, 4, 5} /\ Step(p, pc[p], "exited") /\ pc[p] \notin {"unborn", "exited"}
    BY <1>6 DEF Deliver, Alive, IInv, Signalled
  <2>2. pc[p] \in {"close", "sigusr1", "sleep"}
    BY <1>6, <2>1 DEF Deliver, IInv, Signalled, Sent, Places4
  <2> QED
    BY <1>1, <2>1, <2>2, MappedStep
<1>7. ASSUME NEW p \in Procs, OwnCallFails(p) PROVE PG!Next
  <2>1. pc[p] \in {"mmap", "munmap", "sigalrm", "sigusr1"} /\ Step(p, pc[p], "exited")
    BY <1>7, SignalAssumption DEF OwnCallFails, OwnCall, SignalCalls, Calls
  <2> QED
    BY <1>1, <2>1, MappedStep
<1> QED
  BY <1>3, <1>4, <1>5, <1>6, <1>7 DEF OwnStep

LEMMA PGInit == Init => PG!Init
<1> SUFFICES ASSUME Init PROVE PG!Init
  OBVIOUS
<1>1. TypeOK
  BY InitInv DEF IInv
<1>2. [p \in Procs |-> GroupPlace(p)] = [p \in Procs |-> IF p = 0 THEN "fork" ELSE "unborn"]
  BY <1>1, GroupPlaceIs DEF Init, SectionInit, Mapped, Abs, GroupPlaces
<1> QED
  BY <1>2 DEF Init, SectionInit, PG!Init, PG!SectionInit, PG!Procs, Procs,
     Nothing, PG!Nothing

(* signal_process_group.c does with the groups what change_process_group.c *)
(* does: neither the alarm nor the signal, which kills processes of the    *)
(* group wherever it finds them, disturbs how the group comes about.       *)
THEOREM Refinement ==
  ASSUME "read" \notin MayFail
  PROVE  Spec => ImplementsProcessGroup
<1>1. IInv /\ [Next]_vars => [PG!Next]_(PG!groupVars)
  <2> SUFFICES ASSUME IInv, [Next]_vars PROVE PG!Next \/ UNCHANGED PG!groupVars
    OBVIOUS
  <2>1. TypeOK /\ TypeOK'
    BY OwnTypes DEF IInv
  <2>2. CASE UNCHANGED vars
    <3>1. Mapped' = Mapped
      BY <2>2 DEF vars, groupVars, Mapped
    <3> QED
      BY <2>1, <2>2, <3>1, GroupPlaceIs, GroupPlaceIsPrimed DEF PG!groupVars,
         vars, groupVars
  <2> QED
    BY <2>1, <2>2, NextCases, PGGroup, PGOwn
<1> QED
  BY <1>1, InitInv, NextInv, PGInit, PTL DEF Spec, ImplementsProcessGroup,
     PG!Spec
=============================================================================
