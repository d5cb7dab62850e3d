---------------------------- MODULE GrassProofs ----------------------------
(***************************************************************************)
(* The safety properties of Grass hold for any sessions, users, names,     *)
(* command arguments, initial tree and bounds.                             *)
(***************************************************************************)
EXTENDS GrassGate, TLAPS

(* What the table calls do is known throughout.                            *)
USE DEF AddUser, RemoveUser, SetAsDeleted, RemoveAsDeleted

-----------------------------------------------------------------------------
(* Paths and keys.                                                         *)

(* The base directory is a place in the tree.                              *)
LEMMA BaseIsAPlace == <<>> \in TreePaths
  BY DEF TreePaths

(* A prefix of a key is a key.                                             *)
LEMMA CutType ==
    ASSUME NEW key \in Keys, NEW n \in 1..Len(key.comps)
    PROVE  Cut(key, n) \in Keys
<1>1. key.comps \in Seq(Components)
  BY DEF Keys
<1>2. SubSeq(key.comps, 1, n) \in Seq(Components)
  BY <1>1
<1> QED BY <1>2 DEF Cut, Keys

(* The texts that cd, mkdir and rm make of a place are keys.               *)
LEMMA KeyTypes ==
    ASSUME NEW p \in TreePaths
    PROVE  /\ RelativeKey(p) \in Keys
           /\ ResolvedKey(p) \in Keys
           /\ Format(ResolvedKey(p)) \in Keys
<1>1. p \in Seq(Components) /\ <<Base>> \in Seq(Components)
  BY DEF TreePaths, Components
<1>2. <<Base>> \o p \in Seq(Components)
  BY <1>1
<1> QED BY <1>1, <1>2 DEF RelativeKey, ResolvedKey, ResolvedText, Format, Plain, Keys

(* A place a command is about is a place in the tree.                      *)
LEMMA TargetsType ==
    ASSUME NEW s, NEW args, NEW p \in Targets(s, args)
    PROVE  p \in TreePaths
  BY DEF Targets, InsideBase, Relative

-----------------------------------------------------------------------------
(* UserReadTable.                                                          *)

IsTable(t) == DOMAIN t \subseteq Keys /\ t \in [DOMAIN t -> SUBSET Users]

(* addFile leaves a table of readers, every prefix with one at least.      *)
LEMMA AddFileTable ==
    ASSUME NEW t, IsTable(t), NEW key \in Keys, NEW u \in Users
    PROVE  /\ IsTable(AddFile(t, key, u))
           /\ \A k \in KeysOf(key) : /\ k \in DOMAIN AddFile(t, key, u)
                                     /\ AddFile(t, key, u)[k] # {}
<1>1. KeysOf(key) \subseteq Keys
  BY CutType DEF KeysOf
<1> QED BY <1>1 DEF AddFile, IsTable, Readers, HasKey

(* removeFile leaves a table of readers.                                   *)
LEMMA RemoveFileTable ==
    ASSUME NEW t, IsTable(t), NEW key \in Keys, NEW u
    PROVE  IsTable(RemoveFile(t, key, u))
<1>1. Erased(t, key) \subseteq Keys
  BY CutType DEF Erased
<1> QED BY <1>1 DEF RemoveFile, IsTable, Readers

(* So does isBeingRead.                                                    *)
LEMMA IsBeingReadTable ==
    ASSUME NEW t, IsTable(t), NEW key \in Keys
    PROVE  IsTable(AfterIsBeingRead(t, key))
  BY DEF AfterIsBeingRead, IsTable, Readers

(* The keys that have a reader.                                            *)
Read(t) == {k \in DOMAIN t : t[k] # {}}

(* No call takes the last reader of a key away: the removal skips every    *)
(* key that is present.                                                    *)
LEMMA NeverForgets ==
    ASSUME NEW t, NEW key \in Keys, NEW u
    PROVE  /\ Read(t) \subseteq Read(AddFile(t, key, u))
           /\ Read(t) \subseteq Read(RemoveFile(t, key, u))
           /\ Read(t) \subseteq Read(AfterIsBeingRead(t, key))
<1>1. Read(t) \subseteq Read(AddFile(t, key, u))
  BY DEF Read, AddFile, Readers, HasKey
<1>2. Read(t) \subseteq Read(RemoveFile(t, key, u))
  <2>1. Erased(t, key) \cap DOMAIN t = {}
    <3> SUFFICES ASSUME NEW m \in 1..Len(key.comps),
                        \A i \in m..Len(key.comps) : HasKey(t, Cut(key, i))
                 PROVE  Cut(key, m) \notin DOMAIN t
      BY DEF Erased
    <3>1. m \in m..Len(key.comps)
      <4>1. Len(key.comps) \in Nat
        BY DEF Keys
      <4> QED BY <4>1
    <3> QED BY <3>1 DEF HasKey
  <2> QED BY <2>1 DEF Read, RemoveFile
<1>3. Read(t) \subseteq Read(AfterIsBeingRead(t, key))
  BY DEF Read, AfterIsBeingRead, Readers, HasKey
<1> QED BY <1>1, <1>2, <1>3

-----------------------------------------------------------------------------
(* Types.                                                                  *)

(* The sets of steps, and what tells the session's part of a state.        *)
LEMMA TypeInit == Init => TypeOK /\ SessionInv
  BY GrassAssumption, BaseIsAPlace DEF Init, TypeOK, SessionInv, Busy, Guarded, LoginSteps, CdSteps,
     MkdirSteps, RmSteps, Answering

LEMMA TypeNext == TypeOK /\ SessionInv /\ [Next]_vars => TypeOK' /\ SessionInv'
<1> SUFFICES ASSUME TypeOK, SessionInv, [Next]_vars
             PROVE  TypeOK' /\ SessionInv'
  OBVIOUS
<1> USE BaseIsAPlace DEF TypeOK, SessionInv
<1>1. CASE UNCHANGED vars
  BY <1>1 DEF vars, account, control, tables, tree
<1>2. ASSUME NEW s \in Sessions, Command(s)
      PROVE  TypeOK' /\ SessionInv'
  <2> USE DEF Serve, Begin, Forget, Await, LoggedIn, account, tables, tree
  <2> USE DEF Busy, Guarded, LoginSteps, CdSteps, MkdirSteps, RmSteps, Answering
  <2>1. CASE Connect(s)
    BY <2>1 DEF Connect
  <2>2. CASE Leave(s)
    BY <2>2 DEF Leave
  <2>3. CASE Reject(s)
    BY <2>3 DEF Reject
  <2>4. CASE Deny(s)
    BY <2>4 DEF Deny
  <2>5. CASE Query(s)
    BY <2>5 DEF Query
  <2>6. CASE Ping(s)
    <3>1. ASSUME status[s] = 0, Serve(s), Forget(s), UNCHANGED <<cwd, tables, tree>>
          PROVE  TypeOK' /\ SessionInv'
      BY <3>1
    <3>2. ASSUME ~(status[s] = 0), Serve(s), UNCHANGED account, UNCHANGED <<cwd, tables, tree>>
          PROVE  TypeOK' /\ SessionInv'
      BY <3>2
    <3> QED BY ONLY <2>6, <3>1, <3>2 DEF Ping
  <2>7. CASE BadPath(s)
    BY <2>7 DEF BadPath
  <2>8. CASE LoginUnknown(s)
    BY <2>8 DEF LoginUnknown
  <2>9. CASE PassRefused(s)
    BY <2>9 DEF PassRefused
  <2>10. CASE PassOk(s)
    BY <2>10, GrassAssumption DEF PassOk
  <2>11. ASSUME NEW u \in Users, Login(s, u)
      PROVE  TypeOK' /\ SessionInv'
    BY <2>11 DEF Login
  <2>12. ASSUME NEW next \in LoginSteps, ClearRead(s, next)
      PROVE  TypeOK' /\ SessionInv'
    <3>1. IsTable(reads')
      BY <2>12, KeyTypes, RemoveFileTable DEF ClearRead, IsTable
    <3> QED BY <2>12, <3>1 DEF ClearRead, IsTable
  <2>13. CASE CdRefused(s)
    BY <2>13 DEF CdRefused
  <2>14. CASE CdStart(s)
    BY <2>14, TargetsType DEF CdStart
  <2>15. CASE MkdirRefused(s)
    BY <2>15 DEF MkdirRefused
  <2>16. CASE MkdirStart(s)
    BY <2>16, TargetsType DEF MkdirStart
  <2>17. CASE RmRefused(s)
    <3>1. PICK p \in Targets(s, RmArgs) : reads' = AfterIsBeingRead(reads, ResolvedKey(p))
      BY <2>17 DEF RmRefused
    <3>2. IsTable(reads) /\ ResolvedKey(p) \in Keys
      BY <3>1, TargetsType, KeyTypes DEF IsTable
    <3>3. IsTable(reads')
      BY ONLY <3>1, <3>2, IsBeingReadTable
    <3> QED BY <2>17, <3>3, TargetsType DEF RmRefused, IsTable
  <2>18. CASE RmStart(s)
    <3>1. PICK p \in Targets(s, RmArgs) : reads' = AfterIsBeingRead(reads, ResolvedKey(p))
      BY <2>18 DEF RmStart
    <3>2. IsTable(reads) /\ ResolvedKey(p) \in Keys
      BY <3>1, TargetsType, KeyTypes DEF IsTable
    <3>3. IsTable(reads')
      BY ONLY <3>1, <3>2, IsBeingReadTable
    <3> QED BY <2>18, <3>3, TargetsType DEF RmStart, IsTable
  <2>19. CASE PutStart(s)
    <3>1. PICK name \in PutNames : Begin(s, "put_check", Append(cwd[s], name))
      BY <2>19 DEF PutStart
    <3>2. Append(cwd[s], name) \in TreePaths
      BY <3>1, GrassAssumption DEF TreePaths
    <3> QED BY <2>19, <3>1, <3>2 DEF PutStart
  <2> QED BY <1>2, <2>1, <2>2, <2>3, <2>4, <2>5, <2>6, <2>7, <2>8, <2>9, <2>10, <2>11, <2>12, <2>13, <2>14, <2>15, <2>16, <2>17, <2>18, <2>19 DEF Command
<1>3. ASSUME NEW s \in Sessions, Continue(s)
      PROVE  TypeOK' /\ SessionInv'
  <2> USE DEF Proceed, Return, Send, Forget, Await, account, tables, tree
  <2> USE DEF Busy, Guarded, LoginSteps, CdSteps, MkdirSteps, RmSteps, Answering
  <2>1. ASSUME NEW u \in Users, Relogin(s, u)
      PROVE  TypeOK' /\ SessionInv'
    BY <2>1 DEF Relogin
  <2>2. CASE Logout(s)
    BY <2>2 DEF Logout
  <2>3. CASE CdCheck(s)
    <3>1. ASSUME IsBeingDeleted(target[s]), Return(s, "cd_check"), Send(s), UNCHANGED <<account, cwd, tables, tree>>
          PROVE  TypeOK' /\ SessionInv'
      BY <3>1
    <3>2. ASSUME ~(IsBeingDeleted(target[s])), Proceed(s, "cd_check", "cd_leave"), UNCHANGED <<sent, account, cwd, tables, tree>>
          PROVE  TypeOK' /\ SessionInv'
      BY <3>2
    <3> QED BY ONLY <2>3, <3>1, <3>2 DEF CdCheck
  <2>4. CASE CdLeave(s)
    <3>1. target[s] \in TreePaths /\ cwd[s] \in TreePaths /\ user[s] \in Users
      BY <2>4 DEF CdLeave
    <3>2. IsTable(reads) /\ IsTable(reads')
      BY <2>4, <3>1, KeyTypes, RemoveFileTable DEF CdLeave, IsTable
    <3> QED BY <2>4, <3>2 DEF CdLeave, IsTable
  <2>5. CASE CdEnter(s)
    <3>1. target[s] \in TreePaths /\ cwd[s] \in TreePaths /\ user[s] \in Users
      BY <2>5 DEF CdEnter
    <3>2. IsTable(reads) /\ IsTable(reads')
      BY <2>5, <3>1, KeyTypes, AddFileTable DEF CdEnter, IsTable
    <3> QED BY <2>5, <3>2 DEF CdEnter, IsTable
  <2>6. CASE MkdirRead(s)
    <3>1. target[s] \in TreePaths /\ cwd[s] \in TreePaths /\ user[s] \in Users
      BY <2>6 DEF MkdirRead
    <3>2. IsTable(reads) /\ IsTable(reads')
      BY <2>6, <3>1, KeyTypes, AddFileTable DEF MkdirRead, IsTable
    <3> QED BY <2>6, <3>2 DEF MkdirRead, IsTable
  <2>7. CASE MkdirExists(s)
    <3>1. ASSUME Exists(target[s]), Proceed(s, "mkdir_exists", "mkdir_release"), Send(s), UNCHANGED <<account, cwd, tables, tree>>
          PROVE  TypeOK' /\ SessionInv'
      BY <3>1
    <3>2. ASSUME ~(Exists(target[s])), Proceed(s, "mkdir_exists", "mkdir_parent"), UNCHANGED <<sent, account, cwd, tables, tree>>
          PROVE  TypeOK' /\ SessionInv'
      BY <3>2
    <3> QED BY ONLY <2>7, <3>1, <3>2 DEF MkdirExists
  <2>8. CASE MkdirParent(s)
    <3>1. CASE Proceed(s, "mkdir_parent", "mkdir_release") /\ Send(s)
      BY <2>8, <3>1 DEF MkdirParent
    <3>2. CASE Proceed(s, "mkdir_parent", "mkdir_exec") /\ UNCHANGED sent
      BY <2>8, <3>2 DEF MkdirParent
    <3> QED BY <2>8, <3>1, <3>2 DEF MkdirParent
  <2>9. CASE MkdirExec(s)
    BY <2>9 DEF MkdirExec, Made
  <2>10. CASE MkdirRelease(s)
    <3>1. target[s] \in TreePaths /\ cwd[s] \in TreePaths /\ user[s] \in Users
      BY <2>10 DEF MkdirRelease
    <3>2. IsTable(reads) /\ IsTable(reads')
      BY <2>10, <3>1, KeyTypes, RemoveFileTable DEF MkdirRelease, IsTable
    <3> QED BY <2>10, <3>2 DEF MkdirRelease, IsTable
  <2>11. CASE RmMark(s)
    BY <2>11, KeyTypes DEF RmMark
  <2>12. CASE RmExists(s)
    <3>1. ASSUME Exists(target[s]), Proceed(s, "rm_exists", "rm_exec"), UNCHANGED <<sent, account, cwd, tables, tree>>
          PROVE  TypeOK' /\ SessionInv'
      BY <3>1
    <3>2. ASSUME ~(Exists(target[s])), Proceed(s, "rm_exists", "rm_release"), Send(s), UNCHANGED <<account, cwd, tables, tree>>
          PROVE  TypeOK' /\ SessionInv'
      BY <3>2
    <3> QED BY ONLY <2>12, <3>1, <3>2 DEF RmExists
  <2>13. CASE RmExit(s)
    BY <2>13 DEF RmExit
  <2>14. CASE RmRelease(s)
    BY <2>14 DEF RmRelease
  <2>15. CASE PutCheck(s)
    <3>1. writing' \in [Writers -> SUBSET TreePaths]
      BY <2>15 DEF PutCheck
    <3> QED BY <2>15, <3>1 DEF PutCheck
  <2> QED BY <1>3, <2>1, <2>2, <2>3, <2>4, <2>5, <2>6, <2>7, <2>8, <2>9, <2>10, <2>11, <2>12, <2>13, <2>14, <2>15 DEF Continue
<1>4. ASSUME NEW s \in Sessions, RmUnlink(s)
      PROVE  TypeOK' /\ SessionInv'
  BY <1>4 DEF RmUnlink, account, control, tables
<1>5. ASSUME NEW w \in Writers, PutOpens(w)
      PROVE  TypeOK' /\ SessionInv'
  BY <1>5 DEF PutOpens, account, control, tables
<1> QED BY <1>1, <1>2, <1>3, <1>4, <1>5 DEF Next

(* Every variable has its type in every reachable state: no handler puts   *)
(* anything but known users and well-formed keys into the tables, and the  *)
(* empty user name of a denied session never gets there.                   *)
THEOREM TypeCorrect == Spec => []TypeOK
<1>1. TypeOK /\ SessionInv /\ [Next]_vars => (TypeOK /\ SessionInv)'
  BY TypeNext
<1> QED BY TypeInit, <1>1, PTL DEF Spec

(* Every command is answered exactly once by the time its handler returns. *)
THEOREM AnsweredOnce == Spec => []OneAnswer
<1>1. TypeOK /\ SessionInv /\ [Next]_vars => (TypeOK /\ SessionInv)'
  BY TypeNext
<1>2. SessionInv => OneAnswer
  BY DEF SessionInv, OneAnswer
<1> QED BY TypeInit, <1>1, <1>2, PTL DEF Spec

-----------------------------------------------------------------------------
(* Readers.                                                                *)

(* A step takes no key its last reader.                                    *)
LEMMA ReadersKept ==
    ASSUME TypeOK, [Next]_vars
    PROVE  Read(reads) \subseteq Read(reads')
<1> USE DEF tables
<1>1. CASE UNCHANGED vars
  BY <1>1 DEF vars
<1>2. ASSUME NEW s \in Sessions, Command(s)
      PROVE  Read(reads) \subseteq Read(reads')
  <2>1. ASSUME NEW next \in LoginSteps, ClearRead(s, next)
        PROVE  Read(reads) \subseteq Read(reads')
    BY <2>1, NeverForgets, KeyTypes DEF ClearRead, TypeOK
  <2>2. CASE RmRefused(s)
    BY <2>2, NeverForgets, TargetsType, KeyTypes DEF RmRefused
  <2>3. CASE RmStart(s)
    BY <2>3, NeverForgets, TargetsType, KeyTypes DEF RmStart
  <2>4. CASE UNCHANGED reads
    BY <2>4
  <2>5. \/ UNCHANGED reads
        \/ \E next \in LoginSteps : ClearRead(s, next)
        \/ RmRefused(s) \/ RmStart(s)
    BY <1>2 DEF Command, Connect, Leave, Reject, Deny, Query, Ping, BadPath,
       LoginUnknown, PassRefused, PassOk, Login, CdRefused, CdStart, MkdirRefused, MkdirStart, PutStart
  <2> QED BY <2>1, <2>2, <2>3, <2>4, <2>5
<1>3. ASSUME NEW s \in Sessions, Continue(s)
      PROVE  Read(reads) \subseteq Read(reads')
  <2>1. CASE CdLeave(s)
    BY <2>1, NeverForgets, KeyTypes DEF CdLeave, TypeOK
  <2>2. CASE CdEnter(s)
    BY <2>2, NeverForgets, KeyTypes DEF CdEnter, TypeOK
  <2>3. CASE MkdirRead(s)
    BY <2>3, NeverForgets, KeyTypes DEF MkdirRead, TypeOK
  <2>4. CASE MkdirRelease(s)
    BY <2>4, NeverForgets, KeyTypes DEF MkdirRelease, TypeOK
  <2>5. CASE UNCHANGED reads
    BY <2>5
  <2>6. UNCHANGED reads \/ CdLeave(s) \/ CdEnter(s) \/ MkdirRead(s) \/ MkdirRelease(s)
    BY <1>3 DEF Continue, Relogin, Logout, CdCheck, MkdirExists, MkdirParent, MkdirExec,
       RmMark, RmExists, RmExit, RmRelease, PutCheck
  <2> QED BY <2>1, <2>2, <2>3, <2>4, <2>5, <2>6
<1>4. ASSUME NEW s \in Sessions, RmUnlink(s)
      PROVE  Read(reads) \subseteq Read(reads')
  BY <1>4 DEF RmUnlink
<1>5. ASSUME NEW w \in Writers, PutOpens(w)
      PROVE  Read(reads) \subseteq Read(reads')
  BY <1>5 DEF PutOpens
<1> QED BY <1>1, <1>2, <1>3, <1>4, <1>5 DEF Next

(* A session changes place by the last step of a cd, or back to the base.  *)
LEMMA WhoMoves ==
    ASSUME TypeOK, [Next]_vars, NEW t \in Sessions
    PROVE  cwd'[t] = cwd[t] \/ cwd'[t] = <<>> \/ CdEnter(t)
<1>1. CASE UNCHANGED vars
  BY <1>1 DEF vars
<1>2. ASSUME NEW s \in Sessions, Command(s)
      PROVE  cwd'[t] = cwd[t] \/ cwd'[t] = <<>>
  <2>1. UNCHANGED cwd \/ Leave(s)
    BY <1>2 DEF Command, Connect, Reject, Deny, Query, Ping, BadPath, LoginUnknown,
       PassRefused, PassOk, Login, ClearRead, CdRefused, CdStart, MkdirRefused, MkdirStart,
       RmRefused, RmStart, PutStart
  <2> QED BY <2>1 DEF Leave, TypeOK
<1>3. ASSUME NEW s \in Sessions, Continue(s)
      PROVE  cwd'[t] = cwd[t] \/ cwd'[t] = <<>> \/ CdEnter(t)
  <2>1. UNCHANGED cwd \/ Logout(s) \/ CdEnter(s)
    BY <1>3 DEF Continue, Relogin, CdCheck, CdLeave, MkdirRead, MkdirExists, MkdirParent,
       MkdirExec, MkdirRelease, RmMark, RmExists, RmExit, RmRelease, PutCheck
  <2>2. CASE Logout(s)
    BY <2>2 DEF Logout, TypeOK
  <2>3. CASE CdEnter(s) /\ s # t
    BY <2>3 DEF CdEnter, TypeOK
  <2> QED BY <2>1, <2>2, <2>3
<1>4. ASSUME NEW s \in Sessions, RmUnlink(s)
      PROVE  cwd'[t] = cwd[t]
  BY <1>4 DEF RmUnlink
<1>5. ASSUME NEW w \in Writers, PutOpens(w)
      PROVE  cwd'[t] = cwd[t]
  BY <1>5 DEF PutOpens
<1> QED BY <1>1, <1>2, <1>3, <1>4, <1>5 DEF Next

LEMMA OccupiedNext ==
    TypeOK /\ SessionInv /\ OccupiedHasReader /\ [Next]_vars => OccupiedHasReader'
<1> SUFFICES ASSUME TypeOK, SessionInv, OccupiedHasReader, [Next]_vars,
                    NEW t \in Sessions, NEW n \in 1..Len(cwd'[t])
             PROVE  Cut(RelativeKey(cwd'[t]), n) \in Read(reads')
  BY DEF OccupiedHasReader, Read
<1>1. CASE cwd'[t] = cwd[t]
  <2>1. Cut(RelativeKey(cwd[t]), n) \in Read(reads)
    BY <1>1 DEF OccupiedHasReader, Read
  <2> QED BY <1>1, <2>1, ReadersKept
<1>2. CASE cwd'[t] = <<>>
  BY <1>2
<1>3. CASE CdEnter(t)
  <2>1. user[t] \in Users /\ target[t] \in TreePaths /\ cwd'[t] = target[t]
    BY <1>3 DEF CdEnter, Return, TypeOK, SessionInv, Guarded, CdSteps
  <2>2. Cut(RelativeKey(target[t]), n) \in KeysOf(RelativeKey(target[t]))
    BY <2>1 DEF KeysOf, RelativeKey, Plain
  <2>3. IsTable(reads) /\ RelativeKey(target[t]) \in Keys
    BY <2>1, KeyTypes DEF TypeOK, IsTable
  <2> QED BY <1>3, <2>1, <2>2, <2>3, AddFileTable DEF CdEnter, Read
<1> QED BY <1>1, <1>2, <1>3, WhoMoves

(* A directory a session is in, and each of its parents, has a reader.     *)
THEOREM OccupiedIsRead == Spec => []OccupiedHasReader
<1>1. Init => OccupiedHasReader
  BY DEF Init, OccupiedHasReader
<1>2. TypeOK /\ SessionInv /\ OccupiedHasReader /\ [Next]_vars
        => (TypeOK /\ SessionInv /\ OccupiedHasReader)'
  BY TypeNext, OccupiedNext
<1> QED BY TypeInit, <1>1, <1>2, PTL DEF Spec

-----------------------------------------------------------------------------
(* Who is listed.                                                          *)

(* A session is logged in by pass, or it already was and as the same user. *)
LEMMA WhoIsIn ==
    ASSUME TypeOK, SessionInv, [Next]_vars, NEW t \in Sessions, LoggedIn(t)'
    PROVE  PassOk(t) \/ (LoggedIn(t) /\ user'[t] = user[t])
<1> USE DEF LoggedIn, account
<1>1. CASE UNCHANGED vars
  BY <1>1 DEF vars
<1>2. ASSUME NEW s \in Sessions, Command(s)
      PROVE  PassOk(t) \/ (LoggedIn(t) /\ user'[t] = user[t])
  <2>1. CASE UNCHANGED <<status, user>>
    BY <2>1
  <2>2. CASE Forget(s)
    BY <2>2 DEF Forget, TypeOK
  <2>3. CASE LoginUnknown(s)
    BY <2>3 DEF LoginUnknown, TypeOK
  <2>4. ASSUME NEW u \in Users, Login(s, u)
        PROVE  LoggedIn(t) /\ user'[t] = user[t]
    BY <2>4 DEF Login, Await, TypeOK
  <2>5. CASE PassOk(s)
    BY <2>5 DEF PassOk, TypeOK
  <2>6. \/ UNCHANGED <<status, user>> \/ Forget(s) \/ LoginUnknown(s) \/ PassOk(s)
        \/ \E u \in Users : Login(s, u)
    BY <1>2 DEF Command, Connect, Leave, Reject, Deny, Query, Ping, BadPath, PassRefused,
       ClearRead, CdRefused, CdStart, MkdirRefused, MkdirStart, RmRefused, RmStart, PutStart
  <2> QED BY <2>1, <2>2, <2>3, <2>4, <2>5, <2>6
<1>3. ASSUME NEW s \in Sessions, Continue(s)
      PROVE  LoggedIn(t) /\ user'[t] = user[t]
  <2>1. CASE UNCHANGED <<status, user>>
    BY <2>1
  <2>2. ASSUME NEW u \in Users, Relogin(s, u)
        PROVE  LoggedIn(t) /\ user'[t] = user[t]
    BY <2>2 DEF Relogin, Await, TypeOK
  <2>3. CASE Logout(s)
    BY <2>3 DEF Logout, Forget, TypeOK
  <2>4. \/ UNCHANGED <<status, user>> \/ Logout(s)
        \/ \E u \in Users : Relogin(s, u)
    BY <1>3 DEF Continue, CdCheck, CdLeave, CdEnter, MkdirRead, MkdirExists, MkdirParent,
       MkdirExec, MkdirRelease, RmMark, RmExists, RmExit, RmRelease, PutCheck
  <2> QED BY <2>1, <2>2, <2>3, <2>4
<1>4. ASSUME NEW s \in Sessions, RmUnlink(s)
      PROVE  LoggedIn(t) /\ user'[t] = user[t]
  BY <1>4 DEF RmUnlink
<1>5. ASSUME NEW w \in Writers, PutOpens(w)
      PROVE  LoggedIn(t) /\ user'[t] = user[t]
  BY <1>5 DEF PutOpens
<1> QED BY <1>1, <1>2, <1>3, <1>4, <1>5 DEF Next

(* A user is taken off the list only by a session that was logged in as    *)
(* this user and no longer is.                                             *)
LEMMA WhoIsUnlisted ==
    ASSUME TypeOK, SessionInv, [Next]_vars
    PROVE  \/ active \subseteq active'
           \/ \E s \in Sessions : /\ active' = active \ {user[s]}
                                  /\ LoggedIn(s)
                                  /\ ~LoggedIn(s)'
<1> USE DEF tables
<1>1. CASE UNCHANGED vars
  BY <1>1 DEF vars
<1>2. ASSUME NEW s \in Sessions, Command(s)
      PROVE  active \subseteq active'
  BY <1>2 DEF Command, Connect, Leave, Reject, Deny, Query, Ping, BadPath, LoginUnknown,
     PassRefused, PassOk, Login, ClearRead, CdRefused, CdStart, MkdirRefused, MkdirStart,
     RmRefused, RmStart, PutStart
<1>3. ASSUME NEW s \in Sessions, Continue(s)
      PROVE  \/ active \subseteq active'
             \/ active' = active \ {user[s]} /\ LoggedIn(s) /\ ~LoggedIn(s)'
  <2>1. ASSUME NEW u \in Users, Relogin(s, u)
        PROVE  active' = active \ {user[s]} /\ LoggedIn(s) /\ ~LoggedIn(s)'
    BY <2>1 DEF Relogin, Await, Return, LoggedIn, TypeOK, SessionInv, Guarded, LoginSteps
  <2>2. CASE Logout(s)
    BY <2>2 DEF Logout, Forget, Return, LoggedIn, TypeOK, SessionInv, Guarded, LoginSteps
  <2>3. CASE UNCHANGED active
    BY <2>3
  <2>4. UNCHANGED active \/ Logout(s) \/ \E u \in Users : Relogin(s, u)
    BY <1>3 DEF Continue, CdCheck, CdLeave, CdEnter, MkdirRead, MkdirExists, MkdirParent,
       MkdirExec, MkdirRelease, RmMark, RmExists, RmExit, RmRelease, PutCheck
  <2> QED BY <2>1, <2>2, <2>3, <2>4
<1>4. ASSUME NEW s \in Sessions, RmUnlink(s)
      PROVE  active \subseteq active'
  BY <1>4 DEF RmUnlink
<1>5. ASSUME NEW w \in Writers, PutOpens(w)
      PROVE  active \subseteq active'
  BY <1>5 DEF PutOpens
<1> QED BY <1>1, <1>2, <1>3, <1>4, <1>5 DEF Next

LEMMA ListedNext ==
    TypeOK /\ SessionInv /\ ListedWhileLoggedIn /\ [Next]_vars => ListedWhileLoggedIn'
<1> SUFFICES ASSUME TypeOK, SessionInv, ListedWhileLoggedIn, [Next]_vars, AccountsApart,
                    NEW t \in Sessions, LoggedIn(t)'
             PROVE  user'[t] \in active'
  BY DEF ListedWhileLoggedIn, AccountsApart
<1>1. CASE PassOk(t)
  BY <1>1 DEF PassOk
<1>2. CASE LoggedIn(t) /\ user'[t] = user[t]
  <2>1. user[t] \in active /\ user[t] \in Accounts[t]
    BY <1>2 DEF ListedWhileLoggedIn, SessionInv, LoggedIn
  <2>2. ASSUME NEW s \in Sessions, active' = active \ {user[s]}, LoggedIn(s), ~LoggedIn(s)'
        PROVE  user[t] \in active'
    <3>1. s # t /\ user[s] \in Accounts[s]
      BY <2>2 DEF SessionInv, LoggedIn
    <3> QED BY <2>1, <2>2, <3>1 DEF AccountsApart
  <2> QED BY <1>2, <2>1, <2>2, WhoIsUnlisted
<1> QED BY <1>1, <1>2, WhoIsIn

(* While no two clients share a user, w lists every user who is logged in. *)
THEOREM LoggedInIsListed == Spec => []ListedWhileLoggedIn
<1>1. Init => ListedWhileLoggedIn
  BY DEF Init, ListedWhileLoggedIn, LoggedIn
<1>2. TypeOK /\ SessionInv /\ ListedWhileLoggedIn /\ [Next]_vars
        => (TypeOK /\ SessionInv /\ ListedWhileLoggedIn)'
  BY TypeNext, ListedNext
<1> QED BY TypeInit, <1>1, <1>2, PTL DEF Spec

-----------------------------------------------------------------------------
(* Sealed entries.                                                         *)

(* The steps a cd or mkdir makes after its isBeingDeleted test.            *)
PastTest == {"cd_leave", "cd_enter"} \cup MkdirSteps

(* A thread gets past the test of a cd or mkdir only towards an entry that *)
(* is not marked, and stays with the entry it started with.                *)
LEMMA WhoGetsPast ==
    ASSUME TypeOK, [Next]_vars, NEW t \in Sessions, pc'[t] \in PastTest
    PROVE  \/ pc[t] \in PastTest /\ target'[t] = target[t]
           \/ ~IsBeingDeleted(target'[t])
<1> DEFINE Goal == \/ pc[t] \in PastTest /\ target'[t] = target[t]
                   \/ ~IsBeingDeleted(target'[t])
<1> USE DEF control, PastTest, MkdirSteps
<1>1. CASE UNCHANGED vars
  BY <1>1 DEF vars
<1>2. ASSUME NEW s \in Sessions, Command(s)
      PROVE  Goal
  <2>1. CASE UNCHANGED <<pc, target>>
    BY <2>1
  <2>2. CASE Connect(s) \/ Leave(s)
    BY <2>2 DEF Connect, Leave, TypeOK
  <2>3. ASSUME NEW next \in LoginSteps, ClearRead(s, next)
        PROVE  Goal
    BY <2>3 DEF ClearRead, Begin, TypeOK, LoginSteps
  <2>4. CASE CdStart(s)
    BY <2>4 DEF CdStart, Begin, TypeOK
  <2>5. CASE MkdirStart(s)
    BY <2>5 DEF MkdirStart, Begin, TypeOK
  <2>6. CASE RmStart(s)
    BY <2>6 DEF RmStart, Begin, TypeOK
  <2>7. CASE PutStart(s)
    BY <2>7 DEF PutStart, Begin, TypeOK
  <2>8. \/ UNCHANGED <<pc, target>> \/ Connect(s) \/ Leave(s)
        \/ \E next \in LoginSteps : ClearRead(s, next)
        \/ CdStart(s) \/ MkdirStart(s) \/ RmStart(s) \/ PutStart(s)
    BY <1>2 DEF Command, Serve, Reject, Deny, Query, Ping, BadPath, LoginUnknown,
       PassRefused, PassOk, Login, CdRefused, MkdirRefused, RmRefused
  <2> QED BY <2>1, <2>2, <2>3, <2>4, <2>5, <2>6, <2>7, <2>8
<1>3. ASSUME NEW s \in Sessions, Continue(s)
      PROVE  Goal
  <2> USE DEF Return, Proceed
  <2>1. CASE \E from \in Busy : Return(s, from)
    BY <2>1 DEF TypeOK
  <2>2. CASE CdCheck(s) /\ ~IsBeingDeleted(target[s]) /\ Proceed(s, "cd_check", "cd_leave")
    BY <2>2 DEF TypeOK
  <2>3. CASE \E from \in PastTest, to \in PastTest : Proceed(s, from, to)
    BY <2>3 DEF TypeOK
  <2>4. CASE \E from \in RmSteps, to \in RmSteps : Proceed(s, from, to)
    BY <2>4 DEF TypeOK, RmSteps
  <2>5. \/ \E from \in Busy : Return(s, from)
        \/ CdCheck(s) /\ ~IsBeingDeleted(target[s]) /\ Proceed(s, "cd_check", "cd_leave")
        \/ \E from \in PastTest, to \in PastTest : Proceed(s, from, to)
        \/ \E from \in RmSteps, to \in RmSteps : Proceed(s, from, to)
    <3> USE DEF Busy, Guarded, LoginSteps, CdSteps, RmSteps
    <3>1. CASE \E u \in Users : Relogin(s, u)
      BY <3>1 DEF Relogin
    <3>2. CASE Logout(s)
      BY <3>2 DEF Logout
    <3>3. CASE CdCheck(s)
      BY <3>3 DEF CdCheck
    <3>4. CASE CdLeave(s)
      BY <3>4 DEF CdLeave
    <3>5. CASE CdEnter(s)
      BY <3>5 DEF CdEnter
    <3>6. CASE MkdirRead(s)
      BY <3>6 DEF MkdirRead
    <3>7. CASE MkdirExists(s)
      BY <3>7 DEF MkdirExists
    <3>8. CASE MkdirParent(s)
      BY <3>8 DEF MkdirParent
    <3>9. CASE MkdirExec(s)
      BY <3>9 DEF MkdirExec
    <3>10. CASE MkdirRelease(s)
      BY <3>10 DEF MkdirRelease
    <3>11. CASE RmMark(s)
      BY <3>11 DEF RmMark
    <3>12. CASE RmExists(s)
      BY <3>12 DEF RmExists
    <3>13. CASE RmExit(s)
      BY <3>13 DEF RmExit
    <3>14. CASE RmRelease(s)
      BY <3>14 DEF RmRelease
    <3>15. CASE PutCheck(s)
      BY <3>15 DEF PutCheck
    <3> QED BY <1>3, <3>1, <3>2, <3>3, <3>4, <3>5, <3>6, <3>7, <3>8, <3>9, <3>10, <3>11,
               <3>12, <3>13, <3>14, <3>15 DEF Continue
  <2> QED BY <2>1, <2>2, <2>3, <2>4, <2>5
<1>4. ASSUME NEW s \in Sessions, RmUnlink(s)
      PROVE  Goal
  BY <1>4 DEF RmUnlink
<1>5. ASSUME NEW w \in Writers, PutOpens(w)
      PROVE  Goal
  BY <1>5 DEF PutOpens
<1> QED BY <1>1, <1>2, <1>3, <1>4, <1>5 DEF Next

(* A directory appears by the mkdir step of a session that is about it.    *)
LEMMA WhoMakes ==
    ASSUME [Next]_vars, NEW p \in dirs' \ dirs
    PROVE  \E s \in Sessions : pc[s] = "mkdir_exec" /\ target[s] = p
<1> USE DEF tree
<1>1. CASE UNCHANGED vars
  BY <1>1 DEF vars
<1>2. ASSUME NEW s \in Sessions, Command(s)
      PROVE  UNCHANGED dirs
  BY <1>2 DEF Command, Connect, Leave, Reject, Deny, Query, Ping, BadPath, LoginUnknown,
     PassRefused, PassOk, Login, ClearRead, CdRefused, CdStart, MkdirRefused, MkdirStart,
     RmRefused, RmStart, PutStart
<1>3. ASSUME NEW s \in Sessions, Continue(s)
      PROVE  pc[s] = "mkdir_exec" /\ target[s] = p
  <2>1. UNCHANGED dirs \/ MkdirExec(s)
    BY <1>3 DEF Continue, Relogin, Logout, CdCheck, CdLeave, CdEnter, MkdirRead, MkdirExists,
       MkdirParent, MkdirRelease, RmMark, RmExists, RmExit, RmRelease, PutCheck
  <2> QED BY <2>1 DEF MkdirExec, Proceed, Made
<1>4. ASSUME NEW s \in Sessions, RmUnlink(s)
      PROVE  FALSE
  BY <1>4 DEF RmUnlink
<1>5. ASSUME NEW w \in Writers, PutOpens(w)
      PROVE  UNCHANGED dirs
  BY <1>5 DEF PutOpens
<1> QED BY <1>1, <1>2, <1>3, <1>4, <1>5 DEF Next

(* Once an entry is marked and the cd and mkdir towards it that had passed *)
(* their test are over, nothing enters it or makes it again.               *)
THEOREM SealedIsForever == Spec => SealedStays
<1>1. ASSUME TypeOK, [Next]_vars, NEW p, p # <<>>, IsBeingDeleted(p), NoneUnderWay(p)
      PROVE  /\ NoneUnderWay(p)'
             /\ p \in dirs' => p \in dirs
             /\ \A s \in Sessions : cwd'[s] = p => cwd[s] = p
  <2>1. \A t \in Sessions : pc[t] \in PastTest => target[t] # p
    BY <1>1 DEF NoneUnderWay, PastTest
  <2>2. ASSUME NEW t \in Sessions, pc'[t] \in PastTest
        PROVE  target'[t] # p
    BY <1>1, <2>1, <2>2, WhoGetsPast
  <2>3. NoneUnderWay(p)'
    BY <2>2 DEF NoneUnderWay, PastTest
  <2>4. p \in dirs' => p \in dirs
    BY <1>1, <2>1, WhoMakes DEF PastTest, MkdirSteps
  <2>5. ASSUME NEW t \in Sessions, cwd'[t] = p
        PROVE  cwd[t] = p
    <3>1. cwd'[t] = cwd[t] \/ CdEnter(t)
      BY <1>1, <2>5, WhoMoves
    <3>2. ~CdEnter(t)
      BY <1>1, <2>1, <2>5 DEF CdEnter, Return, PastTest, TypeOK
    <3> QED BY <2>5, <3>1, <3>2
  <2> QED BY <2>3, <2>4, <2>5
<1>2. TypeOK /\ SessionInv /\ [Next]_vars => (TypeOK /\ SessionInv)'
  BY TypeNext
<1> DEFINE Sealed == \A p \in UNION {dirs, dirs', {cwd'[s] : s \in Sessions},
                                     {target'[s] : s \in Sessions}} :
               (p # <<>> /\ IsBeingDeleted(p) /\ NoneUnderWay(p)) =>
                   /\ NoneUnderWay(p)'
                   /\ p \in dirs' => p \in dirs
                   /\ \A s \in Sessions : cwd'[s] = p => cwd[s] = p
<1>3. TypeOK /\ [Next]_vars => [Sealed]_vars
  BY <1>1
<1> QED BY TypeInit, <1>2, <1>3, PTL DEF Spec, SealedStays

-----------------------------------------------------------------------------
(* The server implements LoginGate.                                        *)

(* What the changes of a session's account are to the gate.                *)
LEMMA GateIs ==
    ASSUME NEW s \in Sessions, NEW st, NEW u,
           status' = [status EXCEPT ![s] = st], status \in [Sessions -> {-1, 0, 1}],
           user' = [user EXCEPT ![s] = u], user \in [Sessions -> Users \cup {NoUser}]
    PROVE  Gate!Is(s, PhaseOf(st), WhoOf(st, u))
<1>1. phase' = [phase EXCEPT ![s] = PhaseOf(st)]
  BY DEF phase
<1>2. who' = [who EXCEPT ![s] = WhoOf(st, u)]
  BY DEF who
<1> QED BY <1>1, <1>2 DEF Gate!Is

LEMMA GateForget ==
    ASSUME TypeOK, NEW s \in Sessions, Forget(s)
    PROVE  Gate!Is(s, "out", NoUser)
<1>1. PhaseOf(-1) = "out" /\ WhoOf(-1, NoUser) = NoUser
  BY DEF PhaseOf, WhoOf
<1>2. Gate!Is(s, PhaseOf(-1), WhoOf(-1, NoUser))
  BY GateIs DEF Forget, TypeOK
<1> QED BY <1>1, <1>2

LEMMA GateAwait ==
    ASSUME TypeOK, NEW s \in Sessions, NEW u \in Users, Await(s, u)
    PROVE  Gate!Is(s, "auth", u)
<1>1. PhaseOf(0) = "auth" /\ WhoOf(0, u) = u
  BY DEF PhaseOf, WhoOf
<1>2. Gate!Is(s, PhaseOf(0), WhoOf(0, u))
  BY GateIs DEF Await, TypeOK
<1> QED BY <1>1, <1>2

(* A session that is logged in is in.                                      *)
LEMMA GateIn ==
    ASSUME NEW s \in Sessions, status[s] = 1
    PROVE  phase[s] = "in"
  BY DEF phase, PhaseOf

LEMMA GateStays ==
    ASSUME UNCHANGED account
    PROVE  UNCHANGED <<phase, who>>
  BY DEF account, phase, who

(* Every step of the server is a step of the gate or leaves it as it is.   *)
LEMMA GateStep ==
    ASSUME TypeOK, SessionInv, [Next]_vars
    PROVE  [Gate!Next]_<<phase, who, cwd, <<dirs, files>>>>
<1> USE DEF tree
<1> DEFINE Stutter == UNCHANGED <<phase, who, cwd, <<dirs, files>>>>
<1>1. CASE UNCHANGED vars
  BY <1>1, GateStays DEF vars
<1>2. ASSUME NEW s \in Sessions, Command(s)
      PROVE  Gate!Next \/ Stutter
  <2>1. CASE UNCHANGED <<account, cwd, dirs, files>>
    BY <2>1, GateStays
  <2>2. CASE Leave(s)
    BY <2>2, GateForget DEF Leave, Gate!Leave, Gate!Next
  <2>3. CASE Reject(s)
    BY <2>3, GateStays DEF Reject
  <2>4. CASE Forget(s) /\ UNCHANGED <<cwd, dirs, files>>
    BY <2>4, GateForget DEF Gate!Drop, Gate!Next
  <2>5. CASE LoginUnknown(s)
    <3>1. user' = [user EXCEPT ![s] = user[s]]
      BY <2>5 DEF LoginUnknown, TypeOK
    <3>2. PhaseOf(-1) = "out" /\ WhoOf(-1, user[s]) = NoUser
      BY DEF PhaseOf, WhoOf
    <3>3. Gate!Is(s, PhaseOf(-1), WhoOf(-1, user[s]))
      BY <2>5, <3>1, GateIs DEF LoginUnknown, TypeOK
    <3> QED BY <2>5, <3>2, <3>3 DEF LoginUnknown, Gate!Drop, Gate!Next
  <2>6. ASSUME NEW u \in Users, Login(s, u)
        PROVE  Gate!Next
    BY <2>6, GateAwait DEF Login, Gate!Ask, Gate!Next
  <2>7. CASE PassOk(s)
    <3>1. phase[s] = "auth" /\ who[s] = user[s]
      BY <2>7 DEF PassOk, phase, who, PhaseOf, WhoOf
    <3>2. user' = [user EXCEPT ![s] = user[s]]
      BY <2>7 DEF PassOk, TypeOK
    <3>3. PhaseOf(1) = "in" /\ WhoOf(1, user[s]) = user[s]
      BY DEF PhaseOf, WhoOf
    <3>4. Gate!Is(s, PhaseOf(1), WhoOf(1, user[s]))
      BY <2>7, <3>2, GateIs DEF PassOk, TypeOK
    <3>5. Gate!Is(s, "in", who[s])
      BY <3>1, <3>3, <3>4
    <3> QED BY <2>7, <3>1, <3>5 DEF PassOk, Gate!Prove, Gate!Next
  <2>8. \/ UNCHANGED <<account, cwd, dirs, files>>
        \/ Leave(s) \/ Reject(s) \/ LoginUnknown(s) \/ PassOk(s)
        \/ Forget(s) /\ UNCHANGED <<cwd, dirs, files>>
        \/ \E u \in Users : Login(s, u)
    BY <1>2 DEF Command, Connect, Deny, Query, Ping, BadPath, PassRefused, ClearRead,
       CdRefused, CdStart, MkdirRefused, MkdirStart, RmRefused, RmStart, PutStart
  <2> QED BY <2>1, <2>2, <2>3, <2>4, <2>5, <2>6, <2>7, <2>8
<1>3. ASSUME NEW s \in Sessions, Continue(s)
      PROVE  Gate!Next \/ Stutter
  <2>1. CASE UNCHANGED <<account, cwd, dirs, files>>
    BY <2>1, GateStays
  <2>2. ASSUME NEW u \in Users, Relogin(s, u)
        PROVE  Gate!Next
    BY <2>2, GateAwait DEF Relogin, Gate!Ask, Gate!Next
  <2>3. CASE Logout(s)
    BY <2>3, GateForget DEF Logout, Gate!Leave, Gate!Next
  <2>4. CASE CdEnter(s)
    <3>1. phase[s] = "in"
      BY <2>4, GateIn DEF CdEnter, Return, SessionInv, Guarded, CdSteps
    <3>2. cwd' = [cwd EXCEPT ![s] = cwd'[s]]
      BY <2>4 DEF CdEnter, TypeOK
    <3> QED BY <2>4, <3>1, <3>2, GateStays DEF CdEnter, Gate!Move, Gate!Next
  <2>5. CASE MkdirExec(s)
    <3>1. phase[s] = "in"
      BY <2>5, GateIn DEF MkdirExec, Proceed, SessionInv, Guarded, MkdirSteps
    <3> QED BY <2>5, <3>1, GateStays DEF MkdirExec, Gate!Change, Gate!Next
  <2>6. \/ UNCHANGED <<account, cwd, dirs, files>> \/ Logout(s) \/ CdEnter(s) \/ MkdirExec(s)
        \/ \E u \in Users : Relogin(s, u)
    BY <1>3 DEF Continue, CdCheck, CdLeave, MkdirRead, MkdirExists, MkdirParent, MkdirRelease,
       RmMark, RmExists, RmExit, RmRelease, PutCheck
  <2> QED BY <2>1, <2>2, <2>3, <2>4, <2>5, <2>6
<1>4. ASSUME NEW s \in Sessions, RmUnlink(s)
      PROVE  Gate!Next
  <2>1. phase[s] = "in"
    BY <1>4, GateIn DEF RmUnlink, SessionInv, Guarded, RmSteps
  <2> QED BY <1>4, <2>1, GateStays DEF RmUnlink, Gate!Change, Gate!Next
<1>5. ASSUME NEW w \in Writers, PutOpens(w)
      PROVE  Gate!Next
  BY <1>5, GateStays DEF PutOpens, Gate!Store, Gate!Next
<1> QED BY <1>1, <1>2, <1>3, <1>4, <1>5 DEF Next

(* A session is somebody only after login and the password of this user,   *)
(* and only then moves about, makes a directory or removes an entry;       *)
(* without either, a put only adds a file where no directory is.           *)
THEOREM GateIsKept == Spec => ImplementsLoginGate
<1>1. Init => Gate!Init
  BY DEF Init, Gate!Init, phase, who, PhaseOf, WhoOf
<1>2. TypeOK /\ SessionInv /\ [Next]_vars => (TypeOK /\ SessionInv)'
  BY TypeNext
<1>3. TypeOK /\ SessionInv /\ [Next]_vars => [Gate!Next]_<<phase, who, cwd, <<dirs, files>>>>
  BY GateStep
<1> QED BY TypeInit, <1>1, <1>2, <1>3, PTL DEF Spec, ImplementsLoginGate, Gate!GateSpec
=============================================================================
