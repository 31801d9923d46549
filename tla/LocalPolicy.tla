------------------------------ MODULE LocalPolicy ------------------------------
(***************************************************************************)
(* can_edit_feature (app/authorization.py): the answer of OpenFGA, or that *)
(* of a policy file which every call reloads when its modification time    *)
(* has grown.  The threads of a process share one AuthorizationService,    *)
(* and the file is replaced while they run; nothing is locked.             *)
(*                                                                         *)
(* A policy is the set of users it lets edit the feature in question.      *)
(***************************************************************************)
EXTENDS Naturals

CONSTANTS Threads,     \* threads that handle requests
          Users,       \* who asks
          None,        \* nobody
          MaxTime      \* bound: the latest modification time

ASSUME LocalPolicyAssumption ==
  /\ None \notin Users
  /\ MaxTime \in Nat \ {0}

Times == 1..MaxTime
Unset == 0               \* _policy_mtime is None
Unreadable == {None}     \* what a file says that safe_load cannot parse
Contents == (SUBSET Users) \cup {Unreadable}

VARIABLES
  exists,    \* the policy file is there
  content,   \* what it says
  mtime,     \* when it was last modified, as the file system has it
  remote,    \* OpenFGA is configured
  fga,       \* the users OpenFGA permits
  policy,    \* _local_policy
  stamp,     \* _policy_mtime
  pc,        \* where the call of each thread is
  user,      \* who it is about
  seen,      \* its local mtime
  got,       \* what it has parsed
  answer,    \* what the last call of each thread has returned, and by whom
  steady,    \* history: calls during which the file has not been touched
  hidden     \* history: the last change may have gone unnoticed: see Hides

file == << exists, content, mtime >>
settings == << remote, fga >>
service == << policy, stamp >>
locals == << user, seen, got >>
history == << steady, hidden >>
vars == << file, settings, service, pc, locals, answer, history >>

Active == {t \in Threads : pc[t] # "idle"}

NoAnswer == [by |-> "nobody", permit |-> FALSE]

(* What a file that is there permits.                                      *)
Permitted == IF content = Unreadable THEN {} ELSE content

(* The service has been constructed from the file as it is.                *)
Init ==
  /\ exists \in BOOLEAN
  /\ content \in Contents
  /\ mtime \in Times
  /\ remote \in BOOLEAN
  /\ fga \in IF remote THEN SUBSET Users ELSE {{}}
  /\ policy = IF exists THEN Permitted ELSE {}
  /\ stamp = IF exists /\ content # Unreadable THEN mtime ELSE Unset
  /\ pc = [t \in Threads |-> "idle"]
  /\ user = [t \in Threads |-> None]
  /\ seen = [t \in Threads |-> Unset]
  /\ got = [t \in Threads |-> {}]
  /\ answer = [t \in Threads |-> NoAnswer]
  /\ steady = {}
  /\ hidden = FALSE

Goto(t, label) == pc' = [pc EXCEPT ![t] = label]

-------------------------------------------------------------------------------
(* Somebody writes, restores, truncates or removes the file.               *)

(* A change with modification time m cannot be noticed by its time, or a   *)
(* call that has looked at the file before may still overwrite what a      *)
(* later one loads from it.                                                *)
Hides(m) ==
  \/ m <= stamp
  \/ \E t \in Threads :
       \/ pc[t] \in {"nothing", "store", "stat"}
       \/ pc[t] = "stamp" /\ m <= seen[t]

WriteFile(c, m) ==
  /\ << exists, content, mtime >> # << TRUE, c, m >>
  /\ exists' = TRUE
  /\ content' = c
  /\ mtime' = m
  /\ hidden' = Hides(m)
  /\ steady' = {}
  /\ UNCHANGED << settings, service, pc, locals, answer >>

RemoveFile ==
  /\ exists
  /\ exists' = FALSE
  /\ steady' = {}
  /\ UNCHANGED << content, mtime, settings, service, pc, locals, answer, hidden >>

-------------------------------------------------------------------------------
(* can_edit_feature, and first _reload_if_changed.                         *)

Begin(t, u) ==
  /\ pc[t] = "idle"
  /\ user' = [user EXCEPT ![t] = u]
  /\ answer' = [answer EXCEPT ![t] = NoAnswer]
  /\ steady' = steady \cup {t}
  /\ Goto(t, "look")
  /\ UNCHANGED << file, settings, service, seen, got, hidden >>

(* path.exists() and os.path.getmtime(path), whose OSError is swallowed.   *)
Look(t) ==
  /\ pc[t] = "look"
  /\ IF exists THEN Goto(t, "mtime") ELSE Goto(t, "decide")
  /\ UNCHANGED << file, settings, service, locals, answer, history >>

GetMtime(t) ==
  /\ pc[t] = "mtime"
  /\ IF exists
     THEN seen' = [seen EXCEPT ![t] = mtime] /\ Goto(t, "compare")
     ELSE Goto(t, "decide") /\ UNCHANGED seen
  /\ UNCHANGED << file, settings, service, user, got, answer, history >>

Compare(t) ==
  /\ pc[t] = "compare"
  /\ Goto(t, IF stamp = Unset \/ seen[t] > stamp THEN "load" ELSE "decide")
  /\ seen' = [seen EXCEPT ![t] = Unset]
  /\ UNCHANGED << file, settings, service, user, got, answer, history >>

-------------------------------------------------------------------------------
(* _load_local_policy.                                                     *)

Load(t) ==
  /\ pc[t] = "load"
  /\ Goto(t, IF exists THEN "open" ELSE "nothing")
  /\ UNCHANGED << file, settings, service, locals, answer, history >>

(* Slip: whatever the file holds is taken for a policy.                    *)
OpenUnchecked(t) ==
  /\ pc[t] = "open"
  /\ got' = [got EXCEPT ![t] = content]
  /\ Goto(t, "store")
  /\ UNCHANGED << file, settings, service, user, seen, answer, history >>

Open(t) ==
  /\ pc[t] = "open"
  /\ IF exists /\ content # Unreadable
     THEN got' = [got EXCEPT ![t] = content] /\ Goto(t, "store")
     ELSE Goto(t, "nothing") /\ UNCHANGED got
  /\ UNCHANGED << file, settings, service, user, seen, answer, history >>

(* No file, or an exception: nobody is permitted, and stamp stays.         *)
StoreNothing(t) ==
  /\ pc[t] = "nothing"
  /\ policy' = {}
  /\ Goto(t, "decide")
  /\ UNCHANGED << file, settings, stamp, locals, answer, history >>

(* Slip: an empty file leaves the policy as it was.                        *)
StoreUnlessEmpty(t) ==
  /\ pc[t] = "store"
  /\ policy' = IF got[t] = {} THEN policy ELSE got[t]
  /\ got' = [got EXCEPT ![t] = {}]
  /\ Goto(t, "stat")
  /\ UNCHANGED << file, settings, stamp, user, seen, answer, history >>

Store(t) ==
  /\ pc[t] = "store"
  /\ policy' = got[t]
  /\ got' = [got EXCEPT ![t] = {}]
  /\ Goto(t, "stat")
  /\ UNCHANGED << file, settings, stamp, user, seen, answer, history >>

(* The time is that of the file as it is now, not as it was when parsed.   *)
Stat(t) ==
  /\ pc[t] = "stat"
  /\ IF exists
     THEN seen' = [seen EXCEPT ![t] = mtime] /\ Goto(t, "stamp")
     ELSE Goto(t, "nothing") /\ UNCHANGED seen
  /\ UNCHANGED << file, settings, service, user, got, answer, history >>

Stamp(t) ==
  /\ pc[t] = "stamp"
  /\ stamp' = seen[t]
  /\ seen' = [seen EXCEPT ![t] = Unset]
  /\ Goto(t, "decide")
  /\ UNCHANGED << file, settings, policy, user, got, answer, history >>

-------------------------------------------------------------------------------
(* The decision.                                                           *)

Return(t, who, permits) ==
  /\ answer' = [answer EXCEPT ![t] = [by |-> who, permit |-> user[t] \in permits]]
  /\ user' = [user EXCEPT ![t] = None]
  /\ steady' = steady \ {t}
  /\ Goto(t, "idle")
  /\ UNCHANGED << file, settings, service, seen, got, hidden >>

AskOpenFGA(t) ==
  /\ pc[t] = "decide" /\ remote
  /\ Return(t, "openfga", fga)

(* Also when OpenFGA is configured and the check has failed.               *)
AskLocalPolicy(t) ==
  /\ pc[t] = "decide"
  /\ Return(t, "local", policy)

Proceed(t) ==
  \/ Look(t)
  \/ GetMtime(t)
  \/ Compare(t)
  \/ Load(t)
  \/ Open(t)
  \/ StoreNothing(t)
  \/ Store(t)
  \/ Stat(t)
  \/ Stamp(t)
  \/ AskOpenFGA(t)
  \/ AskLocalPolicy(t)

Next ==
  \/ \E t \in Threads : (\E u \in Users : Begin(t, u)) \/ Proceed(t)
  \/ \E c \in Contents, m \in Times : WriteFile(c, m)
  \/ RemoveFile

Spec == Init /\ [][Next]_vars

-------------------------------------------------------------------------------
(***************************************************************************)
(* Properties                                                              *)
(***************************************************************************)

Labels == {"idle", "look", "mtime", "compare", "load", "open", "nothing", "store",
           "stat", "stamp", "decide"}

(* Variables are typed; the policy in force is one, never a file that      *)
(* could not be parsed.                                                    *)
TypeOK ==
  /\ exists \in BOOLEAN
  /\ content \in Contents
  /\ mtime \in Times
  /\ remote \in BOOLEAN
  /\ fga \subseteq Users
  /\ policy \subseteq Users
  /\ stamp \in Times \cup {Unset}
  /\ pc \in [Threads -> Labels]
  /\ user \in [Threads -> Users \cup {None}]
  /\ \A t \in Active : user[t] \in Users
  /\ seen \in [Threads -> Times \cup {Unset}]
  /\ got \in [Threads -> SUBSET Users]
  /\ answer \in [Threads -> [by : {"nobody", "openfga", "local"}, permit : BOOLEAN]]
  /\ steady \subseteq Active
  /\ hidden \in BOOLEAN

Returns(t) == t \in Active /\ pc'[t] = "idle"

(* Hot reload: a call that decides by the local policy decides by the file *)
(* as it is, if the file is there and nobody touches it during the call -  *)
(* unless the last change of the file was hidden from the service: by a    *)
(* modification time that did not grow, or because some other call was in  *)
(* the middle of loading.  Then the policy in force can be any older one,  *)
(* or none, until a later change that is not hidden.                       *)
DecisionIsCurrent ==
  [][\A t \in Threads :
       Returns(t) /\ answer'[t].by = "local" /\ t \in steady /\ exists /\ ~hidden =>
         answer'[t].permit = (user[t] \in Permitted)]_vars
===============================================================================
