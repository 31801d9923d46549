--------------------------- MODULE LocalPolicyProofs ---------------------------
(***************************************************************************)
(* Theorems of LocalPolicy: its types, and that hot reload works whenever  *)
(* the last change of the policy file has not been hidden, for any number  *)
(* of threads, users and changes.                                          *)
(***************************************************************************)
EXTENDS LocalPolicy, TLAPS

(* What a call knows of a file whose last change was not hidden: all that  *)
(* is on its way into the service comes from the file as it is.            *)
Current(t) ==
  /\ pc[t] = "nothing" => Permitted = {}
  /\ pc[t] = "store" => got[t] = Permitted
  /\ pc[t] = "stat" => policy = Permitted
  /\ pc[t] = "stamp" => seen[t] <= mtime /\ (seen[t] = mtime => policy = Permitted)
  /\ t \in steady =>
       /\ pc[t] \in {"compare", "stamp"} => seen[t] = mtime
       /\ pc[t] = "decide" => policy = Permitted

CurrentInv ==
  exists /\ ~hidden =>
    /\ stamp <= mtime
    /\ stamp = mtime => policy = Permitted
    /\ \A t \in Threads : Current(t)
-------------------------------------------------------------------------------
(* Types.                                                                  *)

LEMMA PermittedType ==
  ASSUME TypeOK
  PROVE  Permitted \subseteq Users /\ (content # Unreadable => Permitted = content)
BY DEF TypeOK, Permitted, Contents

LEMMA InitType == Init => TypeOK
<1> SUFFICES ASSUME Init PROVE TypeOK
  OBVIOUS
<1>1. Permitted \subseteq Users
  BY DEF Init, Permitted, Contents
<1>2. policy \subseteq Users /\ fga \subseteq Users
  BY <1>1 DEF Init
<1>3. QED
  BY <1>2 DEF Init, TypeOK, Labels, Active, NoAnswer

(* A step of a call that neither begins nor ends it.                       *)
Inner(t) ==
  \/ Look(t)
  \/ GetMtime(t)
  \/ Compare(t)
  \/ Load(t)
  \/ Open(t)
  \/ StoreNothing(t)
  \/ Store(t)
  \/ Stat(t)
  \/ Stamp(t)

LEMMA InnerType ==
  ASSUME TypeOK, NEW t \in Threads, Inner(t)
  PROVE  TypeOK'
<1> USE DEF TypeOK, Labels, Goto, Active, file, settings, service, locals, history
<1>1. CASE Look(t)
  BY <1>1 DEF Look
<1>2. CASE GetMtime(t)
  BY <1>2 DEF GetMtime
<1>3. CASE Compare(t)
  BY <1>3 DEF Compare
<1>4. CASE Load(t)
  BY <1>4 DEF Load
<1>5. CASE Open(t)
  BY <1>5 DEF Open, Contents
<1>6. CASE StoreNothing(t)
  BY <1>6 DEF StoreNothing
<1>7. CASE Store(t)
  BY <1>7 DEF Store
<1>8. CASE Stat(t)
  BY <1>8 DEF Stat
<1>9. CASE Stamp(t)
  BY <1>9 DEF Stamp
<1>10. QED
  BY <1>1, <1>2, <1>3, <1>4, <1>5, <1>6, <1>7, <1>8, <1>9 DEF Inner

LEMMA TypeStep ==
  ASSUME TypeOK, [Next]_vars
  PROVE  TypeOK'
<1>1. CASE UNCHANGED vars
  BY <1>1 DEF vars, file, settings, service, locals, history, TypeOK, Active
<1>2. ASSUME NEW t \in Threads, NEW u \in Users, Begin(t, u) PROVE TypeOK'
  BY <1>2 DEF Begin, Goto, TypeOK, Labels, Active, NoAnswer, file, settings, service
<1>3. ASSUME NEW t \in Threads, Inner(t) PROVE TypeOK'
  BY <1>3, InnerType
<1>4. ASSUME NEW t \in Threads, AskOpenFGA(t) \/ AskLocalPolicy(t) PROVE TypeOK'
  <2>1. /\ \E who \in {"openfga", "local"} : \E permits : Return(t, who, permits)
        /\ pc[t] = "decide"
    BY <1>4 DEF AskOpenFGA, AskLocalPolicy
  <2>2. QED
    BY <2>1 DEF Return, Goto, TypeOK, Labels, Active, file, settings, service
<1>5. ASSUME NEW c \in Contents, NEW m \in Times, WriteFile(c, m) PROVE TypeOK'
  BY <1>5 DEF WriteFile, Hides, TypeOK, Active, settings, service, locals
<1>6. CASE RemoveFile
  BY <1>6 DEF RemoveFile, TypeOK, Active, settings, service, locals
<1>7. QED
  BY <1>1, <1>2, <1>3, <1>4, <1>5, <1>6 DEF Next, Proceed, Inner

(* Every variable keeps its type: in particular the policy in force never  *)
(* is what a file says that cannot be parsed.                              *)
THEOREM PolicyTypeCorrect == Spec => []TypeOK
<1>1. TypeOK /\ [Next]_vars => TypeOK'
  BY TypeStep
<1>2. QED
  BY <1>1, InitType, PTL DEF Spec

-------------------------------------------------------------------------------
(* Hot reload.                                                             *)

LEMMA InitCurrent == Init => CurrentInv
<1> SUFFICES ASSUME Init, exists PROVE CurrentInv
  BY DEF CurrentInv
<1>1. mtime \in Nat /\ stamp \in {mtime, Unset} /\ policy = Permitted
  BY DEF Init, Times
<1>2. \A t \in Threads : pc[t] = "idle" /\ t \notin steady
  BY DEF Init
<1>3. QED
  BY <1>1, <1>2 DEF CurrentInv, Current, Unset

(* The file is written: either nothing of the old one is on its way into   *)
(* the service and the time has grown, or the change is hidden.            *)
LEMMA WriteCurrent ==
  ASSUME TypeOK, NEW c \in Contents, NEW m \in Times, WriteFile(c, m)
  PROVE  CurrentInv'
<1>1. SUFFICES ASSUME ~hidden' PROVE CurrentInv'
  BY DEF CurrentInv
<1>2. /\ ~(m <= stamp)
      /\ \A t \in Threads : /\ pc[t] \notin {"nothing", "store", "stat"}
                            /\ pc[t] = "stamp" => ~(m <= seen[t])
  BY <1>1 DEF WriteFile, Hides
<1>3. mtime' = m /\ steady' = {} /\ UNCHANGED << stamp, pc, seen >>
  BY DEF WriteFile, service, locals
<1>4. m \in Nat /\ stamp \in Nat /\ \A t \in Threads : seen[t] \in Nat
  BY DEF TypeOK, Times, Unset
<1>5. QED
  BY <1>2, <1>3, <1>4 DEF CurrentInv, Current

(* While the file stays as it is, a call stores nothing but what it says.  *)
LEMMA InnerCurrent ==
  ASSUME TypeOK, exists, ~hidden, CurrentInv, NEW t \in Threads, Inner(t)
  PROVE  CurrentInv'
<1>0. /\ stamp <= mtime /\ (stamp = mtime => policy = Permitted)
      /\ \A q \in Threads : Current(q)
  BY DEF CurrentInv
<1>1. UNCHANGED << exists, content, mtime, hidden, steady >>
  BY DEF Inner, Look, GetMtime, Compare, Load, Open, StoreNothing, Store, Stat, Stamp,
         file, history
<1>2. Permitted' = Permitted
  BY <1>1 DEF Permitted
<1>3. policy' \in {policy, Permitted}
  BY <1>0 DEF Inner, Look, GetMtime, Compare, Load, Open, StoreNothing, Store, Stat, Stamp,
              service, Current
<1>4. \A q \in Threads : q # t => pc'[q] = pc[q] /\ seen'[q] = seen[q] /\ got'[q] = got[q]
  BY DEF Inner, Look, GetMtime, Compare, Load, Open, StoreNothing, Store, Stat, Stamp,
         locals, Goto, TypeOK
<1>5. \A q \in Threads : q # t => Current(q)'
  BY <1>0, <1>1, <1>2, <1>3, <1>4 DEF Current
<1>6. mtime \in Nat \ {0} /\ stamp \in Nat
  BY DEF TypeOK, Times, Unset
<1>7. Current(t)'
  <2>0. Current(t)
    BY <1>0
  <2> USE <1>1, <1>2, <1>6, <2>0 DEF Current, Goto, TypeOK
  <2>1. CASE Look(t)
    BY <2>1 DEF Look
  <2>2. CASE GetMtime(t)
    BY <2>2 DEF GetMtime, service, locals
  <2>3. CASE Compare(t)
    BY <2>3, <1>0 DEF Compare, Unset, Times, service
  <2>4. CASE Load(t)
    BY <2>4 DEF Load, locals, service
  <2>5. CASE Open(t)
    BY <2>5 DEF Open, Permitted, service
  <2>6. CASE StoreNothing(t)
    BY <2>6 DEF StoreNothing, locals
  <2>7. CASE Store(t)
    BY <2>7 DEF Store
  <2>8. CASE Stat(t)
    BY <2>8 DEF Stat, service
  <2>9. CASE Stamp(t)
    BY <2>9 DEF Stamp
  <2>10. QED
    BY <2>1, <2>2, <2>3, <2>4, <2>5, <2>6, <2>7, <2>8, <2>9 DEF Inner
<1>8. stamp' <= mtime /\ (stamp' = mtime => policy' = Permitted)
  <2>1. CASE Stamp(t)
    BY <1>0, <2>1 DEF Stamp, Current
  <2>2. CASE stamp' = stamp
    BY <1>0, <1>3, <2>2
  <2>3. QED
    BY <2>1, <2>2 DEF Inner, Look, GetMtime, Compare, Load, Open, StoreNothing, Store, Stat,
                      service
<1>9. QED
  BY <1>1, <1>2, <1>5, <1>7, <1>8 DEF CurrentInv

LEMMA CurrentStep ==
  ASSUME TypeOK, CurrentInv, [Next]_vars
  PROVE  CurrentInv'
<1>1. CASE UNCHANGED vars
  BY <1>1 DEF vars, file, settings, service, locals, history, CurrentInv, Current, Permitted
<1>2. ASSUME NEW t \in Threads, NEW u \in Users, Begin(t, u) PROVE CurrentInv'
  <2>1. UNCHANGED << exists, content, mtime, hidden, policy, stamp, seen, got >>
    BY <1>2 DEF Begin, file, service
  <2>2. Permitted' = Permitted
    BY <2>1 DEF Permitted
  <2>3. /\ \A q \in Threads : q # t => pc'[q] = pc[q] /\ (q \in steady' <=> q \in steady)
        /\ pc'[t] = "look"
    BY <1>2 DEF Begin, Goto, TypeOK
  <2>4. ASSUME NEW q \in Threads, Current(q) PROVE Current(q)'
    BY <2>1, <2>2, <2>3, <2>4 DEF Current
  <2>5. QED
    BY <2>1, <2>2, <2>4 DEF CurrentInv
<1>3. ASSUME NEW t \in Threads, Inner(t) PROVE CurrentInv'
  <2>1. CASE exists /\ ~hidden
    BY <1>3, <2>1, InnerCurrent
  <2>2. CASE ~(exists /\ ~hidden)
    <3>1. UNCHANGED << exists, hidden >>
      BY <1>3 DEF Inner, Look, GetMtime, Compare, Load, Open, StoreNothing, Store, Stat, Stamp,
                  file, history
    <3>2. QED
      BY <2>2, <3>1 DEF CurrentInv
  <2>3. QED
    BY <2>1, <2>2
<1>4. ASSUME NEW t \in Threads, AskOpenFGA(t) \/ AskLocalPolicy(t) PROVE CurrentInv'
  <2>1. UNCHANGED << exists, content, mtime, hidden, policy, stamp, seen, got >>
    BY <1>4 DEF AskOpenFGA, AskLocalPolicy, Return, file, service
  <2>2. Permitted' = Permitted
    BY <2>1 DEF Permitted
  <2>3. /\ \A q \in Threads : q # t => pc'[q] = pc[q] /\ (q \in steady' <=> q \in steady)
        /\ pc'[t] = "idle"
    BY <1>4 DEF AskOpenFGA, AskLocalPolicy, Return, Goto, TypeOK
  <2>4. ASSUME NEW q \in Threads, Current(q) PROVE Current(q)'
    BY <2>1, <2>2, <2>3, <2>4 DEF Current
  <2>5. QED
    BY <2>1, <2>2, <2>4 DEF CurrentInv
<1>5. ASSUME NEW c \in Contents, NEW m \in Times, WriteFile(c, m) PROVE CurrentInv'
  BY <1>5, WriteCurrent
<1>6. CASE RemoveFile
  BY <1>6 DEF RemoveFile, CurrentInv
<1>7. QED
  BY <1>1, <1>2, <1>3, <1>4, <1>5, <1>6 DEF Next, Proceed, Inner

(* What the service holds is the file as it is, or is not yet stamped.     *)
THEOREM PolicyIsCurrent == Spec => []CurrentInv
<1>1. TypeOK /\ CurrentInv /\ [Next]_vars => CurrentInv'
  BY CurrentStep
<1>2. QED
  BY <1>1, InitCurrent, PolicyTypeCorrect, PTL DEF Spec

(* can_edit_feature decides by the file as it is, for every number of      *)
(* threads that reload it at the same time.                                *)
THEOREM DecisionsAreCurrent == Spec => DecisionIsCurrent
<1> DEFINE A == \A t \in Threads :
                  Returns(t) /\ answer'[t].by = "local" /\ t \in steady /\ exists /\ ~hidden =>
                    answer'[t].permit = (user[t] \in Permitted)
<1>1. ASSUME TypeOK, CurrentInv, Next PROVE A
  <2>1. SUFFICES ASSUME NEW t \in Threads, Returns(t), answer'[t].by = "local", t \in steady,
                        exists, ~hidden
                 PROVE  answer'[t].permit = (user[t] \in Permitted)
    OBVIOUS
  <2>2. pc[t] # "idle" /\ pc'[t] = "idle"
    BY <2>1 DEF Returns, Active
  <2>3. PICK q \in Threads : AskOpenFGA(q) \/ AskLocalPolicy(q)
    BY <1>1, <2>2 DEF Next, Proceed, Begin, Look, GetMtime, Compare, Load, Open, StoreNothing,
       Store, Stat, Stamp, WriteFile, RemoveFile, Goto, TypeOK
  <2>4. q = t
    BY <1>1, <2>2, <2>3 DEF AskOpenFGA, AskLocalPolicy, Return, Goto, TypeOK
  <2>5. AskLocalPolicy(t)
    BY <1>1, <2>1, <2>3, <2>4 DEF AskOpenFGA, Return, TypeOK
  <2>6. answer'[t].permit = (user[t] \in policy) /\ pc[t] = "decide"
    BY <1>1, <2>5 DEF AskLocalPolicy, Return, TypeOK
  <2>7. policy = Permitted
    BY <1>1, <2>1, <2>6 DEF CurrentInv, Current
  <2>8. QED
    BY <2>6, <2>7
<1>2. TypeOK /\ CurrentInv /\ [Next]_vars => [A]_vars
  BY <1>1
<1>3. QED
  BY <1>2, PolicyTypeCorrect, PolicyIsCurrent, PTL DEF Spec, DecisionIsCurrent
===============================================================================
