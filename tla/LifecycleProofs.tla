-------------------------- MODULE LifecycleProofs --------------------------
(***************************************************************************)
(* Operations on the running system, for any workloads, pool of threads    *)
(* and number of containers that break: what the state file says of        *)
(* commitment and telemetry, and what a mission command acknowledges.      *)
(***************************************************************************)
EXTENDS Lifecycle, TLAPS

UpdateNames == Phases \union {"ACCEPTED", "RUN", "PENDING", "COMMITTED", "RECONCILED"}

DoNames ==
  {"build", "create", "apply", "commit", "store", "observe", "preflight", "down", "lock",
   "participants_live", "unlock", "publish", "load", "packet_ready", "choose", "raise", "before"}

AwaitNames ==
  AllKinds \union {"sionna", "ros_container", "ros_graph", "packet_runtime", "isaac_process",
                   "isaac_scene", "live_telemetry"}

Steps ==
  ({"update"} \X UpdateNames) \union ({"do"} \X DoNames) \union ({"await"} \X AwaitNames)
  \union ({"ensure"} \X Services)

\* The updates that claim a revision is committed, and the steps that give an operation
\* another revision.
Claims == {Update("COMMITTED"), Update("RECONCILED"), Update("READY")}
Changes == {Do("create"), Do("choose")}
PlainSteps == Steps \ (Claims \union {Do("commit")})

\* Every claim still to be made comes after a commit of the same revision; when backed,
\* the operation's revision is committed already.
Justified(todo, backed) ==
  \A i \in 1..Len(todo) : todo[i] \in Claims =>
    \/ backed /\ \A k \in 1..(i - 1) : todo[k] \notin Changes
    \/ \E j \in 1..(i - 1) : /\ todo[j] = Do("commit")
                             /\ \A k \in (j + 1)..(i - 1) : todo[k] \notin Changes

\* Every commit comes when the operation has a revision.
Created(todo, given) ==
  \A i \in 1..Len(todo) : todo[i] = Do("commit") =>
    given \/ \E j \in 1..(i - 1) : todo[j] = Do("create")

\* The operation's revision is committed by the end, whatever it was before.
Commits(todo) ==
  \E j \in 1..Len(todo) : /\ todo[j] = Do("commit")
                          /\ \A k \in (j + 1)..Len(todo) : todo[k] \notin Changes

WellFormed == {todo \in Seq(Steps) : Justified(todo, FALSE) /\ Created(todo, FALSE)}

-----------------------------------------------------------------------------
(* Lists of steps.                                                           *)

LEMMA TailFacts ==
  ASSUME NEW S, NEW s \in Seq(S), s # <<>>
  PROVE  /\ Tail(s) \in Seq(S) /\ Head(s) \in S /\ Head(s) = s[1]
         /\ Len(s) \in Nat /\ Len(s) >= 1 /\ Len(Tail(s)) = Len(s) - 1
         /\ \A i \in 1..Len(Tail(s)) : Tail(s)[i] = s[i + 1]
  OBVIOUS

LEMMA ConcatFacts ==
  ASSUME NEW S, NEW s \in Seq(S), NEW t \in Seq(S)
  PROVE  /\ s \o t \in Seq(S) /\ Len(s \o t) = Len(s) + Len(t)
         /\ Len(s) \in Nat /\ Len(t) \in Nat
         /\ \A i \in 1..Len(s) : (s \o t)[i] = s[i]
         /\ \A i \in 1..Len(t) : (s \o t)[i + Len(s)] = t[i]
  OBVIOUS

LEMMA StepsDistinct ==
  /\ Do("commit") \notin Claims /\ Do("commit") \notin Changes
  /\ Claims \intersect Changes = {} /\ Do("create") # Do("choose")
  /\ Claims \subseteq Steps /\ Changes \subseteq Steps /\ Do("commit") \in Steps
  BY DEF Claims, Changes, Update, Do, Steps, UpdateNames, DoNames, Phases

LEMMA PlainWellFormed ==
  ASSUME NEW s \in Seq(PlainSteps)
  PROVE  s \in WellFormed
<1>1. \A i \in 1..Len(s) : s[i] \in PlainSteps
  OBVIOUS
<1>2. s \in Seq(Steps)
  <2>1. PlainSteps \subseteq Steps
    BY DEF PlainSteps
  <2>. QED
    BY <1>1, <2>1
<1>. QED
  BY <1>1, <1>2 DEF WellFormed, Justified, Created, PlainSteps

LEMMA ConcatCreated ==
  ASSUME NEW s \in Seq(Steps), NEW t \in Seq(Steps), NEW given \in BOOLEAN,
         Created(s, given), Created(t, given)
  PROVE  Created(s \o t, given)
<1>1. /\ Len(s \o t) = Len(s) + Len(t) /\ Len(s) \in Nat /\ Len(t) \in Nat
      /\ \A i \in 1..Len(s) : (s \o t)[i] = s[i]
      /\ \A i \in 1..Len(t) : (s \o t)[i + Len(s)] = t[i]
  BY ConcatFacts
<1>2. ASSUME NEW i \in 1..Len(s \o t), (s \o t)[i] = Do("commit"), ~given
      PROVE  \E j \in 1..(i - 1) : (s \o t)[j] = Do("create")
  <2>1. CASE i \in 1..Len(s)
    <3>1. PICK j \in 1..(i - 1) : s[j] = Do("create")
      BY <1>1, <1>2, <2>1 DEF Created
    <3>. QED
      BY <1>1, <2>1, <3>1
  <2>2. CASE i \notin 1..Len(s)
    <3>1. i - Len(s) \in 1..Len(t) /\ t[i - Len(s)] = Do("commit")
      BY <1>1, <1>2, <2>2
    <3>2. PICK j \in 1..(i - Len(s) - 1) : t[j] = Do("create")
      BY <1>2, <3>1 DEF Created
    <3>3. j + Len(s) \in 1..(i - 1) /\ (s \o t)[j + Len(s)] = Do("create")
      BY <1>1, <3>1, <3>2
    <3>. QED
      BY <3>3
  <2>. QED
    BY <2>1, <2>2
<1>. QED
  BY <1>2 DEF Created

\* A list that commits justifies the claims of the one after it.
LEMMA ConcatJustified ==
  ASSUME NEW s \in Seq(Steps), NEW t \in Seq(Steps), NEW backed \in BOOLEAN,
         Justified(s, backed), Justified(t, FALSE) \/ (Commits(s) /\ Justified(t, TRUE))
  PROVE  Justified(s \o t, backed)
<1>1. /\ Len(s \o t) = Len(s) + Len(t) /\ Len(s) \in Nat /\ Len(t) \in Nat
      /\ \A i \in 1..Len(s) : (s \o t)[i] = s[i]
      /\ \A i \in 1..Len(t) : (s \o t)[i + Len(s)] = t[i]
  BY ConcatFacts
<1>2. ASSUME NEW i \in 1..Len(s \o t), (s \o t)[i] \in Claims
      PROVE  \/ backed /\ \A k \in 1..(i - 1) : (s \o t)[k] \notin Changes
             \/ \E j \in 1..(i - 1) : /\ (s \o t)[j] = Do("commit")
                                      /\ \A k \in (j + 1)..(i - 1) : (s \o t)[k] \notin Changes
  <2>1. CASE i \in 1..Len(s)
    <3>1. s[i] \in Claims /\ \A k \in 1..(i - 1) : (s \o t)[k] = s[k]
      BY <1>1, <1>2, <2>1
    <3>2. CASE backed /\ \A k \in 1..(i - 1) : s[k] \notin Changes
      BY <3>1, <3>2
    <3>3. ASSUME NEW j \in 1..(i - 1), s[j] = Do("commit"),
                 \A k \in (j + 1)..(i - 1) : s[k] \notin Changes
          PROVE  \E m \in 1..(i - 1) : /\ (s \o t)[m] = Do("commit")
                                       /\ \A k \in (m + 1)..(i - 1) : (s \o t)[k] \notin Changes
      <4>1. \A k \in (j + 1)..(i - 1) : k \in 1..(i - 1)
        BY <2>1, <3>3
      <4>. QED
        BY <3>1, <3>3, <4>1
    <3>. QED
      BY <2>1, <3>1, <3>2, <3>3 DEF Justified
  <2>2. CASE i \notin 1..Len(s)
    <3>. DEFINE n == i - Len(s)
    <3>1. n \in 1..Len(t) /\ t[n] \in Claims
      BY <1>1, <1>2, <2>2
    <3>2. ASSUME NEW j \in 1..(n - 1), t[j] = Do("commit"),
                 \A k \in (j + 1)..(n - 1) : t[k] \notin Changes
          PROVE  \E m \in 1..(i - 1) : /\ (s \o t)[m] = Do("commit")
                                       /\ \A k \in (m + 1)..(i - 1) : (s \o t)[k] \notin Changes
      <4>1. j + Len(s) \in 1..(i - 1) /\ (s \o t)[j + Len(s)] = Do("commit")
        BY <1>1, <3>1, <3>2
      <4>2. ASSUME NEW k \in (j + Len(s) + 1)..(i - 1)
            PROVE  (s \o t)[k] \notin Changes
        <5>1. k - Len(s) \in (j + 1)..(n - 1) /\ k - Len(s) \in 1..Len(t)
          BY <1>1, <3>1, <3>2
        <5>2. (s \o t)[k] = t[k - Len(s)]
          BY <1>1, <5>1
        <5>. QED
          BY <3>2, <5>1, <5>2
      <4>. QED
        BY <4>1, <4>2
    <3>3. ASSUME Commits(s), \A k \in 1..(n - 1) : t[k] \notin Changes
          PROVE  \E m \in 1..(i - 1) : /\ (s \o t)[m] = Do("commit")
                                       /\ \A k \in (m + 1)..(i - 1) : (s \o t)[k] \notin Changes
      <4>1. PICK m \in 1..Len(s) : /\ s[m] = Do("commit")
                                   /\ \A k \in (m + 1)..Len(s) : s[k] \notin Changes
        BY <3>3 DEF Commits
      <4>2. m \in 1..(i - 1) /\ (s \o t)[m] = Do("commit")
        BY <1>1, <2>2, <4>1
      <4>3. ASSUME NEW k \in (m + 1)..(i - 1)
            PROVE  (s \o t)[k] \notin Changes
        <5>1. CASE k <= Len(s)
          BY <1>1, <4>1, <5>1
        <5>2. CASE k > Len(s)
          <6>1. k - Len(s) \in 1..(n - 1) /\ k - Len(s) \in 1..Len(t)
            BY <1>1, <3>1, <5>2
          <6>2. (s \o t)[k] = t[k - Len(s)]
            BY <1>1, <6>1
          <6>. QED
            BY <3>3, <6>1, <6>2
        <5>. QED
          BY <1>1, <5>1, <5>2
      <4>. QED
        BY <4>2, <4>3
    <3>4. \/ Commits(s) /\ \A k \in 1..(n - 1) : t[k] \notin Changes
          \/ \E j \in 1..(n - 1) : /\ t[j] = Do("commit")
                                   /\ \A k \in (j + 1)..(n - 1) : t[k] \notin Changes
      <4>. HIDE DEF n
      <4>. QED
        BY <3>1 DEF Justified
    <3>. QED
      BY <3>2, <3>3, <3>4
  <2>. QED
    BY <2>1, <2>2
<1>. QED
  BY <1>2 DEF Justified

LEMMA ConcatWellFormed ==
  ASSUME NEW s \in WellFormed, NEW t \in WellFormed
  PROVE  s \o t \in WellFormed
<1>1. /\ s \in Seq(Steps) /\ Justified(s, FALSE) /\ Created(s, FALSE)
      /\ t \in Seq(Steps) /\ Justified(t, FALSE) /\ Created(t, FALSE)
  BY DEF WellFormed
<1>2. s \o t \in Seq(Steps)
  BY <1>1, ConcatFacts
<1>3. Created(s \o t, FALSE)
  BY <1>1, ConcatCreated
<1>4. Justified(s \o t, FALSE)
  BY <1>1, ConcatJustified
<1>. QED
  BY <1>2, <1>3, <1>4 DEF WellFormed

\* What remains of a list when its first step has been done.
LEMMA TailJustified ==
  ASSUME NEW s \in Seq(Steps), s # <<>>, NEW backed \in BOOLEAN, Justified(s, backed)
  PROVE  /\ Head(s) \in Changes => Justified(Tail(s), FALSE)
         /\ Head(s) = Do("commit") => Justified(Tail(s), TRUE)
         /\ Head(s) # Do("commit") => Justified(Tail(s), backed)
         /\ Head(s) \in Claims => backed
<1>1. /\ Head(s) = s[1] /\ Len(s) \in Nat /\ Len(s) >= 1 /\ Len(Tail(s)) = Len(s) - 1
      /\ \A i \in 1..Len(Tail(s)) : Tail(s)[i] = s[i + 1]
  BY TailFacts
<1>2. ASSUME NEW i \in 1..Len(Tail(s)), Tail(s)[i] \in Claims
      PROVE  \/ /\ backed /\ Head(s) \notin Changes
                /\ \A k \in 1..(i - 1) : Tail(s)[k] \notin Changes
             \/ /\ Head(s) = Do("commit")
                /\ \A k \in 1..(i - 1) : Tail(s)[k] \notin Changes
             \/ \E j \in 1..(i - 1) : /\ Tail(s)[j] = Do("commit")
                                      /\ \A k \in (j + 1)..(i - 1) : Tail(s)[k] \notin Changes
  <2>1. i + 1 \in 1..Len(s) /\ s[i + 1] \in Claims
    BY <1>1, <1>2
  <2>2. \/ backed /\ \A k \in 1..i : s[k] \notin Changes
        \/ \E j \in 1..i : /\ s[j] = Do("commit")
                           /\ \A k \in (j + 1)..i : s[k] \notin Changes
    <3>1. (i + 1) - 1 = i
      OBVIOUS
    <3>. QED
      BY <2>1, <3>1 DEF Justified
  <2>3. CASE backed /\ \A k \in 1..i : s[k] \notin Changes
    <3>1. \A k \in 1..(i - 1) : Tail(s)[k] = s[k + 1] /\ k + 1 \in 1..i
      BY <1>1, <1>2
    <3>2. 1 \in 1..i
      BY <1>2
    <3>. QED
      BY <1>1, <2>3, <3>1, <3>2
  <2>4. ASSUME NEW j \in 1..i, s[j] = Do("commit"), \A k \in (j + 1)..i : s[k] \notin Changes
        PROVE  \/ /\ Head(s) = Do("commit")
                  /\ \A k \in 1..(i - 1) : Tail(s)[k] \notin Changes
               \/ \E m \in 1..(i - 1) : /\ Tail(s)[m] = Do("commit")
                                        /\ \A k \in (m + 1)..(i - 1) : Tail(s)[k] \notin Changes
    <3>1. CASE j = 1
      <4>1. \A k \in 1..(i - 1) : Tail(s)[k] = s[k + 1] /\ k + 1 \in (j + 1)..i
        BY <1>1, <1>2, <3>1
      <4>. QED
        BY <1>1, <2>4, <3>1, <4>1
    <3>2. CASE j # 1
      <4>1. j - 1 \in 1..(i - 1) /\ Tail(s)[j - 1] = s[j]
        BY <1>1, <1>2, <2>4, <3>2
      <4>2. \A k \in ((j - 1) + 1)..(i - 1) : Tail(s)[k] = s[k + 1] /\ k + 1 \in (j + 1)..i
        BY <1>1, <1>2, <2>4, <3>2
      <4>. QED
        BY <2>4, <4>1, <4>2
    <3>. QED
      BY <3>1, <3>2
  <2>. QED
    BY <2>2, <2>3, <2>4
<1>3. Head(s) \in Claims => backed
  BY <1>1 DEF Justified
<1>. QED
  BY <1>2, <1>3, StepsDistinct DEF Justified

LEMMA TailCreated ==
  ASSUME NEW s \in Seq(Steps), s # <<>>, NEW given \in BOOLEAN, Created(s, given)
  PROVE  /\ Head(s) # Do("create") => Created(Tail(s), given)
         /\ Created(Tail(s), TRUE)
         /\ Head(s) = Do("commit") => given
<1>1. /\ Head(s) = s[1] /\ Len(s) \in Nat /\ Len(s) >= 1 /\ Len(Tail(s)) = Len(s) - 1
      /\ \A i \in 1..Len(Tail(s)) : Tail(s)[i] = s[i + 1]
  BY TailFacts
<1>2. ASSUME NEW i \in 1..Len(Tail(s)), Tail(s)[i] = Do("commit"), Head(s) # Do("create"), ~given
      PROVE  \E j \in 1..(i - 1) : Tail(s)[j] = Do("create")
  <2>1. i + 1 \in 1..Len(s) /\ s[i + 1] = Do("commit") /\ (i + 1) - 1 = i
    BY <1>1, <1>2
  <2>2. PICK j \in 1..i : s[j] = Do("create")
    BY <1>2, <2>1 DEF Created
  <2>3. j # 1
    BY <1>1, <1>2, <2>2
  <2>4. j - 1 \in 1..(i - 1) /\ Tail(s)[j - 1] = s[j]
    BY <1>1, <2>1, <2>2, <2>3
  <2>. QED
    BY <2>2, <2>4
<1>3. Head(s) = Do("commit") => given
  BY <1>1 DEF Created
<1>. QED
  BY <1>2, <1>3 DEF Created

-----------------------------------------------------------------------------
(* The programs.                                                             *)

LEMMA PlainUpdate ==
  \A n \in UpdateNames \ {"COMMITTED", "RECONCILED", "READY"} : Update(n) \in PlainSteps
<1>1. \A n \in UpdateNames : Update(n) \in Steps
  BY DEF Update, Steps
<1>. QED
  BY <1>1 DEF PlainSteps, Claims, Update, Do

LEMMA PlainDo == \A n \in DoNames \ {"commit"} : Do(n) \in PlainSteps
<1>1. \A n \in DoNames : Do(n) \in Steps
  BY DEF Do, Steps
<1>. QED
  BY <1>1 DEF PlainSteps, Claims, Update, Do

LEMMA PlainAwait == \A n \in AwaitNames : Await(n) \in PlainSteps
<1>1. \A n \in AwaitNames : Await(n) \in Steps
  BY DEF Await, Steps
<1>. QED
  BY <1>1 DEF PlainSteps, Claims, Update, Do, Await

LEMMA PlainEnsure == \A s \in Services : <<"ensure", s>> \in PlainSteps
<1>1. \A s \in Services : <<"ensure", s>> \in Steps
  BY DEF Steps
<1>. QED
  BY <1>1 DEF PlainSteps, Claims, Update, Do

\* The plain steps by name.
LEMMA PlainNames ==
  /\ \A n \in {"ACCEPTED", "RUN", "PENDING", "PREFLIGHT", "BUILDING", "STARTING_SERVICE",
               "WAITING_FOR_SIONNA", "WAITING_FOR_ROS_CONTAINER", "WAITING_FOR_ROS_GRAPH",
               "WAITING_FOR_PACKET_RUNTIME", "WAITING_FOR_ISAAC_PROCESS",
               "WAITING_FOR_ISAAC_SCENE", "SYNCHRONIZING", "SMOKE_TESTING", "DEGRADED",
               "COMPLETED", "STOPPING", "STOPPED", "FAILED"} : Update(n) \in PlainSteps
  /\ \A n \in {"build", "create", "apply", "store", "observe", "preflight", "down", "lock",
               "participants_live", "unlock", "publish", "load", "packet_ready", "choose",
               "raise", "before"} : Do(n) \in PlainSteps
  /\ \A n \in {"sionna", "ros_container", "ros_graph", "packet_runtime", "isaac_process",
               "isaac_scene", "live_telemetry"} \union AllKinds : Await(n) \in PlainSteps
  /\ \A s \in {"sionna", "ros", "isaac"} : <<"ensure", s>> \in PlainSteps
<1>1. {"ACCEPTED", "RUN", "PENDING", "PREFLIGHT", "BUILDING", "STARTING_SERVICE",
       "WAITING_FOR_SIONNA", "WAITING_FOR_ROS_CONTAINER", "WAITING_FOR_ROS_GRAPH",
       "WAITING_FOR_PACKET_RUNTIME", "WAITING_FOR_ISAAC_PROCESS",
       "WAITING_FOR_ISAAC_SCENE", "SYNCHRONIZING", "SMOKE_TESTING", "DEGRADED",
       "COMPLETED", "STOPPING", "STOPPED", "FAILED"}
        \subseteq UpdateNames \ {"COMMITTED", "RECONCILED", "READY"}
  BY DEF UpdateNames, Phases
<1>2. {"build", "create", "apply", "store", "observe", "preflight", "down", "lock",
       "participants_live", "unlock", "publish", "load", "packet_ready", "choose",
       "raise", "before"} \subseteq DoNames \ {"commit"}
  BY DEF DoNames
<1>. QED
  BY <1>1, <1>2, PlainUpdate, PlainDo, PlainAwait, PlainEnsure DEF AwaitNames, Services

LEMMA SomeSteps ==
  /\ Update("COMMITTED") \in Steps /\ Update("RECONCILED") \in Steps /\ Update("READY") \in Steps
  /\ Do("commit") \in Steps /\ PlainSteps \subseteq Steps
  /\ \A x \in PlainSteps : x \notin Claims /\ x # Do("commit")
  BY StepsDistinct DEF Claims, PlainSteps

LEMMA ServiceWellFormed == \A s \in Services : ServiceSteps(s) \in WellFormed
<1>1. WaitSteps("sionna") \in WellFormed
  <2>1. <<Update("WAITING_FOR_SIONNA"), Await("sionna")>> \in Seq(PlainSteps)
    BY PlainNames
  <2>. QED
    BY <2>1, PlainWellFormed DEF WaitSteps
<1>2. WaitSteps("ros") \in WellFormed
  <2>1. <<Update("WAITING_FOR_ROS_CONTAINER"), Await("ros_container"),
          Update("WAITING_FOR_ROS_GRAPH"), Await("ros_graph"),
          Update("WAITING_FOR_PACKET_RUNTIME"), Await("packet_runtime")>> \in Seq(PlainSteps)
    BY PlainNames
  <2>. QED
    BY <2>1, PlainWellFormed DEF WaitSteps
<1>3. WaitSteps("isaac") \in WellFormed
  <2>1. <<Update("WAITING_FOR_ISAAC_PROCESS"), Await("isaac_process"),
          Update("WAITING_FOR_ISAAC_SCENE"), Await("isaac_scene")>> \in Seq(PlainSteps)
    BY PlainNames
  <2>. QED
    BY <2>1, PlainWellFormed DEF WaitSteps
<1>4. ASSUME NEW s \in Services
      PROVE  <<Update("STARTING_SERVICE"), <<"ensure", s>> >> \in WellFormed
  <2>1. <<Update("STARTING_SERVICE"), <<"ensure", s>> >> \in Seq(PlainSteps)
    BY PlainNames DEF Services
  <2>. QED
    BY <2>1, PlainWellFormed
<1>. QED
  BY <1>1, <1>2, <1>3, <1>4, ConcatWellFormed DEF ServiceSteps, Services

LEMMA StartupRevisionWellFormed ==
  StartupRevisionSteps \in WellFormed /\ Commits(StartupRevisionSteps)
<1>. DEFINE s == StartupRevisionSteps
<1>1. /\ s \in Seq(Steps) /\ Len(s) = 5 /\ s[1] = Do("create") /\ s[2] = Update("PENDING")
      /\ s[3] = Do("apply") /\ s[4] = Do("commit") /\ s[5] = Do("store")
  BY PlainNames, SomeSteps DEF StartupRevisionSteps
<1>2. Do("store") \notin Changes
  BY DEF Changes, Do
<1>3. /\ s[1] \notin Claims /\ s[2] \notin Claims /\ s[3] \notin Claims /\ s[4] \notin Claims
      /\ s[5] \notin Claims /\ s[2] # Do("commit") /\ s[3] # Do("commit") /\ s[5] # Do("commit")
      /\ s[1] # Do("commit")
  BY <1>1, PlainNames, SomeSteps, StepsDistinct
<1>. HIDE DEF s
<1>4. Justified(s, FALSE)
  BY <1>1, <1>3 DEF Justified
<1>5. Created(s, FALSE)
  BY <1>1, <1>3 DEF Created
<1>6. Commits(s)
  BY <1>1, <1>2 DEF Commits
<1>. QED
  BY <1>1, <1>4, <1>5, <1>6 DEF WellFormed, s

LEMMA StartWellFormed == \A build \in BOOLEAN : StartSteps(build) \in WellFormed
<1>. TAKE build \in BOOLEAN
<1>. DEFINE first == <<Update("ACCEPTED"), Do("observe"), Update("PREFLIGHT"), Do("preflight"),
                       Update("RUN")>>
            built == IF build THEN BuildSteps ELSE <<>>
            services == ServiceSteps("sionna") \o ServiceSteps("ros") \o ServiceSteps("isaac")
            ending == <<Update("SMOKE_TESTING"), Await("live_telemetry"), Update("READY")>>
<1>1. first \in WellFormed
  <2>1. first \in Seq(PlainSteps)
    BY PlainNames
  <2>. QED
    BY <2>1, PlainWellFormed
<1>2. built \in WellFormed
  <2>1. built \in Seq(PlainSteps)
    BY PlainNames DEF BuildSteps
  <2>. QED
    BY <2>1, PlainWellFormed
<1>3. /\ ServiceSteps("sionna") \in WellFormed /\ ServiceSteps("ros") \in WellFormed
      /\ ServiceSteps("isaac") \in WellFormed
  BY ServiceWellFormed DEF Services
<1>4. <<Update("SYNCHRONIZING")>> \in WellFormed
  <2>1. <<Update("SYNCHRONIZING")>> \in Seq(PlainSteps)
    BY PlainNames
  <2>. QED
    BY <2>1, PlainWellFormed
<1>5. /\ ending \in Seq(Steps) /\ Len(ending) = 3
      /\ ending[1] \in PlainSteps /\ ending[2] \in PlainSteps
      /\ ending[1] = Update("SMOKE_TESTING") /\ ending[2] = Await("live_telemetry")
      /\ ending[3] = Update("READY")
  BY PlainNames, SomeSteps
<1>6. /\ Update("SMOKE_TESTING") \notin Changes /\ Await("live_telemetry") \notin Changes
      /\ Update("READY") # Do("commit")
  BY DEF Changes, Update, Await, Do
<1>. HIDE DEF first, built, ending
<1>. DEFINE a == first \o built
            b == a \o ServiceSteps("sionna")
            c == b \o ServiceSteps("ros")
            d == c \o ServiceSteps("isaac")
            e == d \o <<Update("SYNCHRONIZING")>>
            f == e \o StartupRevisionSteps
<1>7. a \in WellFormed
  BY <1>1, <1>2, ConcatWellFormed
<1>8. b \in WellFormed
  <2>. HIDE DEF a
  <2>. QED
    BY <1>3, <1>7, ConcatWellFormed
<1>9. c \in WellFormed
  <2>. HIDE DEF b
  <2>. QED
    BY <1>3, <1>8, ConcatWellFormed
<1>10. d \in WellFormed
  <2>. HIDE DEF c
  <2>. QED
    BY <1>3, <1>9, ConcatWellFormed
<1>11. e \in WellFormed
  <2>. HIDE DEF d
  <2>. QED
    BY <1>4, <1>10, ConcatWellFormed
<1>12. f \in WellFormed
  <2>. HIDE DEF e
  <2>. QED
    BY <1>11, StartupRevisionWellFormed, ConcatWellFormed
<1>13. Commits(f)
  <2>. DEFINE s == StartupRevisionSteps
  <2>. HIDE DEF e, s
  <2>1. e \in Seq(Steps) /\ s \in Seq(Steps) /\ Commits(s)
    BY <1>11, StartupRevisionWellFormed DEF WellFormed, s
  <2>2. PICK j \in 1..Len(s) : s[j] = Do("commit") /\ \A k \in (j + 1)..Len(s) : s[k] \notin Changes
    BY <2>1 DEF Commits
  <2>3. /\ Len(f) = Len(e) + Len(s) /\ Len(e) \in Nat /\ Len(s) \in Nat
        /\ \A i \in 1..Len(s) : f[i + Len(e)] = s[i]
    BY <2>1, ConcatFacts DEF s
  <2>. HIDE DEF f
  <2>4. j + Len(e) \in 1..Len(f) /\ f[j + Len(e)] = Do("commit")
    BY <2>2, <2>3
  <2>5. ASSUME NEW k \in (j + Len(e) + 1)..Len(f)
        PROVE  f[k] \notin Changes
    <3>1. k - Len(e) \in (j + 1)..Len(s) /\ k - Len(e) \in 1..Len(s)
      BY <2>2, <2>3
    <3>2. f[k] = s[k - Len(e)]
      BY <2>3, <3>1
    <3>. QED
      BY <2>2, <3>1, <3>2
  <2>. QED
    BY <2>4, <2>5 DEF Commits
<1>14. Justified(ending, TRUE) /\ Created(ending, FALSE)
  BY <1>5, <1>6, SomeSteps DEF Justified, Created
<1>15. StartSteps(build) = f \o ending
  <2>1. /\ first \in Seq(Steps) /\ built \in Seq(Steps)
        /\ ServiceSteps("sionna") \in Seq(Steps) /\ ServiceSteps("ros") \in Seq(Steps)
        /\ ServiceSteps("isaac") \in Seq(Steps)
        /\ StartupRevisionSteps \in Seq(Steps)
    BY <1>1, <1>2, <1>3, StartupRevisionWellFormed DEF WellFormed
  <2>. QED
    BY <2>1, <1>5 DEF StartSteps, first, built, ending
<1>16. f \o ending \in WellFormed
  <2>. HIDE DEF f
  <2>1. f \in Seq(Steps) /\ Justified(f, FALSE) /\ Created(f, FALSE)
    BY <1>12 DEF WellFormed
  <2>. QED
    BY <2>1, <1>5, <1>13, <1>14, ConcatFacts, ConcatJustified, ConcatCreated DEF WellFormed
<1>. QED
  BY <1>15, <1>16

LEMMA SaveWellFormed == SaveSteps \in WellFormed
<1>. DEFINE s == SaveSteps
<1>1. /\ s \in Seq(Steps) /\ Len(s) = 9 /\ s[1] = Do("lock") /\ s[2] = Do("store")
      /\ s[3] = Do("create") /\ s[4] = Update("PENDING") /\ s[5] = Do("participants_live")
      /\ s[6] = Do("apply") /\ s[7] = Do("commit") /\ s[8] = Update("COMMITTED")
      /\ s[9] = Do("unlock")
  BY PlainNames, SomeSteps DEF SaveSteps
<1>2. \A i \in 1..9 : i # 7 /\ i # 8 => s[i] \in PlainSteps
  <2>1. /\ s[1] \in PlainSteps /\ s[2] \in PlainSteps /\ s[3] \in PlainSteps
        /\ s[4] \in PlainSteps /\ s[5] \in PlainSteps /\ s[6] \in PlainSteps
        /\ s[9] \in PlainSteps
    BY <1>1, PlainNames
  <2>. HIDE DEF s
  <2>. QED
    BY <2>1
<1>3. s[8] # Do("commit")
  BY <1>1, StepsDistinct DEF Claims
<1>. HIDE DEF s
<1>4. Justified(s, FALSE)
  <2>1. ASSUME NEW i \in 1..Len(s), s[i] \in Claims
        PROVE  i = 8
    BY <1>1, <1>2, <2>1, SomeSteps, StepsDistinct
  <2>2. 7 \in 1..7 /\ s[7] = Do("commit") /\ \A k \in 8..7 : s[k] \notin Changes
    BY <1>1
  <2>. QED
    BY <2>1, <2>2 DEF Justified
<1>5. Created(s, FALSE)
  <2>1. ASSUME NEW i \in 1..Len(s), s[i] = Do("commit")
        PROVE  i = 7
    BY <1>1, <1>2, <1>3, <2>1, SomeSteps
  <2>2. 3 \in 1..6 /\ s[3] = Do("create")
    BY <1>1
  <2>. QED
    BY <2>1, <2>2 DEF Created
<1>. QED
  BY <1>1, <1>4, <1>5 DEF WellFormed, s

LEMMA ReconcileFacts ==
  /\ ReconcileSteps \in Seq(Steps) /\ Justified(ReconcileSteps, FALSE)
  /\ Created(ReconcileSteps, TRUE)
<1>. DEFINE s == ReconcileSteps
<1>1. /\ s \in Seq(Steps) /\ Len(s) = 4 /\ s[1] = Do("apply") /\ s[2] = Do("commit")
      /\ s[3] = Do("store") /\ s[4] = Update("RECONCILED")
  BY PlainNames, SomeSteps DEF ReconcileSteps
<1>2. s[1] \notin Claims /\ s[2] \notin Claims /\ s[3] \notin Claims /\ s[3] \notin Changes
  BY <1>1, PlainNames, SomeSteps, StepsDistinct DEF Changes, Do
<1>. HIDE DEF s
<1>3. Justified(s, FALSE)
  <2>1. ASSUME NEW i \in 1..Len(s), s[i] \in Claims
        PROVE  i = 4
    BY <1>1, <1>2, <2>1
  <2>2. 2 \in 1..3 /\ s[2] = Do("commit") /\ \A k \in 3..3 : s[k] \notin Changes
    BY <1>1, <1>2
  <2>. QED
    BY <2>1, <2>2 DEF Justified
<1>4. Created(s, TRUE)
  BY DEF Created
<1>. QED
  BY <1>1, <1>3, <1>4 DEF s

\* A list that begins by creating a revision.
LEMMA CreateFirst ==
  ASSUME NEW s \in Seq(Steps), Len(s) >= 1, s[1] = Do("create")
  PROVE  Created(s, FALSE)
<1>1. Do("create") # Do("commit")
  BY DEF Do
<1>2. ASSUME NEW i \in 1..Len(s), s[i] = Do("commit")
      PROVE  1 \in 1..(i - 1)
  BY <1>1, <1>2
<1>. QED
  BY <1>2 DEF Created

LEMMA CreatePrefix ==
  ASSUME NEW s \in Seq(Steps), Justified(s, FALSE), Len(s) >= 1, s[1] = Do("create"),
         NEW t \in Seq(Steps), Justified(t, FALSE)
  PROVE  /\ s \o t \in Seq(Steps) /\ Justified(s \o t, FALSE)
         /\ Len(s \o t) >= 1 /\ (s \o t)[1] = Do("create")
<1>1. /\ s \o t \in Seq(Steps) /\ Len(s \o t) = Len(s) + Len(t) /\ Len(s) \in Nat /\ Len(t) \in Nat
      /\ \A i \in 1..Len(s) : (s \o t)[i] = s[i]
  BY ConcatFacts
<1>2. Justified(s \o t, FALSE)
  BY ConcatJustified
<1>3. Len(s \o t) >= 1
  BY <1>1
<1>4. (s \o t)[1] = Do("create")
  <2>1. 1 \in 1..Len(s)
    BY <1>1
  <2>. QED
    BY <1>1, <2>1
<1>. QED
  BY <1>1, <1>2, <1>3, <1>4, Zenon

LEMMA CreateThen ==
  ASSUME NEW t \in Seq(Steps), Justified(t, FALSE)
  PROVE  <<Do("create")>> \o ReconcileSteps \o t \in WellFormed
<1>. DEFINE c == <<Do("create")>>
            r == ReconcileSteps
            l == c \o r
            m == l \o t
<1>1. c \in Seq(PlainSteps) /\ c \in Seq(Steps) /\ Len(c) >= 1 /\ c[1] = Do("create")
  BY PlainNames, SomeSteps
<1>2. r \in Seq(Steps) /\ Justified(r, FALSE)
  BY ReconcileFacts
<1>. HIDE DEF r
<1>3. Justified(c, FALSE)
  BY <1>1, PlainWellFormed DEF WellFormed
<1>. HIDE DEF c
<1>4. l \in Seq(Steps) /\ Justified(l, FALSE) /\ Len(l) >= 1 /\ l[1] = Do("create")
  BY <1>1, <1>2, <1>3, CreatePrefix
<1>. HIDE DEF l
<1>5. m \in Seq(Steps) /\ Justified(m, FALSE) /\ Len(m) >= 1 /\ m[1] = Do("create")
  BY <1>4, CreatePrefix
<1>. HIDE DEF m
<1>6. m \in WellFormed
  BY <1>5, CreateFirst DEF WellFormed
<1>. QED
  BY <1>6 DEF m, l, c, r

MissionKinds == {"hold", "stop_experiment"}

MissionSteps(kind) ==
  {Update("ACCEPTED"), Do("publish"), Await(kind), Update("COMPLETED")}

LEMMA ProgramWellFormed == \A kind \in AllKinds : Program(kind) \in WellFormed
<1>. TAKE kind \in AllKinds
<1>1. StopSteps \in WellFormed
  <2>1. StopSteps \in Seq(PlainSteps)
    BY PlainNames DEF StopSteps
  <2>. QED
    BY <2>1, PlainWellFormed
<1>2. StartSteps(TRUE) \in WellFormed /\ StartSteps(FALSE) \in WellFormed
  BY StartWellFormed
<1>3. StopSteps \o StartSteps(FALSE) \in WellFormed
  BY <1>1, <1>2, ConcatWellFormed
<1>4. <<Update("ACCEPTED"), Do("choose")>> \in WellFormed
  <2>1. <<Update("ACCEPTED"), Do("choose")>> \in Seq(PlainSteps)
    BY PlainNames
  <2>. QED
    BY <2>1, PlainWellFormed
<1>5. StartExperimentSteps \in WellFormed
  <2>1. StartExperimentSteps \in Seq(PlainSteps)
    BY PlainNames DEF StartExperimentSteps
  <2>. QED
    BY <2>1, PlainWellFormed
<1>6. Await(kind) \in PlainSteps
  BY PlainNames
<1>7. CommandSteps(kind) \in WellFormed
  <2>1. CommandSteps(kind) \in Seq(PlainSteps)
    BY <1>6, PlainNames DEF CommandSteps
  <2>. QED
    BY <2>1, PlainWellFormed
<1>8. CommandSteps(kind) \o <<Update("COMPLETED")>> \in WellFormed
  <2>1. <<Update("COMPLETED")>> \in Seq(PlainSteps)
    BY PlainNames
  <2>. QED
    BY <1>7, <2>1, PlainWellFormed, ConcatWellFormed
<1>9. <<Update("ACCEPTED"), Do("load"), Do("before"), Do("publish"), Await(kind)>> \in WellFormed
  <2>1. <<Update("ACCEPTED"), Do("load"), Do("before"), Do("publish"), Await(kind)>> \in Seq(PlainSteps)
    BY <1>6, PlainNames
  <2>. QED
    BY <2>1, PlainWellFormed
<1>10. <<Update("ACCEPTED"), Do("load")>> \in WellFormed /\ <<Do("load")>> \in WellFormed
       /\ <<Await(kind)>> \in WellFormed
  <2>1. <<Update("ACCEPTED"), Do("load")>> \in Seq(PlainSteps) /\ <<Do("load")>> \in Seq(PlainSteps)
        /\ <<Await(kind)>> \in Seq(PlainSteps)
    BY <1>6, PlainNames
  <2>. QED
    BY <2>1, PlainWellFormed
<1>11. /\ <<Update("ACCEPTED"), Do("load")>> \o SaveSteps \in WellFormed
       /\ <<Do("load")>> \o SaveSteps \in WellFormed
  BY <1>10, SaveWellFormed, ConcatWellFormed
<1>12. <<Update("ACCEPTED"), Do("load")>> \o SaveSteps \o <<Await(kind)>> \in WellFormed
  BY <1>10, <1>11, ConcatWellFormed
<1>. QED
  BY <1>1, <1>2, <1>3, <1>4, <1>5, <1>7, <1>8, <1>9, <1>11, <1>12 DEF Program

\* The program of a mission command waits for its own acknowledgement.
LEMMA MissionProgram ==
  ASSUME NEW kind \in MissionKinds
  PROVE  /\ Program(kind) \in Seq(MissionSteps(kind))
         /\ \E i \in 1..Len(Program(kind)) : Program(kind)[i] = Await(kind)
<1>. DEFINE s == CommandSteps(kind)
            t == <<Update("COMPLETED")>>
<1>1. /\ s \in Seq(MissionSteps(kind)) /\ Len(s) = 3 /\ s[3] = Await(kind)
      /\ t \in Seq(MissionSteps(kind)) /\ Len(t) = 1
  <2>1. /\ Update("ACCEPTED") \in MissionSteps(kind) /\ Do("publish") \in MissionSteps(kind)
        /\ Await(kind) \in MissionSteps(kind) /\ Update("COMPLETED") \in MissionSteps(kind)
    BY DEF MissionSteps
  <2>. QED
    BY <2>1, SMTT(30) DEF CommandSteps
<1>2. Program(kind) = s \/ Program(kind) = s \o t
  BY DEF Program, MissionKinds, NodeKinds
<1>. HIDE DEF s, t
<1>3. /\ s \o t \in Seq(MissionSteps(kind)) /\ Len(s \o t) = 4 /\ (s \o t)[3] = Await(kind)
  <2>1. /\ s \o t \in Seq(MissionSteps(kind)) /\ Len(s \o t) = Len(s) + Len(t)
        /\ \A i \in 1..Len(s) : (s \o t)[i] = s[i]
    BY <1>1, ConcatFacts
  <2>2. 3 \in 1..Len(s)
    BY <1>1
  <2>. QED
    BY <1>1, <2>1, <2>2
<1>4. 3 \in 1..3 /\ 3 \in 1..4
  OBVIOUS
<1>. QED
  BY <1>1, <1>2, <1>3, <1>4

LEMMA RecoveryPlain == \A kind, name : Recovery(kind, name) \in Seq(PlainSteps)
<1>1. /\ <<>> \in Seq(PlainSteps) /\ <<Update("FAILED")>> \in Seq(PlainSteps)
      /\ <<Update("DEGRADED")>> \in Seq(PlainSteps) /\ <<Do("unlock")>> \in Seq(PlainSteps)
  BY PlainNames
<1>. QED
  BY <1>1 DEF Recovery

-----------------------------------------------------------------------------
(* What holds of every operation, for the committed revisions C, the number  *)
(* L of revisions created and the operations H whose message was handled.    *)

SectionMarks == [Sections -> 0..MaxOperations]

OpStates ==
  [kind : AllKinds \union {"none"}, process : Processes,
   status : {"NONE", "QUEUED", "RUNNING", "COMPLETED", "FAILED"},
   verdict : {"COMPLETED", "FAILED"}, todo : Seq(Steps), snapshot : Seq(States),
   config : SectionMarks, revision : Nat, lock : BOOLEAN, before : Nat]

\* A state of the file that may be written: its claims of commitment are backed, and a
\* stopped stack is offline.
Good(s, C) ==
  /\ s \in States
  /\ s.committed = 0 \/ s.committed \in C
  /\ s.sync = "IN_SYNC" => s.committed # 0
  /\ s.phase = "STOPPED" => s.telemetry = "OFFLINE"

\* A mission command is completed only when its message was handled, and until then
\* waits for that.
MissionOK(p, o, H) ==
  /\ p.status \in {"RUNNING", "COMPLETED", "FAILED"}
  /\ p.todo \in Seq(MissionSteps(p.kind))
  /\ p.status = "COMPLETED" => o \in H
  /\ p.status = "RUNNING" /\ p.verdict = "COMPLETED" =>
       o \in H \/ \E i \in 1..Len(p.todo) : p.todo[i] = Await(p.kind)

\* An update under way is the next step of a running operation.
UpdateOK(p, C) ==
  p.snapshot # <<>> => /\ p.status = "RUNNING" /\ p.todo # <<>> /\ Head(p.todo)[1] = "update"
                       /\ Good(p.snapshot[1], C)

OpOK(p, o, C, L, H) ==
  /\ p \in OpStates
  /\ p.revision <= L
  /\ Justified(p.todo, FALSE) \/ (p.revision \in C /\ Justified(p.todo, TRUE))
  /\ Created(p.todo, FALSE) \/ p.revision # 0
  /\ UpdateOK(p, C)
  /\ p.kind \in MissionKinds => MissionOK(p, o, H)

LEMMA GoodMonotone ==
  ASSUME NEW s, NEW C, NEW D, C \subseteq D, Good(s, C)
  PROVE  Good(s, D)
  BY DEF Good

\* Commits, revisions and handled messages are never taken back.
LEMMA OpMonotone ==
  ASSUME NEW p, NEW o, NEW C, NEW L \in Nat, NEW H, NEW C2, NEW L2 \in Nat, NEW H2,
         OpOK(p, o, C, L, H), C \subseteq C2, L <= L2, H \subseteq H2
  PROVE  OpOK(p, o, C2, L2, H2)
<1>1. p \in OpStates /\ p.revision \in Nat
  BY DEF OpOK, OpStates
<1>2. p.revision <= L2
  BY <1>1 DEF OpOK
<1>3. Justified(p.todo, FALSE) \/ (p.revision \in C2 /\ Justified(p.todo, TRUE))
  BY DEF OpOK
<1>4. UpdateOK(p, C2)
  BY GoodMonotone DEF OpOK, UpdateOK
<1>5. p.kind \in MissionKinds => MissionOK(p, o, H2)
  BY DEF OpOK, MissionOK
<1>. QED
  BY <1>1, <1>2, <1>3, <1>4, <1>5 DEF OpOK

OpsInv ==
  /\ op \in [Operations -> OpStates]
  /\ \A o \in Operations : OpOK(op[o], o, committed, Len(revisions), handled)

\* One operation moves on.
LEMMA OpMoves ==
  ASSUME OpsInv, NEW o \in Operations, NEW q, op' = [op EXCEPT ![o] = q],
         OpOK(q, o, committed', Len(revisions'), handled'),
         Len(revisions) \in Nat, Len(revisions') \in Nat,
         committed \subseteq committed', Len(revisions) <= Len(revisions'), handled \subseteq handled'
  PROVE  OpsInv'
<1>1. q \in OpStates
  BY DEF OpOK
<1>2. op' \in [Operations -> OpStates]
  BY <1>1 DEF OpsInv
<1>3. ASSUME NEW p \in Operations
      PROVE  OpOK(op'[p], p, committed', Len(revisions'), handled')
  <2>1. CASE p = o
    BY <2>1 DEF OpsInv
  <2>2. CASE p # o
    <3>1. op'[p] = op[p] /\ OpOK(op[p], p, committed, Len(revisions), handled)
      BY <2>2 DEF OpsInv
    <3>. QED
      BY <3>1, OpMonotone
  <2>. QED
    BY <2>1, <2>2
<1>. QED
  BY <1>2, <1>3 DEF OpsInv

LEMMA OpsStay ==
  ASSUME OpsInv, op' = op, Len(revisions) \in Nat, revisions' = revisions,
         committed \subseteq committed', handled \subseteq handled'
  PROVE  OpsInv'
<1>1. ASSUME NEW p \in Operations
      PROVE  OpOK(op[p], p, committed', Len(revisions), handled')
  <2>1. OpOK(op[p], p, committed, Len(revisions), handled)
    BY DEF OpsInv
  <2>. QED
    BY <2>1, OpMonotone
<1>. QED
  BY <1>1 DEF OpsInv

\* The next step of p is done and leads to q.
LEMMA StepDone ==
  ASSUME NEW p, NEW q, NEW o, NEW C, NEW L \in Nat, NEW H, NEW C2, NEW L2 \in Nat, NEW H2,
         OpOK(p, o, C, L, H), C \subseteq C2, L <= L2, H \subseteq H2,
         p.todo # <<>>, q \in OpStates, q.todo = Tail(p.todo),
         q.kind = p.kind, q.status = p.status, q.verdict = p.verdict, q.snapshot = <<>>,
         \/ q.revision = p.revision /\ Head(p.todo) \notin Changes
         \/ q.revision # 0 /\ q.revision <= L2 /\ Head(p.todo) = Do("create"),
         Head(p.todo) = Do("commit") => q.revision \in C2,
         p.kind \in MissionKinds /\ Head(p.todo) = Await(p.kind) => o \in H2
  PROVE  OpOK(q, o, C2, L2, H2)
<1>1. /\ p \in OpStates /\ p.todo \in Seq(Steps) /\ p.revision \in Nat /\ q.revision \in Nat
      /\ Justified(p.todo, FALSE) \/ (p.revision \in C /\ Justified(p.todo, TRUE))
      /\ Created(p.todo, FALSE) \/ p.revision # 0
      /\ p.revision <= L
  BY DEF OpOK, OpStates
<1>2. q.revision <= L2
  BY <1>1
<1>3. Justified(Tail(p.todo), FALSE) \/ (q.revision \in C2 /\ Justified(Tail(p.todo), TRUE))
  <2>1. CASE Head(p.todo) \in Changes
    BY <1>1, <2>1, TailJustified
  <2>2. CASE Head(p.todo) = Do("commit")
    BY <1>1, <2>2, TailJustified
  <2>3. CASE Head(p.todo) \notin Changes /\ Head(p.todo) # Do("commit")
    <3>1. \/ Justified(Tail(p.todo), FALSE)
          \/ p.revision \in C /\ Justified(Tail(p.todo), TRUE)
      BY <1>1, <2>3, TailJustified
    <3>2. p.revision \in C => q.revision \in C2
      BY <2>3 DEF Changes
    <3>. QED
      BY <3>1, <3>2
  <2>. QED
    BY <2>1, <2>2, <2>3
<1>4. Created(Tail(p.todo), FALSE) \/ q.revision # 0
  <2>1. CASE Head(p.todo) = Do("create")
    BY <2>1 DEF Changes
  <2>2. CASE Head(p.todo) # Do("create") /\ Created(p.todo, FALSE)
    BY <1>1, <2>2, TailCreated
  <2>3. CASE Head(p.todo) # Do("create") /\ p.revision # 0
    BY <2>3
  <2>. QED
    BY <1>1, <2>1, <2>2, <2>3
<1>5. UpdateOK(q, C2)
  BY DEF UpdateOK
<1>6. ASSUME q.kind \in MissionKinds
      PROVE  MissionOK(q, o, H2)
  <2>1. MissionOK(p, o, H)
    BY <1>6 DEF OpOK
  <2>2. q.todo \in Seq(MissionSteps(q.kind))
    BY <2>1, TailFacts DEF MissionOK
  <2>3. ASSUME q.status = "RUNNING", q.verdict = "COMPLETED", o \notin H2
        PROVE  \E i \in 1..Len(q.todo) : q.todo[i] = Await(q.kind)
    <3>1. PICK i \in 1..Len(p.todo) : p.todo[i] = Await(p.kind)
      BY <2>1, <2>3 DEF MissionOK
    <3>2. /\ Head(p.todo) = p.todo[1] /\ Len(p.todo) \in Nat /\ Len(q.todo) = Len(p.todo) - 1
          /\ \A k \in 1..Len(q.todo) : q.todo[k] = p.todo[k + 1]
      BY <1>1, TailFacts
    <3>3. i # 1
      BY <1>6, <2>3, <3>1, <3>2
    <3>4. i - 1 \in 1..Len(q.todo) /\ q.todo[i - 1] = p.todo[i]
      BY <3>1, <3>2, <3>3
    <3>. QED
      BY <3>1, <3>4
  <2>. QED
    BY <2>1, <2>2, <2>3 DEF MissionOK
<1>. QED
  BY <1>2, <1>3, <1>4, <1>5, <1>6 DEF OpOK

\* p has only plain steps left, of a kind that is no mission command's.
LEMMA StepsDropped ==
  ASSUME NEW p, NEW q, NEW o, NEW C, NEW L \in Nat, NEW H,
         OpOK(p, o, C, L, H), q \in OpStates, q.todo \in Seq(PlainSteps), q.revision <= L,
         q.kind = p.kind, q.snapshot = <<>>, p.kind \notin MissionKinds
  PROVE  OpOK(q, o, C, L, H)
<1>1. /\ q.todo \in WellFormed
  BY PlainWellFormed
<1>2. Justified(q.todo, FALSE) /\ Created(q.todo, FALSE)
  BY <1>1 DEF WellFormed
<1>. QED
  BY <1>2 DEF OpOK, UpdateOK

-----------------------------------------------------------------------------
(* The inductive invariant.                                                  *)

\* What the packet runtime knows, or has written to its status file: the last mission
\* command it names is one it handled.
NodeOK(n) ==
  /\ n \in [version : Nat, last : 0..MaxOperations, failed : BOOLEAN, standby : BOOLEAN]
  /\ n.last = 0 \/ n.last \in handled

RevisionsOK ==
  /\ revisions \in Seq(SectionMarks)
  /\ committed \subseteq 1..Len(revisions)
  /\ desired \in 0..Len(revisions)
  /\ file \in SectionMarks

RuntimeOK ==
  /\ containers \in [Services -> {"absent", "running", "ready", "broken"}]
  /\ fresh \in BOOLEAN
  /\ inbox \subseteq Operations
  /\ NodeOK(node)
  /\ NodeOK(status)

IInv == Good(state, committed) /\ OpsInv /\ RevisionsOK /\ RuntimeOK

LEMMA Constants ==
  /\ MaxOperations \in Nat
  /\ \A o \in Operations : o \in Nat /\ o # 0 /\ o \in 0..MaxOperations
  /\ Sections0 \in SectionMarks
  BY LifecycleAssumption DEF Operations, Sections0, SectionMarks

LEMMA LenRevisions ==
  ASSUME RevisionsOK
  PROVE  Len(revisions) \in Nat
  BY DEF RevisionsOK

\* A new operation of this kind, before its program.
LEMMA IdleTyped ==
  ASSUME NEW kind \in AllKinds \union {"none"}, NEW process \in Processes
  PROVE  Idle(kind, process) \in OpStates
<1>1. <<>> \in Seq(Steps) /\ <<>> \in Seq(States)
  OBVIOUS
<1>. QED
  BY <1>1, Constants DEF Idle, OpStates

LEMMA InitIInv == Init => IInv
<1>. SUFFICES ASSUME Init PROVE IInv
  OBVIOUS
<1>1. Good(state, committed)
  <2>1. state \in States
    BY Constants DEF Init, InitStopped, InitStarted, States, Phases
  <2>. QED
    BY <2>1 DEF Init, InitStopped, InitStarted, Good
<1>2. RevisionsOK
  <2>1. file \in SectionMarks
    BY Constants DEF Init
  <2>2. CASE InitStopped
    <3>1. <<>> \in Seq(SectionMarks) /\ Len(<<>>) = 0
      OBVIOUS
    <3>. QED
      BY <2>1, <2>2, <3>1 DEF InitStopped, RevisionsOK
  <2>3. CASE InitStarted
    <3>1. <<Sections0>> \in Seq(SectionMarks) /\ Len(<<Sections0>>) = 1
      BY Constants
    <3>. QED
      BY <2>1, <2>3, <3>1 DEF InitStarted, RevisionsOK
  <2>. QED
    BY <2>2, <2>3 DEF Init
<1>3. OpsInv
  <2>. DEFINE p == Idle("none", "server")
  <2>1. p \in OpStates
    BY IdleTyped DEF Processes
  <2>2. p.todo = <<>> /\ p.snapshot = <<>> /\ p.revision = 0 /\ p.kind = "none"
    BY DEF Idle
  <2>3. Justified(p.todo, FALSE) /\ Created(p.todo, FALSE)
    BY <2>2 DEF Justified, Created
  <2>. HIDE DEF p
  <2>4. ASSUME NEW o \in Operations
        PROVE  OpOK(p, o, committed, Len(revisions), handled)
    <3>1. 0 <= Len(revisions)
      BY <1>2, LenRevisions
    <3>2. "none" \notin MissionKinds
      BY DEF MissionKinds
    <3>3. UpdateOK(p, committed)
      BY <2>2 DEF UpdateOK
    <3>. QED
      BY <2>1, <2>2, <2>3, <3>1, <3>2, <3>3 DEF OpOK
  <2>5. op = [o \in Operations |-> p]
    BY DEF Init, p
  <2>. QED
    BY <2>1, <2>4, <2>5 DEF OpsInv
<1>4. RuntimeOK
  <2>1. NodeOK(node) /\ NodeOK(status)
    BY Constants DEF Init, NewNode, NodeOK
  <2>. QED
    BY <2>1 DEF Init, InitStopped, InitStarted, RuntimeOK
<1>. QED
  BY <1>1, <1>2, <1>3, <1>4 DEF IInv

\* The operation whose next step is this one.
LEMMA AtStep ==
  ASSUME OpsInv, NEW o \in Operations, NEW type, NEW name, At(o, type, name)
  PROVE  /\ op[o] \in OpStates /\ OpOK(op[o], o, committed, Len(revisions), handled)
         /\ op[o].todo # <<>> /\ Head(op[o].todo) = <<type, name>>
         /\ type # "update" => op[o].snapshot = <<>>
<1>1. op[o] \in OpStates /\ OpOK(op[o], o, committed, Len(revisions), handled)
  BY DEF OpsInv
<1>2. op[o].todo # <<>> /\ Head(op[o].todo) = <<type, name>>
  BY DEF At, Step
<1>3. type # "update" => op[o].snapshot = <<>>
  BY <1>1, <1>2 DEF OpOK, UpdateOK
<1>. QED
  BY <1>1, <1>2, <1>3

\* A mission command takes the steps of its program only.
LEMMA NotMission ==
  ASSUME NEW p \in OpStates, NEW o, NEW C, NEW L, NEW H, OpOK(p, o, C, L, H),
         p.todo # <<>>, Head(p.todo) \notin MissionSteps(p.kind)
  PROVE  p.kind \notin MissionKinds
<1>1. SUFFICES ASSUME p.kind \in MissionKinds PROVE FALSE
  OBVIOUS
<1>2. p.todo \in Seq(MissionSteps(p.kind))
  BY <1>1 DEF OpOK, MissionOK
<1>. QED
  BY <1>2, TailFacts

\* A step that is none of a mission command's.
LEMMA OtherDo ==
  ASSUME NEW kind, NEW name, name # "publish"
  PROVE  Do(name) \notin MissionSteps(kind)
  BY DEF Do, MissionSteps, Update, Await

-----------------------------------------------------------------------------
(* The steps that change nothing but the operation that takes them.          *)

LEMMA OnlyOps ==
  ASSUME IInv, UNCHANGED <<state, runtime, records, file, latest>>, OpsInv'
  PROVE  IInv'
<1>1. UNCHANGED <<state, containers, fresh, node, status, inbox, handled, revisions, desired,
                  committed, file>>
  BY DEF runtime, records
<1>2. Good(state', committed') /\ RevisionsOK'
  BY <1>1 DEF IInv, Good, RevisionsOK
<1>3. RuntimeOK'
  BY <1>1 DEF IInv, RuntimeOK, NodeOK
<1>. QED
  BY <1>2, <1>3 DEF IInv

LEMMA OneMoves ==
  ASSUME IInv, UNCHANGED <<revisions, committed, handled>>, NEW o \in Operations, NEW q,
         op' = [op EXCEPT ![o] = q], OpOK(q, o, committed, Len(revisions), handled)
  PROVE  OpsInv'
<1>1. OpsInv /\ Len(revisions) \in Nat
  BY LenRevisions DEF IInv
<1>2. OpOK(q, o, committed', Len(revisions'), handled')
  OBVIOUS
<1>3. /\ committed \subseteq committed' /\ handled \subseteq handled'
      /\ Len(revisions') \in Nat /\ Len(revisions) <= Len(revisions')
  BY <1>1
<1>. QED
  BY <1>1, <1>2, <1>3, OpMoves

LEMMA OneOp ==
  ASSUME IInv, UNCHANGED <<state, runtime, records, file, latest>>, NEW o \in Operations, NEW q,
         op' = [op EXCEPT ![o] = q], OpOK(q, o, committed, Len(revisions), handled)
  PROVE  IInv'
<1>1. UNCHANGED <<revisions, committed, handled>>
  BY DEF runtime, records
<1>. QED
  BY <1>1, OneMoves, OnlyOps

\* Two changes of one operation.
LEMMA Twice ==
  ASSUME NEW f \in [Operations -> OpStates], NEW o \in Operations, NEW p, NEW q
  PROVE  [[f EXCEPT ![o] = p] EXCEPT ![o] = q] = [f EXCEPT ![o] = q]
  OBVIOUS

\* What remains of an operation whose next step is done.
LEMMA TailTyped ==
  ASSUME NEW p \in OpStates, p.todo # <<>>
  PROVE  [p EXCEPT !.todo = Tail(p.todo)] \in OpStates
<1>1. Tail(p.todo) \in Seq(Steps)
  BY TailFacts DEF OpStates
<1>. QED
  BY <1>1 DEF OpStates

\* The next step is done.
LEMMA AdvancedOps ==
  ASSUME IInv, NEW o \in Operations, op[o].todo # <<>>, op[o].snapshot = <<>>,
         Head(op[o].todo) \notin Changes \union {Do("commit")},
         op[o].kind \in MissionKinds /\ Head(op[o].todo) = Await(op[o].kind) => o \in handled,
         op' = Advanced(o), UNCHANGED <<revisions, committed, handled>>
  PROVE  OpsInv'
<1>. DEFINE p == op[o]
            q == [p EXCEPT !.todo = Tail(p.todo)]
<1>1. p \in OpStates /\ OpOK(p, o, committed, Len(revisions), handled) /\ Len(revisions) \in Nat
  BY LenRevisions DEF IInv, OpsInv
<1>2. q \in OpStates
  BY <1>1, TailTyped
<1>3. op' = [op EXCEPT ![o] = q]
  BY DEF Advanced
<1>4. /\ q.todo = Tail(p.todo) /\ q.kind = p.kind /\ q.status = p.status
      /\ q.verdict = p.verdict /\ q.snapshot = p.snapshot /\ q.revision = p.revision
  BY <1>1 DEF OpStates
<1>. HIDE DEF q
<1>5. OpOK(q, o, committed, Len(revisions), handled)
  BY <1>1, <1>2, <1>4, StepDone
<1>. QED
  BY <1>3, <1>5, OneMoves

LEMMA AdvancedOK ==
  ASSUME IInv, NEW o \in Operations, op[o].todo # <<>>, op[o].snapshot = <<>>,
         Head(op[o].todo) \notin Changes \union {Do("commit")},
         op[o].kind \in MissionKinds /\ Head(op[o].todo) = Await(op[o].kind) => o \in handled,
         op' = Advanced(o), UNCHANGED <<state, runtime, records, file, latest>>
  PROVE  IInv'
<1>1. UNCHANGED <<revisions, committed, handled>>
  BY DEF runtime, records
<1>. QED
  BY <1>1, AdvancedOps, OnlyOps

\* The next step fails.
LEMMA FailedOps ==
  ASSUME IInv, NEW o \in Operations, op[o].todo # <<>>, op[o].snapshot = <<>>,
         op' = Failed(o), UNCHANGED <<revisions, committed, handled>>
  PROVE  OpsInv'
<1>. DEFINE p == op[o]
            name == Head(p.todo)[2]
            q == [p EXCEPT !.todo = Recovery(p.kind, name), !.verdict = Verdict(p.kind, name)]
<1>1. p \in OpStates /\ OpOK(p, o, committed, Len(revisions), handled) /\ Len(revisions) \in Nat
  BY LenRevisions DEF IInv, OpsInv
<1>2. Recovery(p.kind, name) \in Seq(PlainSteps)
  BY RecoveryPlain
<1>3. Recovery(p.kind, name) \in Seq(Steps)
  BY <1>2, PlainWellFormed DEF WellFormed
<1>4. Verdict(p.kind, name) \in {"COMPLETED", "FAILED"}
  BY DEF Verdict
<1>5. q \in OpStates
  BY <1>1, <1>3, <1>4 DEF OpStates
<1>6. op' = [op EXCEPT ![o] = q]
  BY DEF Failed, Step
<1>7. /\ q.todo = Recovery(p.kind, name) /\ q.kind = p.kind /\ q.status = p.status
      /\ q.verdict = Verdict(p.kind, name) /\ q.snapshot = p.snapshot /\ q.revision = p.revision
  BY <1>1 DEF OpStates
<1>8. p.revision <= Len(revisions)
  BY <1>1 DEF OpOK
<1>9. OpOK(q, o, committed, Len(revisions), handled)
  <2>1. CASE p.kind \notin MissionKinds
    <3>. HIDE DEF q, name
    <3>. QED
      BY <1>1, <1>2, <1>5, <1>7, <1>8, <2>1, StepsDropped
  <2>2. CASE p.kind \in MissionKinds
    <3>1. MissionOK(p, o, handled)
      BY <1>1, <2>2 DEF OpOK
    <3>2. Head(p.todo) \in MissionSteps(p.kind)
      BY <3>1, TailFacts DEF MissionOK
    <3>3. name \in {"ACCEPTED", "publish", "hold", "stop_experiment", "COMPLETED"}
      BY <2>2, <3>2 DEF MissionSteps, MissionKinds, Update, Do, Await
    <3>4. Recovery(p.kind, name) = <<>> /\ Verdict(p.kind, name) = "FAILED"
      <4>. HIDE DEF name
      <4>. QED
        BY <2>2, <3>3 DEF Recovery, Verdict, MissionKinds, StartKinds, EditKinds
    <3>. HIDE DEF q, name
    <3>5. MissionOK(q, o, handled)
      <4>1. <<>> \in Seq(MissionSteps(p.kind))
        OBVIOUS
      <4>. QED
        BY <1>7, <3>1, <3>4, <4>1 DEF MissionOK
    <3>6. Justified(q.todo, FALSE) /\ Created(q.todo, FALSE)
      BY <1>2, <1>7, PlainWellFormed DEF WellFormed
    <3>. QED
      BY <1>5, <1>7, <1>8, <3>5, <3>6 DEF OpOK, UpdateOK
  <2>. QED
    BY <2>1, <2>2
<1>. HIDE DEF q
<1>. QED
  BY <1>6, <1>9, OneMoves

LEMMA FailedOK ==
  ASSUME IInv, NEW o \in Operations, op[o].todo # <<>>, op[o].snapshot = <<>>,
         op' = Failed(o), UNCHANGED <<state, runtime, records, file, latest>>
  PROVE  IInv'
<1>1. UNCHANGED <<revisions, committed, handled>>
  BY DEF runtime, records
<1>. QED
  BY <1>1, FailedOps, OnlyOps

LEMMA FailsOK ==
  ASSUME IInv, NEW o \in Operations, NEW name, Fails(o, name)
  PROVE  IInv'
<1>1. op[o].todo # <<>> /\ op[o].snapshot = <<>>
  BY AtStep DEF IInv, Fails
<1>. QED
  BY <1>1, FailedOK DEF Fails

\* The next step is done and other fields of the operation are set.
LEMMA ChangedOK ==
  ASSUME IInv, NEW o \in Operations, op[o].todo # <<>>, op[o].snapshot = <<>>,
         Head(op[o].todo) \notin Changes \union {Do("commit")},
         \A kind : Head(op[o].todo) # Await(kind),
         NEW q \in OpStates, q.todo = Tail(op[o].todo), q.kind = op[o].kind,
         q.status = op[o].status, q.verdict = op[o].verdict, q.snapshot = <<>>,
         q.revision = op[o].revision,
         op' = [Advanced(o) EXCEPT ![o] = q], UNCHANGED <<state, runtime, records, file, latest>>
  PROVE  IInv'
<1>. DEFINE p == op[o]
<1>1. p \in OpStates /\ OpOK(p, o, committed, Len(revisions), handled) /\ Len(revisions) \in Nat
      /\ op \in [Operations -> OpStates]
  BY LenRevisions DEF IInv, OpsInv
<1>2. op' = [op EXCEPT ![o] = q]
  BY <1>1, Twice DEF Advanced
<1>3. OpOK(q, o, committed, Len(revisions), handled)
  BY <1>1, StepDone
<1>. QED
  BY <1>2, <1>3, OneOp

\* A new operation starts with its program.
LEMMA SubmitOK ==
  ASSUME IInv, NEW o \in Operations, Submit(o)
  PROVE  IInv'
<1>1. PICK workload \in Workloads :
        LET kind == workload[o][1]
            process == workload[o][2]
        IN op' = [op EXCEPT ![o] = [Idle(kind, process) EXCEPT
                    !.todo = Program(kind),
                    !.status = IF kind \in JobKinds /\ process = "server"
                               THEN "QUEUED" ELSE "RUNNING"]]
  BY DEF Submit
<1>. DEFINE kind == workload[o][1]
            process == workload[o][2]
            status0 == IF kind \in JobKinds /\ process = "server" THEN "QUEUED" ELSE "RUNNING"
            q == [Idle(kind, process) EXCEPT !.todo = Program(kind), !.status = status0]
<1>2. kind \in AllKinds /\ process \in Processes
  <2>1. workload[o] \in (AllKinds \X {"server"}) \union (CommandLineKinds \X {"cli"})
    BY LifecycleAssumption DEF Operations
  <2>. QED
    BY <2>1 DEF Processes, AllKinds
<1>3. Program(kind) \in WellFormed
  BY <1>2, ProgramWellFormed
<1>4. Idle(kind, process) \in OpStates
  BY <1>2, IdleTyped
<1>5. q \in OpStates
  <2>1. status0 \in {"NONE", "QUEUED", "RUNNING", "COMPLETED", "FAILED"}
    OBVIOUS
  <2>. HIDE DEF kind, process, status0
  <2>. QED
    BY <1>3, <1>4, <2>1 DEF WellFormed, OpStates
<1>6. /\ q.todo = Program(kind) /\ q.kind = kind /\ q.status = status0 /\ q.verdict = "COMPLETED"
      /\ q.snapshot = <<>> /\ q.revision = 0
  BY DEF Idle
<1>7. OpOK(q, o, committed, Len(revisions), handled)
  <2>1. Len(revisions) \in Nat
    BY LenRevisions DEF IInv
  <2>2. ASSUME kind \in MissionKinds
        PROVE  MissionOK(q, o, handled)
    <3>1. status0 = "RUNNING"
      BY <2>2 DEF MissionKinds, JobKinds, StartKinds
    <3>2. /\ Program(kind) \in Seq(MissionSteps(kind))
          /\ \E i \in 1..Len(Program(kind)) : Program(kind)[i] = Await(kind)
      BY <2>2, MissionProgram
    <3>. HIDE DEF kind, q, status0
    <3>. QED
      BY <1>6, <3>1, <3>2 DEF MissionOK
  <2>3. Justified(Program(kind), FALSE) /\ Created(Program(kind), FALSE)
    BY <1>3 DEF WellFormed
  <2>. HIDE DEF kind, q, status0
  <2>4. q.revision <= Len(revisions) /\ UpdateOK(q, committed)
    BY <1>6, <2>1 DEF UpdateOK
  <2>5. q.kind \in MissionKinds => MissionOK(q, o, handled)
    BY <1>6, <2>2
  <2>6. Justified(q.todo, FALSE) /\ Created(q.todo, FALSE)
    BY <1>6, <2>3
  <2>. QED
    BY <1>5, <2>4, <2>5, <2>6 DEF OpOK
<1>8. op' = [op EXCEPT ![o] = q]
  BY <1>1
<1>9. UNCHANGED <<state, runtime, records, file, latest>>
  BY DEF Submit
<1>. HIDE DEF q
<1>. QED
  BY <1>7, <1>8, <1>9, OneOp

LEMMA DispatchOK ==
  ASSUME IInv, NEW o \in Operations, Dispatch(o)
  PROVE  IInv'
<1>. DEFINE p == op[o]
            q == [p EXCEPT !.status = "RUNNING"]
<1>1. p \in OpStates /\ OpOK(p, o, committed, Len(revisions), handled)
  BY DEF IInv, OpsInv
<1>2. q \in OpStates
  BY <1>1 DEF OpStates
<1>3. /\ q.todo = p.todo /\ q.kind = p.kind /\ q.status = "RUNNING" /\ p.status = "QUEUED"
      /\ q.snapshot = p.snapshot /\ q.revision = p.revision
  BY <1>1 DEF OpStates, Dispatch
<1>4. p.snapshot = <<>> /\ p.kind \notin MissionKinds
  BY <1>1, <1>3 DEF OpOK, UpdateOK, MissionOK
<1>5. OpOK(q, o, committed, Len(revisions), handled)
  <2>. HIDE DEF q
  <2>. QED
    BY <1>1, <1>2, <1>3, <1>4 DEF OpOK, UpdateOK
<1>6. op' = [op EXCEPT ![o] = q] /\ UNCHANGED <<state, runtime, records, file, latest>>
  BY DEF Dispatch
<1>. HIDE DEF q
<1>. QED
  BY <1>5, <1>6, OneOp

\* A mission command that has nothing left to do and has not failed was handled.
LEMMA AcknowledgeOK ==
  ASSUME IInv, NEW o \in Operations, Acknowledge(o)
  PROVE  IInv'
<1>. DEFINE p == op[o]
            q == [Idle(p.kind, p.process) EXCEPT !.status = p.verdict]
<1>1. p \in OpStates /\ OpOK(p, o, committed, Len(revisions), handled)
  BY DEF IInv, OpsInv
<1>2. p.status = "RUNNING" /\ p.todo = <<>>
  BY DEF Acknowledge
<1>3. Idle(p.kind, p.process) \in OpStates /\ p.verdict \in {"COMPLETED", "FAILED"}
  BY <1>1, IdleTyped DEF OpStates
<1>4. q \in OpStates
  <2>. DEFINE r == Idle(p.kind, p.process)
  <2>1. r \in OpStates
    BY <1>3
  <2>. HIDE DEF r
  <2>2. [r EXCEPT !.status = p.verdict] \in OpStates
    BY <1>3, <2>1 DEF OpStates
  <2>. QED
    BY <2>2 DEF r
<1>5. /\ q.todo = <<>> /\ q.kind = p.kind /\ q.status = p.verdict
      /\ q.snapshot = <<>> /\ q.revision = 0
  BY DEF Idle
<1>6. p.kind \in MissionKinds => MissionOK(q, o, handled)
  <2>1. SUFFICES ASSUME p.kind \in MissionKinds PROVE MissionOK(q, o, handled)
    OBVIOUS
  <2>2. MissionOK(p, o, handled)
    BY <1>1, <2>1 DEF OpOK
  <2>3. p.verdict = "COMPLETED" => o \in handled
    BY <1>2, <2>2 DEF MissionOK
  <2>4. <<>> \in Seq(MissionSteps(p.kind))
    OBVIOUS
  <2>. HIDE DEF q
  <2>. QED
    BY <1>3, <1>5, <2>3, <2>4 DEF MissionOK
<1>7. OpOK(q, o, committed, Len(revisions), handled)
  <2>1. Len(revisions) \in Nat
    BY LenRevisions DEF IInv
  <2>2. Justified(<<>>, FALSE) /\ Created(<<>>, FALSE)
    BY DEF Justified, Created
  <2>. HIDE DEF q
  <2>3. q.revision <= Len(revisions) /\ UpdateOK(q, committed)
    BY <1>5, <2>1 DEF UpdateOK
  <2>4. q.kind \in MissionKinds => MissionOK(q, o, handled)
    BY <1>5, <1>6
  <2>5. Justified(q.todo, FALSE) /\ Created(q.todo, FALSE)
    BY <1>5, <2>2
  <2>. QED
    BY <1>4, <2>3, <2>4, <2>5 DEF OpOK
<1>8. op' = [op EXCEPT ![o] = q] /\ UNCHANGED <<state, runtime, records, file, latest>>
  BY DEF Acknowledge
<1>. HIDE DEF q
<1>. QED
  BY <1>7, <1>8, OneOp

-----------------------------------------------------------------------------
(* The state file.                                                           *)

\* A claim is made only when the operation's revision is committed.
LEMMA ClaimsBacked ==
  ASSUME NEW p \in OpStates, NEW o, NEW C, NEW L, NEW H, OpOK(p, o, C, L, H),
         p.todo # <<>>, Head(p.todo) \in Claims
  PROVE  p.revision \in C
<1>1. p.todo \in Seq(Steps)
  BY DEF OpStates
<1>2. ~ Justified(p.todo, FALSE)
  BY <1>1, TailJustified
<1>. QED
  BY <1>2 DEF OpOK

\* The name of an update is one of the code's.
LEMMA UpdateNamed ==
  ASSUME NEW name, Update(name) \in Steps
  PROVE  name \in UpdateNames
  BY DEF Update, Steps

LEMMA PatchedGood ==
  ASSUME IInv, NEW o \in Operations, NEW name \in UpdateNames,
         name \in {"COMMITTED", "RECONCILED", "READY"} => op[o].revision \in committed
  PROVE  Good(Patched(o, name), committed)
<1>. DEFINE r == op[o].revision
<1>1. /\ state \in States /\ (state.committed = 0 \/ state.committed \in committed)
      /\ (state.sync = "IN_SYNC" => state.committed # 0)
      /\ (state.phase = "STOPPED" => state.telemetry = "OFFLINE")
  BY DEF IInv, Good
<1>2. r \in Nat
  BY DEF IInv, OpsInv, OpStates
<1>3. r \in committed => r # 0
  BY <1>2 DEF IInv, RevisionsOK
<1>4. o \in 0..MaxOperations
  BY Constants
<1>. HIDE DEF r
<1>5. CASE name = "ACCEPTED"
  BY <1>1, <1>5 DEF Patched, Good
<1>6. CASE name = "RUN"
  <2>1. Patched(o, name) = [state EXCEPT !.phase = "STARTING_EXPERIMENT", !.run = o]
    BY <1>6 DEF Patched
  <2>. QED
    BY <1>1, <1>4, <2>1 DEF Good, States, Phases
<1>7. CASE name = "PENDING"
  <2>1. Patched(o, name) = [state EXCEPT !.desired = r, !.sync = "PENDING_RUNTIME_APPLY"]
    BY <1>7 DEF Patched, r
  <2>. QED
    BY <1>1, <1>2, <2>1 DEF Good, States
<1>8. CASE name = "COMMITTED"
  <2>1. Patched(o, name) = [state EXCEPT !.committed = r, !.sync = "IN_SYNC"]
    BY <1>8 DEF Patched, r
  <2>2. r \in committed
    BY <1>8 DEF r
  <2>. QED
    BY <1>1, <1>2, <1>3, <2>1, <2>2 DEF Good, States
<1>9. CASE name = "RECONCILED"
  <2>1. Patched(o, name) = [state EXCEPT !.desired = r, !.committed = r, !.sync = "IN_SYNC"]
    BY <1>9 DEF Patched, r
  <2>2. r \in committed
    BY <1>9 DEF r
  <2>. QED
    BY <1>1, <1>2, <1>3, <2>1, <2>2 DEF Good, States
<1>10. CASE name = "READY"
  <2>. DEFINE t == IF fresh THEN "LIVE" ELSE "STALE"
  <2>1. Patched(o, name) = [state EXCEPT !.phase = "READY", !.telemetry = t,
                              !.desired = r, !.committed = r, !.sync = "IN_SYNC"]
    BY <1>10 DEF Patched, r
  <2>2. r \in committed
    BY <1>10 DEF r
  <2>3. t \in {"OFFLINE", "LIVE", "STALE"}
    OBVIOUS
  <2>. HIDE DEF t
  <2>. QED
    BY <1>1, <1>2, <1>3, <2>1, <2>2, <2>3 DEF Good, States, Phases
<1>11. CASE name = "STOPPED"
  <2>1. Patched(o, name) = [state EXCEPT !.phase = "STOPPED", !.telemetry = "OFFLINE"]
    BY <1>11 DEF Patched, Stopped
  <2>. QED
    BY <1>1, <2>1 DEF Good, States, Phases
<1>12. CASE name \notin {"ACCEPTED", "RUN", "PENDING", "COMMITTED", "RECONCILED", "READY", "STOPPED"}
  <2>1. Patched(o, name) = [state EXCEPT !.phase = name]
    BY <1>12 DEF Patched
  <2>2. name \in Phases
    BY <1>12 DEF UpdateNames
  <2>. QED
    BY <1>1, <1>12, <2>1, <2>2 DEF Good, States
<1>. QED
  BY <1>5, <1>6, <1>7, <1>8, <1>9, <1>10, <1>11, <1>12

\* What an update has read, and changed, may be written.
LEMMA ReadStateOK ==
  ASSUME IInv, NEW o \in Operations, ReadState(o)
  PROVE  IInv'
<1>. DEFINE p == op[o]
            name == Head(p.todo)[2]
            q == [p EXCEPT !.snapshot = <<Patched(o, name)>>]
<1>1. p \in OpStates /\ OpOK(p, o, committed, Len(revisions), handled)
  BY DEF IInv, OpsInv
<1>2. p.status = "RUNNING" /\ p.todo # <<>> /\ Head(p.todo)[1] = "update"
  BY DEF ReadState, Step
<1>3. Head(p.todo) \in Steps
  <2>1. p.todo \in Seq(Steps)
    BY <1>1 DEF OpStates
  <2>. QED
    BY <1>2, <2>1, TailFacts
<1>4. Head(p.todo) = Update(name) /\ name \in UpdateNames
  BY <1>2, <1>3 DEF Steps, Update
<1>5. name \in {"COMMITTED", "RECONCILED", "READY"} => p.revision \in committed
  <2>1. name \in {"COMMITTED", "RECONCILED", "READY"} => Head(p.todo) \in Claims
    <3>. HIDE DEF name
    <3>. QED
      BY <1>4 DEF Claims
  <2>. HIDE DEF name
  <2>. QED
    BY <1>1, <1>2, <2>1, ClaimsBacked
<1>6. Good(Patched(o, name), committed)
  <2>. HIDE DEF name
  <2>. QED
    BY <1>4, <1>5, PatchedGood
<1>7. q \in OpStates
  <2>1. <<Patched(o, name)>> \in Seq(States)
    BY <1>6 DEF Good
  <2>. HIDE DEF name
  <2>. QED
    BY <1>1, <2>1 DEF OpStates
<1>8. /\ q.todo = p.todo /\ q.kind = p.kind /\ q.status = p.status /\ q.verdict = p.verdict
      /\ q.snapshot = <<Patched(o, name)>> /\ q.revision = p.revision
  BY <1>1 DEF OpStates
<1>9. OpOK(q, o, committed, Len(revisions), handled)
  <2>. HIDE DEF q, name
  <2>1. UpdateOK(q, committed)
    BY <1>2, <1>6, <1>8 DEF UpdateOK
  <2>2. q.kind \in MissionKinds => MissionOK(q, o, handled)
    BY <1>1, <1>8 DEF OpOK, MissionOK
  <2>. QED
    BY <1>1, <1>7, <1>8, <2>1, <2>2 DEF OpOK
<1>10. op' = [op EXCEPT ![o] = q] /\ UNCHANGED <<state, runtime, records, file, latest>>
  BY DEF ReadState, Step
<1>. HIDE DEF q
<1>. QED
  BY <1>9, <1>10, OneOp

LEMMA WriteStateOK ==
  ASSUME IInv, NEW o \in Operations, WriteState(o)
  PROVE  IInv'
<1>. DEFINE p == op[o]
            q == [p EXCEPT !.todo = Tail(p.todo), !.snapshot = <<>>]
<1>1. /\ p \in OpStates /\ OpOK(p, o, committed, Len(revisions), handled)
      /\ op \in [Operations -> OpStates] /\ Len(revisions) \in Nat
  BY LenRevisions DEF IInv, OpsInv
<1>2. /\ p.snapshot # <<>> /\ p.todo # <<>> /\ Head(p.todo)[1] = "update"
      /\ Good(p.snapshot[1], committed)
  BY <1>1 DEF WriteState, InUpdate, OpOK, UpdateOK
<1>3. UNCHANGED <<containers, fresh, node, status, inbox, handled, revisions, desired, committed, file>>
  BY DEF WriteState, runtime, records
<1>4. /\ Head(p.todo) \notin Changes \union {Do("commit")}
      /\ Head(p.todo) # Await(p.kind) /\ Head(p.todo) # Do("create")
  BY <1>2 DEF Changes, Do, Await
<1>5. q \in OpStates
  <2>1. Tail(p.todo) \in Seq(Steps) /\ <<>> \in Seq(States)
    BY <1>1, <1>2, TailFacts DEF OpStates
  <2>. QED
    BY <1>1, <2>1 DEF OpStates
<1>6. /\ q.todo = Tail(p.todo) /\ q.kind = p.kind /\ q.status = p.status /\ q.verdict = p.verdict
      /\ q.snapshot = <<>> /\ q.revision = p.revision
  BY <1>1 DEF OpStates
<1>7. op' = [op EXCEPT ![o] = q]
  BY <1>1 DEF WriteState, Advanced
<1>. HIDE DEF q
<1>8. OpOK(q, o, committed, Len(revisions), handled)
  BY <1>1, <1>2, <1>4, <1>5, <1>6, StepDone
<1>9. OpsInv'
  <2>1. OpsInv
    BY DEF IInv
  <2>2. OpOK(q, o, committed', Len(revisions'), handled')
    BY <1>3, <1>8
  <2>3. /\ committed \subseteq committed' /\ handled \subseteq handled'
        /\ Len(revisions') \in Nat /\ Len(revisions) <= Len(revisions')
    BY <1>1, <1>3
  <2>. QED
    BY <1>1, <1>7, <2>1, <2>2, <2>3, OpMoves
<1>10. Good(state', committed')
  BY <1>2, <1>3 DEF WriteState
<1>11. RevisionsOK' /\ RuntimeOK'
  BY <1>3 DEF IInv, RevisionsOK, RuntimeOK, NodeOK
<1>. QED
  BY <1>9, <1>10, <1>11 DEF IInv

-----------------------------------------------------------------------------
(* The other steps that change only the operation.                           *)

LEMMA DoHead ==
  ASSUME IInv, NEW o \in Operations, NEW name, At(o, "do", name)
  PROVE  /\ op[o] \in OpStates /\ OpOK(op[o], o, committed, Len(revisions), handled)
         /\ op[o].todo # <<>> /\ op[o].snapshot = <<>> /\ Head(op[o].todo) = Do(name)
         /\ \A kind : Head(op[o].todo) # Await(kind)
         /\ name \notin {"create", "choose", "commit"} =>
              Head(op[o].todo) \notin Changes \union {Do("commit")}
         /\ name # "publish" => op[o].kind \notin MissionKinds
<1>1. /\ op[o] \in OpStates /\ OpOK(op[o], o, committed, Len(revisions), handled)
      /\ op[o].todo # <<>> /\ op[o].snapshot = <<>> /\ Head(op[o].todo) = Do(name)
  BY AtStep DEF IInv, Do
<1>2. \A kind : Head(op[o].todo) # Await(kind)
  BY <1>1 DEF Do, Await
<1>3. name \notin {"create", "choose", "commit"} =>
        Head(op[o].todo) \notin Changes \union {Do("commit")}
  BY <1>1 DEF Do, Changes
<1>4. name # "publish" => op[o].kind \notin MissionKinds
  BY <1>1, NotMission, OtherDo
<1>. QED
  BY <1>1, <1>2, <1>3, <1>4

LEMMA DoneOK ==
  ASSUME IInv, NEW o \in Operations, NEW name, name \notin {"create", "choose", "commit"},
         At(o, "do", name), op' = Advanced(o), UNCHANGED <<state, runtime, records, file, latest>>
  PROVE  IInv'
  BY DoHead, AdvancedOK

\* A start that finds the stack ready ends at once.
LEMMA ObserveOK ==
  ASSUME IInv, NEW o \in Operations, Observe(o)
  PROVE  IInv'
<1>1. At(o, "do", "observe") /\ UNCHANGED <<state, runtime, records, file, latest>>
  BY DEF Observe
<1>2. CASE op' = Advanced(o)
  BY <1>1, <1>2, DoneOK
<1>3. CASE op' = [op EXCEPT ![o].todo = <<>>]
  <2>. DEFINE p == op[o]
              q == [p EXCEPT !.todo = <<>>]
  <2>1. /\ p \in OpStates /\ OpOK(p, o, committed, Len(revisions), handled)
        /\ p.snapshot = <<>> /\ p.kind \notin MissionKinds
    BY <1>1, DoHead
  <2>2. Len(revisions) \in Nat /\ p.revision <= Len(revisions)
    BY <2>1, LenRevisions DEF OpOK, IInv
  <2>3. <<>> \in Seq(PlainSteps) /\ <<>> \in Seq(Steps)
    OBVIOUS
  <2>4. q \in OpStates
    BY <2>1, <2>3 DEF OpStates
  <2>5. q.todo = <<>> /\ q.kind = p.kind /\ q.snapshot = <<>> /\ q.revision = p.revision
    BY <2>1 DEF OpStates
  <2>6. op' = [op EXCEPT ![o] = q]
    BY <1>3
  <2>. HIDE DEF q
  <2>7. OpOK(q, o, committed, Len(revisions), handled)
    BY <2>1, <2>2, <2>3, <2>4, <2>5, StepsDropped
  <2>. QED
    BY <1>1, <2>6, <2>7, OneOp
<1>. QED
  BY <1>2, <1>3 DEF Observe

LEMMA RaiseTypeErrorOK ==
  ASSUME IInv, NEW o \in Operations, RaiseTypeError(o)
  PROVE  IInv'
<1>. DEFINE p == op[o]
            q == [p EXCEPT !.todo = <<>>, !.verdict = "FAILED"]
<1>1. /\ At(o, "do", "raise") /\ UNCHANGED <<state, runtime, records, file, latest>>
      /\ op' = [op EXCEPT ![o] = q]
  BY DEF RaiseTypeError
<1>2. /\ p \in OpStates /\ OpOK(p, o, committed, Len(revisions), handled)
      /\ p.snapshot = <<>> /\ p.kind \notin MissionKinds
  BY <1>1, DoHead
<1>3. Len(revisions) \in Nat /\ p.revision <= Len(revisions)
  BY <1>2, LenRevisions DEF OpOK, IInv
<1>4. <<>> \in Seq(PlainSteps) /\ <<>> \in Seq(Steps)
  OBVIOUS
<1>5. q \in OpStates
  BY <1>2, <1>4 DEF OpStates
<1>6. q.todo = <<>> /\ q.kind = p.kind /\ q.snapshot = <<>> /\ q.revision = p.revision
  BY <1>2 DEF OpStates
<1>. HIDE DEF q
<1>7. OpOK(q, o, committed, Len(revisions), handled)
  BY <1>2, <1>3, <1>4, <1>5, <1>6, StepsDropped
<1>. QED
  BY <1>1, <1>7, OneOp

\* The steps that set a field of the operation: what it has read of the configuration,
\* of the runtime's version, and its hold on the lock.
LEMMA FieldsOK ==
  ASSUME IInv, NEW o \in Operations, NEW name, name \notin {"create", "choose", "commit"},
         At(o, "do", name), UNCHANGED <<state, runtime, records, file, latest>>,
         \/ \E c \in SectionMarks : op' = [Advanced(o) EXCEPT ![o].config = c]
         \/ \E l \in BOOLEAN : op' = [Advanced(o) EXCEPT ![o].lock = l]
         \/ \E n \in Nat : op' = [Advanced(o) EXCEPT ![o].before = n]
  PROVE  IInv'
<1>. DEFINE p == op[o]
            r == [p EXCEPT !.todo = Tail(p.todo)]
<1>1. /\ p \in OpStates /\ p.todo # <<>> /\ p.snapshot = <<>>
      /\ Head(p.todo) \notin Changes \union {Do("commit")}
      /\ \A kind : Head(p.todo) # Await(kind)
  BY DoHead
<1>2. r \in OpStates
  BY <1>1, TailTyped
<1>3. /\ r.todo = Tail(p.todo) /\ r.kind = p.kind /\ r.status = p.status
      /\ r.verdict = p.verdict /\ r.snapshot = <<>> /\ r.revision = p.revision
  BY <1>1 DEF OpStates
<1>4. Advanced(o)[o] = r
  BY DEF Advanced, IInv, OpsInv
<1>. HIDE DEF r
<1>5. ASSUME NEW c \in SectionMarks, op' = [Advanced(o) EXCEPT ![o].config = c]
      PROVE  IInv'
  <2>. DEFINE q == [r EXCEPT !.config = c]
  <2>1. q \in OpStates
    BY <1>2, <1>5 DEF OpStates
  <2>2. /\ q.todo = r.todo /\ q.kind = r.kind /\ q.status = r.status
        /\ q.verdict = r.verdict /\ q.snapshot = r.snapshot /\ q.revision = r.revision
    BY <1>2 DEF OpStates
  <2>3. op' = [Advanced(o) EXCEPT ![o] = q]
    BY <1>4, <1>5
  <2>. HIDE DEF q
  <2>. QED
    BY <1>1, <1>3, <2>1, <2>2, <2>3, ChangedOK
<1>6. ASSUME NEW l \in BOOLEAN, op' = [Advanced(o) EXCEPT ![o].lock = l]
      PROVE  IInv'
  <2>. DEFINE q == [r EXCEPT !.lock = l]
  <2>1. q \in OpStates
    BY <1>2, <1>6 DEF OpStates
  <2>2. /\ q.todo = r.todo /\ q.kind = r.kind /\ q.status = r.status
        /\ q.verdict = r.verdict /\ q.snapshot = r.snapshot /\ q.revision = r.revision
    BY <1>2 DEF OpStates
  <2>3. op' = [Advanced(o) EXCEPT ![o] = q]
    BY <1>4, <1>6
  <2>. HIDE DEF q
  <2>. QED
    BY <1>1, <1>3, <2>1, <2>2, <2>3, ChangedOK
<1>7. ASSUME NEW n \in Nat, op' = [Advanced(o) EXCEPT ![o].before = n]
      PROVE  IInv'
  <2>. DEFINE q == [r EXCEPT !.before = n]
  <2>1. q \in OpStates
    BY <1>2, <1>7 DEF OpStates
  <2>2. /\ q.todo = r.todo /\ q.kind = r.kind /\ q.status = r.status
        /\ q.verdict = r.verdict /\ q.snapshot = r.snapshot /\ q.revision = r.revision
    BY <1>2 DEF OpStates
  <2>3. op' = [Advanced(o) EXCEPT ![o] = q]
    BY <1>4, <1>7
  <2>. HIDE DEF q
  <2>. QED
    BY <1>1, <1>3, <2>1, <2>2, <2>3, ChangedOK
<1>. QED
  BY <1>5, <1>6, <1>7

LEMMA ReadingOK ==
  ASSUME IInv, NEW o \in Operations,
         Preflight(o) \/ LoadConfig(o) \/ LockConfig(o) \/ UnlockConfig(o) \/ ReadVersion(o)
  PROVE  IInv'
<1>1. CASE Preflight(o)
  <2>1. file \in SectionMarks
    BY DEF IInv, RevisionsOK
  <2>. QED
    BY <1>1, <2>1, FieldsOK, FailsOK DEF Preflight
<1>2. CASE LoadConfig(o)
  <2>1. [s \in Sections |-> IF s \in Edited(op[o].kind) THEN o ELSE file[s]] \in SectionMarks
    BY Constants DEF IInv, RevisionsOK, SectionMarks
  <2>. QED
    BY <1>2, <2>1, FieldsOK, FailsOK DEF LoadConfig
<1>3. CASE LockConfig(o)
  BY <1>3, FieldsOK DEF LockConfig
<1>4. CASE UnlockConfig(o)
  BY <1>4, FieldsOK DEF UnlockConfig
<1>5. CASE ReadVersion(o)
  <2>1. status.version \in Nat
    BY DEF IInv, RuntimeOK, NodeOK
  <2>. QED
    BY <1>5, <2>1, FieldsOK DEF ReadVersion
<1>. QED
  BY <1>1, <1>2, <1>3, <1>4, <1>5

LEMMA CheckingOK ==
  ASSUME IInv, NEW o \in Operations,
         Build(o) \/ ObserveParticipants(o) \/ PacketReady(o)
  PROVE  IInv'
<1>1. CASE Build(o)
  BY <1>1, DoneOK, FailsOK DEF Build
<1>2. CASE ObserveParticipants(o)
  <2>1. At(o, "do", "participants_live") /\ UNCHANGED <<state, runtime, records, file, latest>>
        /\ (op' = Advanced(o) \/ op' = Failed(o))
    BY <1>2 DEF ObserveParticipants
  <2>. QED
    BY <2>1, DoneOK, FailedOK, DoHead
<1>3. CASE PacketReady(o)
  <2>1. At(o, "do", "packet_ready") /\ UNCHANGED <<state, runtime, records, file, latest>>
        /\ (op' = Advanced(o) \/ op' = Failed(o))
    BY <1>3 DEF PacketReady
  <2>. QED
    BY <2>1, DoneOK, FailedOK, DoHead
<1>. QED
  BY <1>1, <1>2, <1>3

\* The wait of a mission command ends when the status names that command.
LEMMA WaitingOK ==
  ASSUME IInv, NEW o \in Operations, WaitEnds(o) \/ WaitTimesOut(o)
  PROVE  IInv'
<1>. DEFINE p == op[o]
<1>1. /\ p.status = "RUNNING" /\ p.todo # <<>> /\ Head(p.todo)[1] = "await"
      /\ UNCHANGED <<state, runtime, records, file, latest>>
  BY DEF WaitEnds, WaitTimesOut, Step
<1>2. p \in OpStates /\ OpOK(p, o, committed, Len(revisions), handled)
  BY DEF IInv, OpsInv
<1>3. p.snapshot = <<>>
  BY <1>1, <1>2 DEF OpOK, UpdateOK
<1>4. Head(p.todo) \notin Changes \union {Do("commit")}
  BY <1>1 DEF Changes, Do
<1>5. CASE WaitTimesOut(o)
  BY <1>1, <1>3, <1>5, FailedOK DEF WaitTimesOut
<1>6. CASE WaitEnds(o)
  <2>1. ASSUME p.kind \in MissionKinds, Head(p.todo) = Await(p.kind)
        PROVE  o \in handled
    <3>1. Head(p.todo)[2] = p.kind /\ p.kind \in AllKinds
      BY <2>1 DEF Await, MissionKinds, AllKinds
    <3>2. RuntimeAcknowledged(p.kind, o)
      BY <1>6, <3>1 DEF WaitEnds, Step
    <3>3. status.last = o
      BY <2>1, <3>2 DEF RuntimeAcknowledged, MissionKinds
    <3>. QED
      BY <3>3, Constants DEF IInv, RuntimeOK, NodeOK
  <2>. QED
    BY <1>1, <1>3, <1>4, <1>6, <2>1, AdvancedOK DEF WaitEnds
<1>. QED
  BY <1>5, <1>6

\* synchronize commits what it will claim, whichever revision it chooses.
LEMMA ChooseRevisionOK ==
  ASSUME IInv, NEW o \in Operations, ChooseRevision(o)
  PROVE  IInv'
<1>. DEFINE p == op[o]
<1>1. At(o, "do", "choose") /\ UNCHANGED <<state, runtime, records, file, latest>>
  BY DEF ChooseRevision
<1>2. /\ p \in OpStates /\ OpOK(p, o, committed, Len(revisions), handled) /\ p.todo # <<>>
      /\ p.snapshot = <<>> /\ Head(p.todo) = Do("choose") /\ p.kind \notin MissionKinds
  BY <1>1, DoHead
<1>3. /\ p.todo \in Seq(Steps) /\ Tail(p.todo) \in Seq(Steps) /\ Justified(Tail(p.todo), FALSE)
  <2>1. p.todo \in Seq(Steps) /\ Do("choose") \in Changes
    BY <1>2 DEF OpStates, Changes
  <2>2. Justified(p.todo, TRUE) \/ Justified(p.todo, FALSE)
    BY <1>2 DEF OpOK
  <2>. QED
    BY <1>2, <2>1, <2>2, TailJustified, TailFacts
<1>4. Len(revisions) \in Nat /\ p.revision \in Nat /\ p.revision <= Len(revisions)
  BY <1>2, LenRevisions DEF OpOK, OpStates, IInv
<1>5. CASE desired # 0 /\ ~InSync
  <2>. DEFINE t == ReconcileSteps \o Tail(p.todo)
              q == [p EXCEPT !.revision = desired, !.config = revisions[desired], !.todo = t]
  <2>1. t \in Seq(Steps) /\ Justified(t, FALSE)
    BY <1>3, ReconcileFacts, ConcatJustified, ConcatFacts
  <2>2. /\ desired \in 1..Len(revisions) /\ revisions[desired] \in SectionMarks
        /\ desired \in Nat /\ desired <= Len(revisions)
    BY <1>4, <1>5 DEF IInv, RevisionsOK
  <2>3. op' = [op EXCEPT ![o] = q]
    BY <1>5 DEF ChooseRevision
  <2>. HIDE DEF t
  <2>4. q \in OpStates
    BY <1>2, <2>1, <2>2 DEF OpStates
  <2>5. q.todo = t /\ q.kind = p.kind /\ q.snapshot = <<>> /\ q.revision = desired
    BY <1>2 DEF OpStates
  <2>. HIDE DEF q
  <2>6. OpOK(q, o, committed, Len(revisions), handled)
    <3>1. UpdateOK(q, committed) /\ q.kind \notin MissionKinds /\ q.revision # 0
      BY <1>2, <1>5, <2>5 DEF UpdateOK
    <3>. QED
      BY <2>1, <2>2, <2>4, <2>5, <3>1 DEF OpOK
  <2>. QED
    BY <1>1, <2>3, <2>6, OneOp
<1>6. CASE ~(desired # 0 /\ ~InSync)
  <2>. DEFINE t == <<Do("create")>> \o ReconcileSteps \o Tail(p.todo)
              q == [p EXCEPT !.config = file, !.todo = t]
  <2>1. t \in WellFormed
    BY <1>3, CreateThen
  <2>2. file \in SectionMarks
    BY DEF IInv, RevisionsOK
  <2>3. op' = [op EXCEPT ![o] = q]
    BY <1>6 DEF ChooseRevision
  <2>. HIDE DEF t
  <2>4. q \in OpStates
    BY <1>2, <2>1, <2>2 DEF OpStates, WellFormed
  <2>5. q.todo = t /\ q.kind = p.kind /\ q.snapshot = <<>> /\ q.revision = p.revision
    BY <1>2 DEF OpStates
  <2>. HIDE DEF q
  <2>6. OpOK(q, o, committed, Len(revisions), handled)
    <3>1. UpdateOK(q, committed) /\ q.kind \notin MissionKinds /\ q.revision <= Len(revisions)
      BY <1>2, <1>4, <2>5 DEF UpdateOK
    <3>2. Justified(q.todo, FALSE) /\ Created(q.todo, FALSE)
      BY <2>1, <2>5 DEF WellFormed
    <3>. QED
      BY <2>4, <3>1, <3>2 DEF OpOK
  <2>. QED
    BY <1>1, <2>3, <2>6, OneOp
<1>. QED
  BY <1>5, <1>6

-----------------------------------------------------------------------------
(* The steps that change the rest of the system.                             *)

\* A new runtime knows nothing.
LEMMA NewNodeOK ==
  ASSUME node' = node \/ node' = NewNode, NodeOK(node), UNCHANGED handled
  PROVE  NodeOK(node)'
<1>1. CASE node' = node
  BY <1>1 DEF NodeOK
<1>2. CASE node' = NewNode
  BY <1>2, Constants DEF NodeOK, NewNode
<1>. QED
  BY <1>1, <1>2

LEMMA ComposeDownOK ==
  ASSUME IInv, NEW o \in Operations, ComposeDown(o)
  PROVE  IInv'
<1>1. CASE Fails(o, "down")
  BY <1>1, FailsOK
<1>2. CASE /\ At(o, "do", "down")
           /\ op' = Advanced(o)
           /\ containers' = [s \in Services |-> "absent"]
           /\ node' = NewNode
           /\ inbox' = {}
           /\ UNCHANGED <<state, fresh, applied, status, handled, faults, records, file, latest>>
  <2>1. UNCHANGED <<revisions, committed, handled, desired, state, file, fresh, status>>
    BY <1>2 DEF records
  <2>2. OpsInv'
    BY <1>2, <2>1, DoHead, AdvancedOps
  <2>3. Good(state', committed') /\ RevisionsOK'
    BY <2>1 DEF IInv, Good, RevisionsOK
  <2>4. RuntimeOK'
    <3>1. NodeOK(node)' /\ NodeOK(status)'
      BY <1>2, <2>1, NewNodeOK DEF IInv, RuntimeOK, NodeOK
    <3>2. containers' \in [Services -> {"absent", "running", "ready", "broken"}]
      BY <1>2
    <3>. QED
      BY <1>2, <2>1, <3>1, <3>2 DEF IInv, RuntimeOK
  <2>. QED
    BY <2>2, <2>3, <2>4 DEF IInv
<1>. QED
  BY <1>1, <1>2 DEF ComposeDown

LEMMA EnsureServiceStartedOK ==
  ASSUME IInv, NEW o \in Operations, NEW s \in Services, EnsureServiceStarted(o, s)
  PROVE  IInv'
<1>1. UNCHANGED <<revisions, committed, handled, desired, state, file, status>>
  BY DEF EnsureServiceStarted, records
<1>2. /\ op[o].todo # <<>> /\ op[o].snapshot = <<>> /\ Head(op[o].todo) = <<"ensure", s>>
  BY AtStep DEF EnsureServiceStarted, IInv
<1>3. op' = Advanced(o) \/ op' = Failed(o)
  BY DEF EnsureServiceStarted
<1>4. /\ Head(op[o].todo) \notin Changes \union {Do("commit")}
      /\ Head(op[o].todo) # Await(op[o].kind)
  BY <1>2 DEF Changes, Do, Await
<1>5. OpsInv'
  BY <1>1, <1>2, <1>3, <1>4, AdvancedOps, FailedOps
<1>6. Good(state', committed') /\ RevisionsOK'
  BY <1>1 DEF IInv, Good, RevisionsOK
<1>7. RuntimeOK'
  <2>1. NodeOK(node)' /\ NodeOK(status)'
    <3>1. node' = node \/ node' = NewNode
      BY DEF EnsureServiceStarted
    <3>. QED
      BY <1>1, <3>1, NewNodeOK DEF IInv, RuntimeOK, NodeOK
  <2>2. /\ fresh' \in BOOLEAN
        /\ inbox' \subseteq Operations
    BY DEF EnsureServiceStarted, IInv, RuntimeOK
  <2>3. containers' \in [Services -> {"absent", "running", "ready", "broken"}]
    BY DEF EnsureServiceStarted, IInv, RuntimeOK
  <2>. QED
    BY <2>1, <2>2, <2>3 DEF RuntimeOK
<1>. QED
  BY <1>5, <1>6, <1>7 DEF IInv

LEMMA ApplyRevisionOK ==
  ASSUME IInv, NEW o \in Operations, ApplyRevision(o)
  PROVE  IInv'
<1>1. CASE Fails(o, "apply")
  BY <1>1, FailsOK
<1>2. CASE ~Fails(o, "apply")
  <2>1. /\ At(o, "do", "apply") /\ op' = Advanced(o)
        /\ node' = [node EXCEPT !.version = @ + 1,
                                !.standby = @ /\ op[o].kind # "promote_standby"]
        /\ UNCHANGED <<state, containers, fresh, status, inbox, handled, file, records>>
    BY <1>2 DEF ApplyRevision
  <2>2. UNCHANGED <<revisions, committed, desired>>
    BY <2>1 DEF records
  <2>3. OpsInv'
    BY <2>1, <2>2, DoHead, AdvancedOps
  <2>4. Good(state', committed') /\ RevisionsOK'
    BY <2>1, <2>2 DEF IInv, Good, RevisionsOK
  <2>5. NodeOK(node)' /\ NodeOK(status)'
    <3>. DEFINE v == node.version + 1
                b == node.standby /\ op[o].kind # "promote_standby"
    <3>1. NodeOK(node) /\ NodeOK(status)
      BY DEF IInv, RuntimeOK
    <3>2. v \in Nat
      BY <3>1 DEF NodeOK
    <3>3. b \in BOOLEAN
      OBVIOUS
    <3>4. node' = [node EXCEPT !.version = v, !.standby = b]
      BY <2>1
    <3>. HIDE DEF v, b
    <3>. QED
      BY <2>1, <3>1, <3>2, <3>3, <3>4 DEF NodeOK
  <2>6. RuntimeOK'
    BY <2>1, <2>5 DEF IInv, RuntimeOK
  <2>. QED
    BY <2>3, <2>4, <2>6 DEF IInv
<1>. QED
  BY <1>1, <1>2

LEMMA StoreConfigOK ==
  ASSUME IInv, NEW o \in Operations, StoreConfig(o)
  PROVE  IInv'
<1>1. /\ At(o, "do", "store") /\ op' = Advanced(o) /\ file' = op[o].config
      /\ UNCHANGED <<state, runtime, records>>
  BY DEF StoreConfig
<1>2. UNCHANGED <<revisions, committed, desired, containers, fresh, node, status, inbox, handled>>
  BY <1>1 DEF records, runtime
<1>3. OpsInv'
  BY <1>1, <1>2, DoHead, AdvancedOps
<1>4. file' \in SectionMarks
  BY <1>1 DEF IInv, OpsInv, OpStates
<1>5. Good(state', committed') /\ RevisionsOK' /\ RuntimeOK'
  BY <1>1, <1>2, <1>4 DEF IInv, Good, RevisionsOK, RuntimeOK, NodeOK
<1>. QED
  BY <1>3, <1>5 DEF IInv

LEMMA PublishRosStringOK ==
  ASSUME IInv, NEW o \in Operations, PublishRosString(o)
  PROVE  IInv'
<1>1. CASE Fails(o, "publish")
  BY <1>1, FailsOK
<1>2. CASE ~Fails(o, "publish")
  <2>1. /\ At(o, "do", "publish") /\ op' = Advanced(o)
        /\ \E sent \in {{}, {o}} : inbox' = inbox \union sent
        /\ UNCHANGED <<state, containers, fresh, node, status, handled, file, records>>
    BY <1>2 DEF PublishRosString
  <2>2. UNCHANGED <<revisions, committed, desired>>
    BY <2>1 DEF records
  <2>3. OpsInv'
    BY <2>1, <2>2, DoHead, AdvancedOps
  <2>4. inbox' \subseteq Operations
    BY <2>1 DEF IInv, RuntimeOK
  <2>5. Good(state', committed') /\ RevisionsOK' /\ RuntimeOK'
    BY <2>1, <2>2, <2>4 DEF IInv, Good, RevisionsOK, RuntimeOK, NodeOK
  <2>. QED
    BY <2>3, <2>5 DEF IInv
<1>. QED
  BY <1>1, <1>2

LEMMA CreateRevisionOK ==
  ASSUME IInv, NEW o \in Operations, CreateRevision(o)
  PROVE  IInv'
<1>. DEFINE p == op[o]
            n == Len(revisions) + 1
            q == [p EXCEPT !.todo = Tail(p.todo), !.revision = n]
<1>1. /\ At(o, "do", "create") /\ revisions' = Append(revisions, p.config)
      /\ desired' = Len(revisions')
      /\ UNCHANGED <<state, runtime, committed, file>>
  BY DEF CreateRevision
<1>2. UNCHANGED <<containers, fresh, node, status, inbox, handled>>
  BY <1>1 DEF runtime
<1>3. /\ p \in OpStates /\ OpOK(p, o, committed, Len(revisions), handled)
      /\ p.todo # <<>> /\ p.snapshot = <<>> /\ Head(p.todo) = Do("create")
      /\ Head(p.todo) # Await(p.kind) /\ Head(p.todo) # Do("commit")
  <2>1. Do("create") # Do("commit")
    BY DEF Do
  <2>. QED
    BY <1>1, <2>1, DoHead
<1>4. /\ Len(revisions) \in Nat /\ revisions' \in Seq(SectionMarks) /\ Len(revisions') = n
  <2>1. p.config \in SectionMarks /\ revisions \in Seq(SectionMarks)
    BY <1>3 DEF OpStates, IInv, RevisionsOK
  <2>. QED
    BY <1>1, <2>1
<1>5. n \in Nat /\ n # 0 /\ Len(revisions) <= n /\ n <= n
  BY <1>4
<1>. HIDE DEF n
<1>6. q \in OpStates
  <2>1. Tail(p.todo) \in Seq(Steps)
    BY <1>3, TailFacts DEF OpStates
  <2>. QED
    BY <1>3, <1>5, <2>1 DEF OpStates
<1>7. /\ q.todo = Tail(p.todo) /\ q.kind = p.kind /\ q.status = p.status /\ q.verdict = p.verdict
      /\ q.snapshot = <<>> /\ q.revision = n
  BY <1>3 DEF OpStates
<1>8. op' = [op EXCEPT ![o] = q]
  <2>1. op' = [Advanced(o) EXCEPT ![o].revision = n]
    BY <1>4 DEF CreateRevision
  <2>2. op \in [Operations -> OpStates]
    BY DEF IInv, OpsInv
  <2>. QED
    BY <2>1, <2>2 DEF Advanced
<1>. HIDE DEF q
<1>9. OpOK(q, o, committed, n, handled)
  BY <1>3, <1>4, <1>5, <1>6, <1>7, StepDone
<1>10. OpsInv'
  <2>1. OpsInv
    BY DEF IInv
  <2>2. OpOK(q, o, committed', Len(revisions'), handled')
    BY <1>1, <1>2, <1>4, <1>9
  <2>3. /\ committed \subseteq committed' /\ handled \subseteq handled'
        /\ Len(revisions') \in Nat /\ Len(revisions) <= Len(revisions')
    BY <1>1, <1>2, <1>4, <1>5
  <2>. QED
    BY <1>4, <1>8, <2>1, <2>2, <2>3, OpMoves
<1>11. RevisionsOK'
  <2>1. committed \subseteq 1..Len(revisions) /\ file \in SectionMarks
    BY DEF IInv, RevisionsOK
  <2>2. committed' \subseteq 1..Len(revisions')
    BY <1>1, <1>4, <1>5, <2>1
  <2>3. desired' \in 0..Len(revisions')
    BY <1>1, <1>4, <1>5
  <2>. QED
    BY <1>1, <1>4, <2>1, <2>2, <2>3 DEF RevisionsOK
<1>12. Good(state', committed') /\ RuntimeOK'
  BY <1>1, <1>2 DEF IInv, Good, RuntimeOK, NodeOK
<1>. QED
  BY <1>10, <1>11, <1>12 DEF IInv

\* A revision is committed by an operation that has one.
LEMMA CommitRevisionOK ==
  ASSUME IInv, NEW o \in Operations, CommitRevision(o)
  PROVE  IInv'
<1>. DEFINE p == op[o]
            q == [p EXCEPT !.todo = Tail(p.todo)]
            D == committed \union {p.revision}
<1>1. /\ At(o, "do", "commit") /\ committed' = D /\ desired' = p.revision
      /\ UNCHANGED <<state, runtime, revisions, file>>
  BY DEF CommitRevision
<1>2. UNCHANGED <<containers, fresh, node, status, inbox, handled>>
  BY <1>1 DEF runtime
<1>3. /\ p \in OpStates /\ OpOK(p, o, committed, Len(revisions), handled)
      /\ p.todo # <<>> /\ p.snapshot = <<>> /\ Head(p.todo) = Do("commit")
      /\ Head(p.todo) # Await(p.kind)
      /\ Head(p.todo) \notin Changes
  BY <1>1, DoHead, StepsDistinct
<1>4. Len(revisions) \in Nat /\ p.revision \in 1..Len(revisions)
  <2>1. p.todo \in Seq(Steps) /\ p.revision \in Nat
    BY <1>3 DEF OpStates
  <2>2. ~ Created(p.todo, FALSE)
    BY <1>3, <2>1, TailCreated
  <2>3. p.revision # 0 /\ p.revision <= Len(revisions)
    BY <1>3, <2>2 DEF OpOK
  <2>4. Len(revisions) \in Nat
    BY LenRevisions DEF IInv
  <2>. QED
    BY <2>1, <2>3, <2>4
<1>5. q \in OpStates
  BY <1>3, TailTyped
<1>6. /\ q.todo = Tail(p.todo) /\ q.kind = p.kind /\ q.status = p.status /\ q.verdict = p.verdict
      /\ q.snapshot = <<>> /\ q.revision = p.revision
  BY <1>3 DEF OpStates
<1>7. op' = [op EXCEPT ![o] = q]
  BY DEF CommitRevision, Advanced
<1>8. p.revision \in D /\ committed \subseteq D
  OBVIOUS
<1>. HIDE DEF q, D
<1>9. OpOK(q, o, D, Len(revisions), handled)
  BY <1>3, <1>4, <1>5, <1>6, <1>8, StepDone
<1>10. OpsInv'
  <2>1. OpsInv
    BY DEF IInv
  <2>2. OpOK(q, o, committed', Len(revisions'), handled')
    BY <1>1, <1>2, <1>9
  <2>3. /\ committed \subseteq committed' /\ handled \subseteq handled'
        /\ Len(revisions') \in Nat /\ Len(revisions) <= Len(revisions')
    BY <1>1, <1>2, <1>4, <1>8
  <2>. QED
    BY <1>4, <1>7, <2>1, <2>2, <2>3, OpMoves
<1>11. Good(state', committed')
  <2>1. Good(state, committed)
    BY DEF IInv
  <2>2. Good(state, D)
    BY <1>8, <2>1, GoodMonotone
  <2>. QED
    BY <1>1, <2>2
<1>12. RevisionsOK'
  BY <1>1, <1>4 DEF IInv, RevisionsOK, D
<1>13. RuntimeOK'
  BY <1>2 DEF IInv, RuntimeOK, NodeOK
<1>. QED
  BY <1>10, <1>11, <1>12, <1>13 DEF IInv

-----------------------------------------------------------------------------
(* The containers and the packet runtime.                                    *)

\* The environment may handle a message, and changes no operation or record.
LEMMA EnvironmentOps ==
  ASSUME IInv, UNCHANGED <<state, op, records, file>>, handled \subseteq handled'
  PROVE  Good(state, committed)' /\ OpsInv' /\ RevisionsOK'
<1>1. UNCHANGED <<revisions, committed, desired>>
  BY DEF records
<1>2. OpsInv'
  BY <1>1, LenRevisions, OpsStay DEF IInv
<1>. QED
  BY <1>1, <1>2 DEF IInv, Good, RevisionsOK

LEMMA ContainersOK ==
  ASSUME IInv, NEW s \in Services, ContainerBecomesReady(s) \/ ContainerBreaks(s)
  PROVE  IInv'
<1>1. UNCHANGED <<state, op, records, file, status, handled>>
  BY DEF ContainerBecomesReady, ContainerBreaks
<1>2. Good(state, committed)' /\ OpsInv' /\ RevisionsOK'
  BY <1>1, EnvironmentOps
<1>3. NodeOK(node)' /\ NodeOK(status)'
  <2>1. node' = node \/ node' = NewNode
    BY DEF ContainerBecomesReady, ContainerBreaks
  <2>. QED
    BY <1>1, <2>1, NewNodeOK DEF IInv, RuntimeOK, NodeOK
<1>4. fresh' \in BOOLEAN /\ inbox' \subseteq Operations
  BY DEF ContainerBecomesReady, ContainerBreaks, IInv, RuntimeOK
<1>5. containers' \in [Services -> {"absent", "running", "ready", "broken"}]
  BY DEF ContainerBecomesReady, ContainerBreaks, IInv, RuntimeOK
<1>. QED
  BY <1>2, <1>3, <1>4, <1>5 DEF IInv, RuntimeOK

LEMMA HeartbeatAgesOK ==
  ASSUME IInv, HeartbeatAges
  PROVE  IInv'
<1>1. /\ UNCHANGED <<state, op, records, file, containers, node, status, inbox, handled>>
      /\ fresh' = FALSE
  BY DEF HeartbeatAges
<1>2. Good(state, committed)' /\ OpsInv' /\ RevisionsOK'
  BY <1>1, EnvironmentOps
<1>. QED
  BY <1>1, <1>2 DEF IInv, RuntimeOK, NodeOK

LEMMA PublishStatusOK ==
  ASSUME IInv, PublishStatus
  PROVE  IInv'
<1>1. /\ UNCHANGED <<state, op, records, file, containers, node, fresh, inbox, handled>>
      /\ status' = node
  BY DEF PublishStatus
<1>2. Good(state, committed)' /\ OpsInv' /\ RevisionsOK'
  BY <1>1, EnvironmentOps
<1>. QED
  BY <1>1, <1>2 DEF IInv, RuntimeOK, NodeOK

\* The last mission command the runtime names is the one it has just handled, or the
\* one it named before.
LEMMA HandleMessageOK ==
  ASSUME IInv, NEW o \in Operations, HandleMessage(o)
  PROVE  IInv'
<1>1. /\ UNCHANGED <<state, op, records, file, containers, fresh, status>>
      /\ inbox' = inbox \ {o} /\ handled' = handled \union {o}
  BY DEF HandleMessage
<1>2. Good(state, committed)' /\ OpsInv' /\ RevisionsOK'
  BY <1>1, EnvironmentOps
<1>3. NodeOK(node) /\ NodeOK(status)
  BY DEF IInv, RuntimeOK
<1>4. NodeOK(status)'
  BY <1>1, <1>3 DEF NodeOK
<1>5. NodeOK(node)'
  <2>. DEFINE kind == op[o].kind
              l == IF kind \in {"hold", "stop_experiment"} THEN o ELSE node.last
              v == IF kind \in {"hold", "stop_experiment"} THEN node.version ELSE node.version + 1
              f == IF kind = "fail_uav" THEN TRUE
                   ELSE node.failed /\ kind \notin {"heal_uav", "reset_chain"}
              b == node.standby \/ kind = "standby_uav"
  <2>1. node' = [node EXCEPT !.last = l, !.version = v, !.failed = f, !.standby = b]
    BY DEF HandleMessage
  <2>2. l \in 0..MaxOperations /\ (l = 0 \/ l \in handled')
    BY <1>1, <1>3, Constants DEF NodeOK
  <2>3. v \in Nat
    BY <1>3 DEF NodeOK
  <2>4. f \in BOOLEAN
    <3>1. node.failed \in BOOLEAN
      BY <1>3 DEF NodeOK
    <3>. QED
      BY <3>1
  <2>5. b \in BOOLEAN
    OBVIOUS
  <2>. HIDE DEF l, v, f, b
  <2>. QED
    BY <1>3, <2>1, <2>2, <2>3, <2>4, <2>5 DEF NodeOK
<1>6. RuntimeOK'
  BY <1>1, <1>4, <1>5 DEF IInv, RuntimeOK
<1>. QED
  BY <1>2, <1>6 DEF IInv

-----------------------------------------------------------------------------
(* The theorems.                                                             *)

LEMMA StepIInv == IInv /\ [Next]_vars => IInv'
<1>. SUFFICES ASSUME IInv, [Next]_vars PROVE IInv'
  OBVIOUS
<1>1. CASE UNCHANGED vars
  <2>1. UNCHANGED <<state, runtime, records, file, latest>> /\ UNCHANGED op
    BY <1>1 DEF vars
  <2>2. OpsInv'
    BY <2>1, LenRevisions, OpsStay DEF IInv, runtime, records
  <2>. QED
    BY <2>1, <2>2, OnlyOps
<1>2. ASSUME NEW o \in Operations, Submit(o)
      PROVE  IInv'
  BY <1>2, SubmitOK
<1>3. ASSUME NEW o \in Operations, Operate(o)
      PROVE  IInv'
  <2>1. CASE Dispatch(o) \/ Acknowledge(o)
    BY <2>1, DispatchOK, AcknowledgeOK
  <2>2. CASE ReadState(o) \/ WriteState(o)
    BY <2>2, ReadStateOK, WriteStateOK
  <2>3. CASE Observe(o) \/ RaiseTypeError(o) \/ ChooseRevision(o)
    BY <2>3, ObserveOK, RaiseTypeErrorOK, ChooseRevisionOK
  <2>4. CASE Preflight(o) \/ LoadConfig(o) \/ LockConfig(o) \/ UnlockConfig(o) \/ ReadVersion(o)
    BY <2>4, ReadingOK
  <2>5. CASE Build(o) \/ ObserveParticipants(o) \/ PacketReady(o)
    BY <2>5, CheckingOK
  <2>6. CASE WaitEnds(o) \/ WaitTimesOut(o)
    BY <2>6, WaitingOK
  <2>7. CASE ComposeDown(o) \/ \E s \in Services : EnsureServiceStarted(o, s)
    BY <2>7, ComposeDownOK, EnsureServiceStartedOK
  <2>8. CASE CreateRevision(o) \/ ApplyRevision(o) \/ CommitRevision(o)
    BY <2>8, CreateRevisionOK, ApplyRevisionOK, CommitRevisionOK
  <2>9. CASE StoreConfig(o) \/ PublishRosString(o)
    BY <2>9, StoreConfigOK, PublishRosStringOK
  <2>. QED
    BY <1>3, <2>1, <2>2, <2>3, <2>4, <2>5, <2>6, <2>7, <2>8, <2>9 DEF Operate
<1>4. CASE Environment
  BY <1>4, ContainersOK, HeartbeatAgesOK, HandleMessageOK, PublishStatusOK DEF Environment
<1>. QED
  BY <1>1, <1>2, <1>3, <1>4 DEF Next

LEMMA Invariance == FairSpec => []IInv
  BY InitIInv, StepIInv, PTL DEF FairSpec

\* Every variable keeps its type: the state file's fields, every operation's own state,
\* and revision numbers that name a revision that was created, through starts, stops,
\* restarts and updates that two processes interleave (orchestrator.py, server.py and
\* state.py).
THEOREM TypeCorrect == FairSpec => []TypeOK
<1>1. IInv => TypeOK
  <2>. SUFFICES ASSUME IInv PROVE TypeOK
    OBVIOUS
  <2>1. ASSUME NEW o \in Operations
        PROVE  /\ op[o].kind \in AllKinds \union {"none"}
               /\ op[o].process \in Processes
               /\ op[o].status \in {"NONE", "QUEUED", "RUNNING", "COMPLETED", "FAILED"}
               /\ op[o].config \in [Sections -> 0..MaxOperations]
               /\ op[o].revision \in 0..Len(revisions)
    <3>1. op[o] \in OpStates /\ op[o].revision <= Len(revisions) /\ Len(revisions) \in Nat
      BY LenRevisions DEF IInv, OpsInv, OpOK
    <3>. QED
      BY <3>1 DEF OpStates, SectionMarks
  <2>. QED
    BY <2>1 DEF IInv, TypeOK, Good, RevisionsOK, RuntimeOK, SectionMarks
<1>. QED
  BY <1>1, Invariance, PTL

\* What the state file says of commitment is backed by the revision store, although two
\* processes overwrite each other's updates of it (StateStore.update in state.py,
\* RuntimeRevisionStore.mark_committed in runtime_sync.py).
THEOREM ClaimsOfCommitmentAreBacked == FairSpec => []StateClaimsAreBacked
<1>1. IInv => StateClaimsAreBacked
  BY DEF IInv, Good, StateClaimsAreBacked
<1>. QED
  BY <1>1, Invariance, PTL

\* No interleaving of starts, stops and edits, of any number, leaves the state file with
\* live telemetry of a stopped stack (stop in orchestrator.py, which sets both fields).
THEOREM StoppedStackIsOffline == FairSpec => []OfflineWhenStopped
<1>1. IInv => OfflineWhenStopped
  BY DEF IInv, Good, OfflineWhenStopped
<1>. QED
  BY <1>1, Invariance, PTL

\* A mission command reported as completed was carried out by the packet runtime, also
\* when its message may be lost, the runtime is replaced and the status file outlives it
\* (command and wait_runtime_status in server.py).
THEOREM CompletedMissionsWereHandled == FairSpec => []MissionAckIsFresh
<1>1. IInv => MissionAckIsFresh
  BY DEF IInv, OpsInv, OpOK, MissionOK, MissionKinds, MissionAckIsFresh
<1>. QED
  BY <1>1, Invariance, PTL
=============================================================================
