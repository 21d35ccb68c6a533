----------------------------- MODULE School_proofs -----------------------------
(***************************************************************************)
(* Proofs about the school's own parts of Platform, for every value of its *)
(* constants: its people and records, its schemes of work, its term exams, *)
(* their reports and its assessments.  The theorems end as those of        *)
(* Platform_proofs do.                                                     *)
(***************************************************************************)
EXTENDS Platform, FiniteSetTheorems, TLAPS

\* The part that runs is the one chosen at first.
LEMMA PartStays == [PlatformNext]_allVars => part' = part
<1>1. PlatformNext => part' = part
  BY DEF PlatformNext, Only
<1>2. UNCHANGED allVars => part' = part
  BY DEF allVars
<1> QED
  BY <1>1, <1>2

-----------------------------------------------------------------------------
(* The people of schools: a super admin is left.                           *)

\* What is assumed of the first users, their school and the empty row.
LEMMA PeopleAssumed == {Root, Admin} \subseteq Users /\ Home \in Schools /\ None \notin People!User
BY PlatformAssumption DEF PlatformAssumption, People!SchoolRecordsAssumption

\* Users' rows are rows, those of users at work too, and whoever is at work
\* has one.
PeopleInv ==
  /\ users \in [Users -> People!User \cup {None}] /\ seen \in [Users -> People!User \cup {None}]
  /\ \A u \in Users : seen[u] # None => users[u] # None
  /\ demoted \/ \E u \in Users : People!IsSuper(users[u])

\* A change of one user's row that leaves every super admin one.
LEMMA PeopleChange ==
  ASSUME PeopleInv, NEW u \in Users, NEW entry \in People!User,
         users' = [users EXCEPT ![u] = entry], demoted' = demoted,
         People!IsSuper(users[u]) => People!IsSuper(entry),
         seen' \in [Users -> People!User \cup {None}], \A v \in Users : seen'[v] # None => seen[v] # None
  PROVE  PeopleInv'
<1>1. users' \in [Users -> People!User \cup {None}] /\ \A v \in Users : users[v] # None => users'[v] # None
  BY PeopleAssumed DEF PeopleInv
<1>2. \A v \in Users : People!IsSuper(users[v]) => People!IsSuper(users'[v])
  BY DEF PeopleInv
<1> QED
  BY <1>1, <1>2 DEF PeopleInv, People!IsSuper

\* A request ends.
LEMMA PeopleBy ==
  ASSUME PeopleInv, NEW u, NEW roles, People!By(u, roles)
  PROVE  /\ seen' \in [Users -> People!User \cup {None}]
         /\ \A v \in Users : seen'[v] # None => seen[v] # None
BY DEF PeopleInv, People!By

\* Nothing of it changes.
LEMMA PeopleStay ==
  ASSUME PeopleInv, UNCHANGED <<users, demoted>>,
         seen' \in [Users -> People!User \cup {None}], \A v \in Users : seen'[v] # None => seen[v] # None
  PROVE  PeopleInv'
BY DEF PeopleInv, People!IsSuper

\* Sign-ups and users that admins create.
LEMMA PeopleNewUser ==
  ASSUME PeopleInv, NEW u \in Users, NEW s \in Schools, NEW role \in People!Roles, People!NewUser(u, s, role),
         seen' \in [Users -> People!User \cup {None}], \A v \in Users : seen'[v] # None => seen[v] # None
  PROVE  PeopleInv'
<1>1. [school |-> s, role |-> role, active |-> TRUE] \in People!User
  BY DEF People!User
<1>2. /\ users' = [users EXCEPT ![u] = [school |-> s, role |-> role, active |-> TRUE]]
      /\ users[u] = None /\ demoted' = demoted
  BY DEF People!NewUser
<1> QED
  BY <1>1, <1>2, PeopleChange DEF People!IsSuper

\* A user's own change and one by a school admin: the role stays, and only
\* teachers are deactivated.
LEMMA PeopleChangeSchool ==
  ASSUME PeopleInv, NEW u \in Users, NEW s \in Schools, People!ChangeSchool(u, s)
  PROVE  PeopleInv'
<1>1. users[u] \in People!User
  BY DEF PeopleInv, People!ChangeSchool, People!By
<1> DEFINE entry == [users[u] EXCEPT !.school = s]
<1>2. entry \in People!User /\ (People!IsSuper(users[u]) => People!IsSuper(entry))
  BY <1>1, PeopleAssumed DEF People!User, People!IsSuper
<1>3. users' = [users EXCEPT ![u] = entry] /\ demoted' = demoted /\ People!By(u, People!Roles)
  BY DEF People!ChangeSchool, People!Change
<1> HIDE DEF entry
<1> QED
  BY <1>2, <1>3, PeopleChange, PeopleBy

\* A school admin activates or deactivates teachers, who are not super
\* admins (update_teacher, deactivate_teacher).
LEMMA PeopleSetActive ==
  ASSUME PeopleInv, NEW a \in Users, NEW u \in Users, NEW b \in BOOLEAN, People!AdminSetActive(a, u, b)
  PROVE  PeopleInv'
<1>1. users[u] \in People!User /\ users[u].role = "teacher"
  BY DEF PeopleInv, People!AdminSetActive, People!TeacherInSchool, People!Teacher
<1> DEFINE entry == [users[u] EXCEPT !.active = b]
<1>2. entry \in People!User /\ ~People!IsSuper(users[u])
  BY <1>1 DEF People!User, People!IsSuper
<1>3. users' = [users EXCEPT ![u] = entry] /\ demoted' = demoted /\ People!By(a, People!Admins)
  BY DEF People!AdminSetActive, People!Change
<1> HIDE DEF entry
<1> QED
  BY <1>2, <1>3, PeopleChange, PeopleBy

\* Changes that a super admin makes: they say so when they take one away.
LEMMA PeopleSuperChange ==
  ASSUME PeopleInv, NEW a \in Users, NEW u \in Users, NEW entry \in People!User, People!By(a, {"super_admin"}),
         users' = [users EXCEPT ![u] = entry],
         \/ demoted' = (demoted \/ (People!IsSuper(users[u]) /\ ~People!IsSuper(entry)))
         \/ a # u /\ demoted' = (demoted \/ ~People!IsSuper(users[a]))
  PROVE  PeopleInv'
<1>1. users' \in [Users -> People!User \cup {None}] /\ \A v \in Users : users[v] # None => users'[v] # None
  BY PeopleAssumed DEF PeopleInv
<1>2. users'[u] = entry /\ \A v \in Users \ {u} : users'[v] = users[v]
  BY DEF PeopleInv
<1>3. demoted' \/ \E v \in Users : People!IsSuper(users'[v])
  <2> SUFFICES ASSUME ~demoted' PROVE \E v \in Users : People!IsSuper(users'[v])
    OBVIOUS
  <2>1. CASE a # u /\ demoted' = (demoted \/ ~People!IsSuper(users[a]))
    BY <2>1, <1>2
  <2>2. CASE demoted' = (demoted \/ (People!IsSuper(users[u]) /\ ~People!IsSuper(entry)))
    <3>1. PICK v \in Users : People!IsSuper(users[v])
      BY <2>2 DEF PeopleInv
    <3>2. People!IsSuper(users'[v])
      BY <3>1, <2>2, <1>2
    <3> QED
      BY <3>2
  <2> QED
    BY <2>1, <2>2
<1> QED
  BY <1>1, <1>3, PeopleBy DEF PeopleInv, People!IsSuper

\* What a super admin does to another account leaves the one who acts, or
\* marks the demotion (deactivate_user, update_user).
LEMMA PeopleSuperActs ==
  ASSUME PeopleInv, NEW a \in Users, NEW u \in Users,
         \/ People!SuperDeactivate(a, u)
         \/ users[u] # None /\ \E entry \in People!Updates(users[u]) : People!SuperUpdateUser(a, u, entry)
  PROVE  PeopleInv'
<1>1. users[u] \in People!User
  BY DEF PeopleInv, People!SuperDeactivate
<1>2. CASE People!SuperDeactivate(a, u)
  <2> DEFINE entry == [users[u] EXCEPT !.active = FALSE]
  <2>1. entry \in People!User
    BY <1>1 DEF People!User
  <2>2. /\ users' = [users EXCEPT ![u] = entry] /\ a # u /\ People!By(a, {"super_admin"})
        /\ demoted' = (demoted \/ ~People!IsSuper(users[a]))
    BY <1>2 DEF People!SuperDeactivate, People!Change, People!NotOneself
  <2> HIDE DEF entry
  <2> QED
    BY <2>1, <2>2, PeopleSuperChange
<1>3. CASE \E entry \in People!Updates(users[u]) : People!SuperUpdateUser(a, u, entry)
  <2>1. PICK entry \in People!Updates(users[u]) : People!SuperUpdateUser(a, u, entry)
    BY <1>3
  <2>2. entry \in People!User
    BY <1>1 DEF People!User, People!Updates
  <2>3. /\ users' = [users EXCEPT ![u] = entry] /\ People!By(a, {"super_admin"})
        /\ demoted' = (demoted \/ (People!IsSuper(users[u]) /\ ~People!IsSuper(entry)))
    BY <2>1 DEF People!SuperUpdateUser, People!Change
  <2> QED
    BY <2>2, <2>3, PeopleSuperChange
<1> QED
  BY <1>2, <1>3

\* Every step of the people keeps the invariant; there are no records.
LEMMA PeopleNextInv == ASSUME PeopleInv, People!Next PROVE PeopleInv'
<1>1. PICK u \in Users :
        \/ People!Arrive(u) \/ \E s \in Schools : People!Signup(u, s)
        \/ seen[u] # None /\ (People!TeacherActs(u) \/ People!AdminActs(u) \/ People!SuperActs(u))
  BY DEF People!Next
<1>2. CASE People!Arrive(u)
  BY <1>2 DEF People!Arrive, PeopleInv, People!IsSuper
<1>3. CASE \E s \in Schools : People!Signup(u, s)
  <2>1. PICK s \in Schools : People!NewUser(u, s, "teacher") /\ UNCHANGED seen
    BY <1>3 DEF People!Signup, People!Teacher
  <2>2. seen' \in [Users -> People!User \cup {None}] /\ "teacher" \in People!Roles
    BY <2>1 DEF PeopleInv, People!Roles, People!Teacher
  <2> QED
    BY <2>1, <2>2, PeopleNewUser
<1>4. CASE People!TeacherActs(u)
  BY <1>4, PeopleChangeSchool DEF People!TeacherActs
<1>5. CASE People!AdminActs(u)
  <2>1. PICK v \in Users : People!AdminCreateTeacher(u, v) \/ \E b \in BOOLEAN : People!AdminSetActive(u, v, b)
    BY <1>5 DEF People!AdminActs
  <2>2. CASE People!AdminCreateTeacher(u, v)
    <3>1. People!By(u, People!Admins) /\ People!NewUser(v, seen[u].school, "teacher") /\ seen[u] # None
      BY <2>2 DEF People!AdminCreateTeacher, People!By, People!Teacher
    <3>2. seen[u].school \in Schools /\ "teacher" \in People!Roles
      BY <3>1 DEF PeopleInv, People!User, People!Roles, People!Teacher
    <3> QED
      BY <3>1, <3>2, PeopleBy, PeopleNewUser
  <2> QED
    BY <2>1, <2>2, PeopleSetActive
<1>6. CASE People!SuperActs(u)
  <2>1. CASE \E v \in Users, s \in Schools, role \in People!Roles : People!SuperCreateUser(u, v, s, role)
    BY <2>1, PeopleBy, PeopleNewUser DEF People!SuperCreateUser
  <2> QED
    BY <2>1, <1>6, PeopleSuperActs DEF People!SuperActs
<1> QED
  BY <1>1, <1>2, <1>3, <1>4, <1>5, <1>6

\* The invariant holds throughout.
LEMMA PeopleInvariance == PlatformSpec => [](part = "people" => PeopleInv)
<1>1. PlatformInit => (part = "people" => PeopleInv)
  <2> SUFFICES ASSUME PlatformInit, part = "people" PROVE PeopleInv
    OBVIOUS
  <2>1. People!Init
    BY DEF PlatformInit
  <2>2. /\ [school |-> Home, role |-> "super_admin", active |-> TRUE] \in People!User
        /\ [school |-> Home, role |-> "school_admin", active |-> TRUE] \in People!User
    BY PeopleAssumed DEF People!User, People!Roles, People!Admins
  <2>3. users \in [Users -> People!User \cup {None}] /\ seen \in [Users -> People!User \cup {None}]
    BY <2>1, <2>2 DEF People!Init
  <2>4. Root \in Users /\ People!IsSuper(users[Root])
    BY <2>1, <2>2, PeopleAssumed DEF People!Init, People!IsSuper
  <2> QED
    BY <2>1, <2>3, <2>4 DEF PeopleInv, People!Init
<1>2. (part = "people" => PeopleInv) /\ [PlatformNext]_allVars => (part = "people" => PeopleInv)'
  <2>1. ASSUME PeopleInv, UNCHANGED <<users, seen, demoted>> PROVE PeopleInv'
    BY <2>1 DEF PeopleInv, People!IsSuper
  <2>2. part = "people" /\ [PlatformNext]_allVars => People!Next \/ UNCHANGED <<users, seen, demoted>>
    BY DEF PlatformNext, Only, allVars
  <2> QED
    BY <2>1, <2>2, PartStays, PeopleNextInv
<1> QED
  BY <1>1, <1>2, PTL DEF PlatformSpec

\* A super admin who can sign in is left (deactivate_user, update_user).
THEOREM SuperAdminRemains == PlatformSpec => []AdminRemains
<1>1. (part = "people" => PeopleInv) => AdminRemains
  BY DEF PeopleInv, AdminRemains, People!AdminRemains
<1> QED
  BY <1>1, PeopleInvariance, PTL
-----------------------------------------------------------------------------
(* The records of schools: each in the school of its class, and shown to   *)
(* the users of that school.                                               *)

\* What is assumed of users, schools and ids.
LEMMA RecordsAssumed ==
  /\ {Root, Admin} \subseteq Users /\ Home \in Schools /\ Learners \cap Works = {} /\ None \notin Records!User
  /\ IsFiniteSet(Schools) /\ IsFiniteSet(Users) /\ IsFiniteSet(Classes) /\ IsFiniteSet(Learners)
BY PlatformAssumption
   DEF PlatformAssumption, Records!SchoolRecordsAssumption, Records!IsFiniteSet, IsFiniteSet

\* Users' rows are rows; whoever is at work has one, and its school unless it
\* was moved meanwhile.
UsersInv ==
  /\ users \in [Users -> Records!User \cup {None}] /\ seen \in [Users -> Records!User \cup {None}]
  /\ \A u \in Users : seen[u] # None => users[u] # None /\ (u \notin moved => seen[u].school = users[u].school)

\* Records are rows that name a class; the teacher of a class is a user of its
\* school unless moved; a record that is no stray is in the school of its class.
RecordsInv ==
  /\ DOMAIN classes \subseteq Classes
  /\ DOMAIN learners \subseteq Learners /\ DOMAIN works \subseteq Works /\ strays \subseteq Learners \cup Works
  /\ \A c \in DOMAIN classes :
       /\ classes[c] \in [school : Schools, teacher : Users, gone : BOOLEAN]
       /\ users[classes[c].teacher] # None
       /\ classes[c].teacher \notin moved => users[classes[c].teacher].school = classes[c].school
  /\ \A l \in DOMAIN learners :
       /\ learners[l] \in [school : Schools, class : DOMAIN classes, gone : BOOLEAN]
       /\ l \notin strays => learners[l].school = classes[learners[l].class].school
  /\ \A w \in DOMAIN works :
       /\ works[w] \in [kind : {"run", "exam"}, school : Schools, class : DOMAIN classes, closed : BOOLEAN]
       /\ w \notin strays => works[w].school = classes[works[w].class].school

SchoolInv == UsersInv /\ RecordsInv

\* A request ends: its sender was at work.
LEMMA RecordsBy ==
  ASSUME UsersInv, NEW u \in Users, NEW roles, Records!By(u, roles)
  PROVE  /\ seen[u] \in Records!User /\ seen[u].school \in Schools /\ users[u] # None
         /\ seen' = [seen EXCEPT ![u] = None]
         /\ u \notin moved => seen[u].school = users[u].school
BY DEF UsersInv, Records!By, Records!User

\* Requests that change no user's row.
LEMMA UsersStay ==
  ASSUME UsersInv, UNCHANGED <<users, moved>>, NEW u \in Users, seen' = [seen EXCEPT ![u] = None]
  PROVE  UsersInv'
BY DEF UsersInv

\* Row x of a table becomes `entry`.
Puts(old, new, x, entry) ==
  /\ DOMAIN new = DOMAIN old \cup {x}
  /\ \A y \in DOMAIN new : new[y] = IF y = x THEN entry ELSE old[y]

\* It does so by With.
LEMMA WithPuts == \A f, x, entry : Puts(f, Records!With(f, x, entry), x, entry)
BY DEF Puts, Records!With

\* A class more, or another teacher or a deletion of one.
LEMMA ClassPut ==
  ASSUME SchoolInv, NEW c \in Classes, NEW entry \in [school : Schools, teacher : Users, gone : BOOLEAN],
         Puts(classes, classes', c, entry), UNCHANGED <<learners, works, strays, users, moved>>,
         users[entry.teacher] # None, entry.teacher \notin moved => users[entry.teacher].school = entry.school,
         c \in DOMAIN classes => entry.school = classes[c].school
  PROVE  RecordsInv'
<1>1. /\ DOMAIN classes' = DOMAIN classes \cup {c}
      /\ \A d \in DOMAIN classes' : classes'[d] = IF d = c THEN entry ELSE classes[d]
  BY DEF Puts
<1>2. \A d \in DOMAIN classes : d \in DOMAIN classes' /\ classes'[d].school = classes[d].school
  BY <1>1
<1>3. \A d \in DOMAIN classes' :
        /\ classes'[d] \in [school : Schools, teacher : Users, gone : BOOLEAN]
        /\ users[classes'[d].teacher] # None
        /\ classes'[d].teacher \notin moved => users[classes'[d].teacher].school = classes'[d].school
  BY <1>1 DEF SchoolInv, RecordsInv
<1>4. \A l \in DOMAIN learners :
       /\ learners[l] \in [school : Schools, class : DOMAIN classes', gone : BOOLEAN]
       /\ l \notin strays => learners[l].school = classes'[learners[l].class].school
  BY <1>2 DEF SchoolInv, RecordsInv
<1>5. \A w \in DOMAIN works :
       /\ works[w] \in [kind : {"run", "exam"}, school : Schools, class : DOMAIN classes', closed : BOOLEAN]
       /\ w \notin strays => works[w].school = classes'[works[w].class].school
  BY <1>2 DEF SchoolInv, RecordsInv
<1>6. DOMAIN classes' \subseteq Classes
  BY <1>1 DEF SchoolInv, RecordsInv
<1> QED
  BY <1>3, <1>4, <1>5, <1>6 DEF SchoolInv, RecordsInv

\* A learner's row is put: it agrees with its class, or is a stray.
LEMMA LearnerPut ==
  ASSUME SchoolInv, NEW l \in Learners, NEW entry \in [school : Schools, class : DOMAIN classes, gone : BOOLEAN],
         Puts(learners, learners', l, entry), UNCHANGED <<classes, works, users, moved>>,
         strays' \in {strays, strays \cup {l}, strays \ {l}},
         l \notin strays' => entry.school = classes[entry.class].school
  PROVE  RecordsInv'
<1>1. /\ DOMAIN learners' = DOMAIN learners \cup {l}
      /\ \A k \in DOMAIN learners' : learners'[k] = IF k = l THEN entry ELSE learners[k]
  BY DEF Puts
<1>2. \A x \in Learners \cup Works : x # l => (x \in strays' <=> x \in strays)
  OBVIOUS
<1>3. \A w \in DOMAIN works : w # l
  BY RecordsAssumed DEF SchoolInv, RecordsInv
<1>4. strays' \subseteq Learners \cup Works /\ DOMAIN learners' \subseteq Learners
  BY <1>1 DEF SchoolInv, RecordsInv
<1>5. \A k \in DOMAIN learners' :
       /\ learners'[k] \in [school : Schools, class : DOMAIN classes, gone : BOOLEAN]
       /\ k \notin strays' => learners'[k].school = classes[learners'[k].class].school
  BY <1>1, <1>2, <1>4 DEF SchoolInv, RecordsInv
<1>6. \A w \in DOMAIN works : w \notin strays' => works[w].school = classes[works[w].class].school
  BY <1>2, <1>3 DEF SchoolInv, RecordsInv
<1> QED
  BY <1>4, <1>5, <1>6 DEF SchoolInv, RecordsInv

\* A run or an exam is put, or an exam deleted.
LEMMA WorkPut ==
  ASSUME SchoolInv, NEW w \in Works,
         NEW entry \in [kind : {"run", "exam"}, school : Schools, class : DOMAIN classes, closed : BOOLEAN],
         Puts(works, works', w, entry), UNCHANGED <<classes, learners, users, moved>>,
         strays' \in {strays, strays \cup {w}, strays \ {w}},
         w \notin strays' => entry.school = classes[entry.class].school
  PROVE  RecordsInv'
<1>1. /\ DOMAIN works' = DOMAIN works \cup {w}
      /\ \A k \in DOMAIN works' : works'[k] = IF k = w THEN entry ELSE works[k]
  BY DEF Puts
<1>2. \A x \in Learners \cup Works : x # w => (x \in strays' <=> x \in strays)
  OBVIOUS
<1>3. \A l \in DOMAIN learners : l # w
  BY RecordsAssumed DEF SchoolInv, RecordsInv
<1>4. strays' \subseteq Learners \cup Works /\ DOMAIN works' \subseteq Works
  BY <1>1 DEF SchoolInv, RecordsInv
<1>5. \A k \in DOMAIN works' :
       /\ works'[k] \in [kind : {"run", "exam"}, school : Schools, class : DOMAIN classes, closed : BOOLEAN]
       /\ k \notin strays' => works'[k].school = classes[works'[k].class].school
  BY <1>1, <1>2, <1>4 DEF SchoolInv, RecordsInv
<1>6. \A l \in DOMAIN learners : l \notin strays' => learners[l].school = classes[learners[l].class].school
  BY <1>2, <1>3 DEF SchoolInv, RecordsInv
<1> QED
  BY <1>4, <1>5, <1>6 DEF SchoolInv, RecordsInv

\* A teacher's new class is in the teacher's school.
LEMMA TeachersClasses ==
  ASSUME SchoolInv, NEW u \in Users, NEW c \in Classes, Records!CreateClass(u, c)
  PROVE  SchoolInv'
<1>1. Records!By(u, Records!Roles) /\ UNCHANGED <<learners, works, strays, users, moved>>
  BY DEF Records!CreateClass, Records!RecordsOnly
<1> DEFINE entry == [school |-> seen[u].school, teacher |-> u, gone |-> FALSE]
<1>2. Puts(classes, classes', c, entry) /\ c \notin DOMAIN classes
  BY WithPuts DEF Records!CreateClass, Records!PutClass
<1>3. UsersInv'
  BY <1>1, RecordsBy, UsersStay DEF SchoolInv
<1>4. entry \in [school : Schools, teacher : Users, gone : BOOLEAN]
  BY <1>1, RecordsBy DEF SchoolInv
<1>5. users[entry.teacher] # None /\ (entry.teacher \notin moved => users[entry.teacher].school = entry.school)
  BY <1>1, RecordsBy DEF SchoolInv
<1> HIDE DEF entry
<1> QED
  BY <1>1, <1>2, <1>3, <1>4, <1>5, ClassPut DEF SchoolInv

\* What admins do to classes: the teacher they name is of the school.
LEMMA AdminsClasses ==
  ASSUME SchoolInv, NEW a \in Users, NEW c \in Classes,
         \/ Records!AdminDeleteClass(a, c)
         \/ \E t \in Users : Records!AdminCreateClass(a, c, t) \/ Records!AdminUpdateClass(a, c, t)
  PROVE  SchoolInv'
<1>1. Records!By(a, Records!Admins) /\ UNCHANGED <<learners, works, strays, users, moved>>
  BY DEF Records!AdminDeleteClass, Records!AdminCreateClass, Records!AdminUpdateClass, Records!RecordsOnly
<1>2. UsersInv'
  BY <1>1, RecordsBy, UsersStay DEF SchoolInv
<1>3. seen[a].school \in Schools
  BY <1>1, RecordsBy DEF SchoolInv
<1>4. CASE Records!AdminDeleteClass(a, c)
  <2> DEFINE entry == [classes[c] EXCEPT !.gone = TRUE]
  <2>1. c \in DOMAIN classes /\ classes[c] \in [school : Schools, teacher : Users, gone : BOOLEAN]
    BY <1>4 DEF Records!AdminDeleteClass, SchoolInv, RecordsInv
  <2>2. Puts(classes, classes', c, entry)
    BY <1>4, <2>1 DEF Records!AdminDeleteClass, Puts
  <2>3. /\ entry \in [school : Schools, teacher : Users, gone : BOOLEAN]
        /\ entry.school = classes[c].school /\ entry.teacher = classes[c].teacher
    BY <2>1
  <2>4. users[entry.teacher] # None /\ (entry.teacher \notin moved => users[entry.teacher].school = entry.school)
    BY <2>1, <2>3 DEF SchoolInv, RecordsInv
  <2> HIDE DEF entry
  <2> QED
    BY <1>1, <1>2, <2>2, <2>3, <2>4, ClassPut DEF SchoolInv
<1>5. CASE \E t \in Users : Records!AdminCreateClass(a, c, t)
  <2>1. PICK t \in Users : Records!AdminCreateClass(a, c, t)
    BY <1>5
  <2> DEFINE entry == [school |-> seen[a].school, teacher |-> t, gone |-> FALSE]
  <2>2. Puts(classes, classes', c, entry) /\ c \notin DOMAIN classes
    BY <2>1, WithPuts DEF Records!AdminCreateClass, Records!PutClass
  <2>3. entry \in [school : Schools, teacher : Users, gone : BOOLEAN]
    BY <1>3
  <2>4. users[entry.teacher] # None /\ users[entry.teacher].school = entry.school
    BY <2>1 DEF Records!AdminCreateClass, Records!TeacherInSchool
  <2> HIDE DEF entry
  <2> QED
    BY <1>1, <1>2, <2>2, <2>3, <2>4, ClassPut DEF SchoolInv
<1>6. CASE \E t \in Users : Records!AdminUpdateClass(a, c, t)
  <2>1. PICK t \in Users : Records!AdminUpdateClass(a, c, t)
    BY <1>6
  <2> DEFINE entry == [classes[c] EXCEPT !.teacher = t]
  <2>2. c \in DOMAIN classes /\ classes[c] \in [school : Schools, teacher : Users, gone : BOOLEAN]
    BY <2>1 DEF Records!AdminUpdateClass, SchoolInv, RecordsInv
  <2>3. Puts(classes, classes', c, entry)
    BY <2>1, <2>2 DEF Records!AdminUpdateClass, Puts
  <2>4. /\ entry \in [school : Schools, teacher : Users, gone : BOOLEAN]
        /\ entry.school = classes[c].school /\ entry.teacher = t
    BY <2>2
  <2>5. users[t] # None /\ users[t].school = classes[c].school
    BY <2>1 DEF Records!AdminUpdateClass, Records!TeacherInSchool
  <2> HIDE DEF entry
  <2> QED
    BY <1>1, <1>2, <2>3, <2>4, <2>5, ClassPut DEF SchoolInv
<1> QED
  BY <1>4, <1>5, <1>6

\* A learner is put into class c of school s by a request of u.
LEMMA LearnerAdded ==
  ASSUME SchoolInv, NEW u \in Users, NEW l \in Learners, NEW c \in DOMAIN classes, NEW s \in Schools,
         seen' = [seen EXCEPT ![u] = None], UNCHANGED <<classes, works, users, moved>>,
         learners' = Records!With(learners, l, [school |-> s, class |-> c, gone |-> FALSE]),
         \/ strays' = strays /\ classes[c].school = s
         \/ strays' = IF classes[c].school = s THEN strays \ {l} ELSE strays \cup {l}
  PROVE  SchoolInv'
<1> DEFINE entry == [school |-> s, class |-> c, gone |-> FALSE]
<1>1. entry \in [school : Schools, class : DOMAIN classes, gone : BOOLEAN] /\ entry.school = s /\ entry.class = c
  OBVIOUS
<1>2. strays' \in {strays, strays \cup {l}, strays \ {l}} /\ (l \notin strays' => s = classes[c].school)
  OBVIOUS
<1>3. UsersInv'
  BY UsersStay DEF SchoolInv
<1>4. Puts(learners, learners', l, entry)
  BY WithPuts
<1> HIDE DEF entry
<1> QED
  BY <1>1, <1>2, <1>3, <1>4, LearnerPut DEF SchoolInv

\* Learners are added: in the school of the class, or as strays ...
LEMMA LearnersAdded ==
  ASSUME SchoolInv, NEW u \in Users, NEW l \in Learners, NEW c \in Classes,
         \/ Records!AddLearner(u, l, c) \/ Records!AdminCreateLearner(u, l, c)
         \/ \E s \in Schools : Records!SuperCreateLearner(u, l, c, s)
  PROVE  SchoolInv'
<1>1. CASE Records!AddLearner(u, l, c)
  <2>1. Records!By(u, Records!Roles) /\ c \in DOMAIN classes
    BY <1>1 DEF Records!AddLearner, Records!Owns
  <2>2. seen[u].school \in Schools /\ seen' = [seen EXCEPT ![u] = None]
    BY <2>1, RecordsBy DEF SchoolInv
  <2> QED
    BY <1>1, <2>1, <2>2, LearnerAdded DEF Records!AddLearner, Records!PutLearner, Records!Stray, Records!RecordsOnly
<1>2. CASE Records!AdminCreateLearner(u, l, c)
  <2>1. Records!By(u, Records!Admins) /\ c \in DOMAIN classes /\ classes[c].school = seen[u].school
    BY <1>2 DEF Records!AdminCreateLearner, Records!ClassInSchool
  <2>2. seen[u].school \in Schools /\ seen' = [seen EXCEPT ![u] = None]
    BY <2>1, RecordsBy DEF SchoolInv
  <2> QED
    BY <1>2, <2>1, <2>2, LearnerAdded DEF Records!AdminCreateLearner, Records!PutLearner, Records!RecordsOnly
<1>3. CASE \E s \in Schools : Records!SuperCreateLearner(u, l, c, s)
  <2>1. PICK s \in Schools : Records!SuperCreateLearner(u, l, c, s)
    BY <1>3
  <2>2. Records!By(u, {"super_admin"}) /\ c \in DOMAIN classes /\ classes[c].school = s
    BY <2>1 DEF Records!SuperCreateLearner, Records!ClassInSchool
  <2>3. seen' = [seen EXCEPT ![u] = None]
    BY <2>2, RecordsBy DEF SchoolInv
  <2> QED
    BY <2>1, <2>2, <2>3, LearnerAdded DEF Records!SuperCreateLearner, Records!PutLearner, Records!RecordsOnly
<1> QED
  BY <1>1, <1>2, <1>3

\* ... moved to a class or school, and then noted as strays if need be, or
\* deleted.
LEMMA LearnersChanged ==
  ASSUME SchoolInv, NEW u \in Users, NEW l \in Learners,
         \/ Records!DeleteLearner(u, l) \/ Records!SuperDeleteLearner(u, l)
         \/ \E c \in Classes : \/ Records!AdminUpdateLearner(u, l, c)
                              \/ \E s \in Schools : Records!SuperUpdateLearner(u, l, c, s)
  PROVE  SchoolInv'
<1>1. l \in DOMAIN learners /\ learners[l] \in [school : Schools, class : DOMAIN classes, gone : BOOLEAN]
  BY DEF SchoolInv, RecordsInv, Records!DeleteLearner, Records!SuperDeleteLearner, Records!AdminUpdateLearner,
         Records!SuperUpdateLearner
<1>2. CASE Records!DeleteLearner(u, l) \/ Records!SuperDeleteLearner(u, l)
  <2> DEFINE entry == [learners[l] EXCEPT !.gone = TRUE]
  <2>1. PICK roles : Records!By(u, roles)
    BY <1>2 DEF Records!DeleteLearner, Records!SuperDeleteLearner
  <2>2. UNCHANGED <<classes, works, strays, users, moved>> /\ Puts(learners, learners', l, entry)
    BY <1>1, <1>2 DEF Records!DeleteLearner, Records!SuperDeleteLearner, Records!RecordsOnly, Puts
  <2>3. /\ entry \in [school : Schools, class : DOMAIN classes, gone : BOOLEAN]
        /\ entry.school = learners[l].school /\ entry.class = learners[l].class
    BY <1>1
  <2>4. l \notin strays' => entry.school = classes[entry.class].school
    BY <1>1, <2>2, <2>3 DEF SchoolInv, RecordsInv
  <2>5. UsersInv'
    BY <2>1, <2>2, RecordsBy, UsersStay DEF SchoolInv
  <2> HIDE DEF entry
  <2> QED
    BY <2>2, <2>3, <2>4, <2>5, LearnerPut DEF SchoolInv
<1>3. CASE \E c \in Classes : Records!AdminUpdateLearner(u, l, c)
  <2>1. PICK c \in Classes : Records!AdminUpdateLearner(u, l, c)
    BY <1>3
  <2> DEFINE entry == [learners[l] EXCEPT !.class = c, !.school = learners[l].school]
  <2>2. Records!By(u, Records!Admins) /\ UNCHANGED <<classes, works, users, moved>> /\ c \in DOMAIN classes
    BY <2>1 DEF Records!AdminUpdateLearner, Records!RecordsOnly
  <2>3. Puts(learners, learners', l, entry)
    BY <1>1, <2>1 DEF Records!AdminUpdateLearner, Records!PatchLearner, Puts
  <2>4. /\ entry \in [school : Schools, class : DOMAIN classes, gone : BOOLEAN]
        /\ entry.school = learners[l].school /\ entry.class = c
    BY <1>1, <2>2
  <2>5. strays' = IF classes[c].school = learners[l].school THEN strays \ {l} ELSE strays \cup {l}
    BY <2>1 DEF Records!AdminUpdateLearner, Records!Stray
  <2>6. UsersInv'
    BY <2>2, RecordsBy, UsersStay DEF SchoolInv
  <2> HIDE DEF entry
  <2>7. strays' \in {strays, strays \cup {l}, strays \ {l}} /\ (l \notin strays' => entry.school = classes[entry.class].school)
    BY <2>4, <2>5
  <2> QED
    BY <2>2, <2>3, <2>4, <2>6, <2>7, LearnerPut DEF SchoolInv
<1>4. CASE \E c \in Classes, s \in Schools : Records!SuperUpdateLearner(u, l, c, s)
  <2>1. PICK c \in Classes, s \in Schools : Records!SuperUpdateLearner(u, l, c, s)
    BY <1>4
  <2> DEFINE entry == [learners[l] EXCEPT !.class = c, !.school = s]
  <2>2. Records!By(u, {"super_admin"}) /\ UNCHANGED <<classes, works, users, moved>> /\ c \in DOMAIN classes
    BY <2>1 DEF Records!SuperUpdateLearner, Records!RecordsOnly
  <2>3. Puts(learners, learners', l, entry)
    BY <1>1, <2>1 DEF Records!SuperUpdateLearner, Records!PatchLearner, Puts
  <2>4. /\ entry \in [school : Schools, class : DOMAIN classes, gone : BOOLEAN]
        /\ entry.school = s /\ entry.class = c
    BY <1>1, <2>2
  <2>5. strays' = IF classes[c].school = s THEN strays \ {l} ELSE strays \cup {l}
    BY <2>1 DEF Records!SuperUpdateLearner, Records!Stray
  <2>6. UsersInv'
    BY <2>2, RecordsBy, UsersStay DEF SchoolInv
  <2> HIDE DEF entry
  <2>7. strays' \in {strays, strays \cup {l}, strays \ {l}} /\ (l \notin strays' => entry.school = classes[entry.class].school)
    BY <2>4, <2>5
  <2> QED
    BY <2>2, <2>3, <2>4, <2>6, <2>7, LearnerPut DEF SchoolInv
<1> QED
  BY <1>2, <1>3, <1>4

\* A run or an exam of class c is put into school s by a request of u.
LEMMA WorkMade ==
  ASSUME SchoolInv, NEW u \in Users, NEW w \in Works, NEW c \in DOMAIN classes, NEW s \in Schools,
         NEW kind \in {"run", "exam"},
         seen' = [seen EXCEPT ![u] = None], UNCHANGED <<classes, learners, users, moved>>,
         works' = Records!With(works, w, [kind |-> kind, school |-> s, class |-> c, closed |-> FALSE]),
         strays' = IF classes[c].school = s THEN strays \ {w} ELSE strays \cup {w}
  PROVE  SchoolInv'
<1> DEFINE entry == [kind |-> kind, school |-> s, class |-> c, closed |-> FALSE]
<1>1. /\ entry \in [kind : {"run", "exam"}, school : Schools, class : DOMAIN classes, closed : BOOLEAN]
      /\ entry.school = s /\ entry.class = c
  OBVIOUS
<1>2. strays' \in {strays, strays \cup {w}, strays \ {w}} /\ (w \notin strays' => s = classes[c].school)
  OBVIOUS
<1>3. UsersInv'
  BY UsersStay DEF SchoolInv
<1>4. Puts(works, works', w, entry)
  BY WithPuts
<1> HIDE DEF entry
<1> QED
  BY <1>1, <1>2, <1>3, <1>4, WorkPut DEF SchoolInv

\* Runs and exams: an exam is given its school by name.
LEMMA WorksMade ==
  ASSUME SchoolInv, NEW u \in Users, NEW w \in Works, NEW c \in Classes,
         Records!StartRun(u, w, c) \/ \E s \in Schools : Records!CreateTermExam(u, w, c, s)
  PROVE  SchoolInv'
<1>1. CASE Records!StartRun(u, w, c)
  <2>1. Records!By(u, Records!Roles) /\ c \in DOMAIN classes
    BY <1>1 DEF Records!StartRun, Records!Owns
  <2>2. seen[u].school \in Schools /\ seen' = [seen EXCEPT ![u] = None]
    BY <2>1, RecordsBy DEF SchoolInv
  <2> QED
    BY <1>1, <2>1, <2>2, WorkMade DEF Records!StartRun, Records!Stray, Records!RecordsOnly
<1>2. CASE \E s \in Schools : Records!CreateTermExam(u, w, c, s)
  <2>1. PICK s \in Schools : Records!CreateTermExam(u, w, c, s)
    BY <1>2
  <2>2. Records!By(u, Records!Roles) /\ c \in DOMAIN classes
    BY <2>1 DEF Records!CreateTermExam, Records!Owns
  <2>3. seen' = [seen EXCEPT ![u] = None]
    BY <2>2, RecordsBy DEF SchoolInv
  <2> QED
    BY <2>1, <2>2, <2>3, WorkMade DEF Records!CreateTermExam, Records!Stray, Records!RecordsOnly
<1> QED
  BY <1>1, <1>2

\* A run is closed, an exam deleted.
LEMMA WorksEnded ==
  ASSUME SchoolInv, NEW u \in Users, NEW w \in Works, Records!CloseRun(u, w) \/ Records!DeleteTermExam(u, w)
  PROVE  SchoolInv'
<1>1. Records!By(u, Records!Roles) /\ UNCHANGED <<classes, learners, users, moved>> /\ w \in DOMAIN works
  BY DEF Records!CloseRun, Records!DeleteTermExam, Records!RecordsOnly
<1>2. UsersInv'
  BY <1>1, RecordsBy, UsersStay DEF SchoolInv
<1>3. works[w] \in [kind : {"run", "exam"}, school : Schools, class : DOMAIN classes, closed : BOOLEAN]
  BY <1>1 DEF SchoolInv, RecordsInv
<1>4. CASE Records!CloseRun(u, w)
  <2> DEFINE entry == [works[w] EXCEPT !.closed = TRUE]
  <2>1. strays' = strays /\ Puts(works, works', w, entry)
    BY <1>1, <1>4 DEF Records!CloseRun, Puts
  <2>2. /\ entry \in [kind : {"run", "exam"}, school : Schools, class : DOMAIN classes, closed : BOOLEAN]
        /\ entry.school = works[w].school /\ entry.class = works[w].class
    BY <1>3
  <2>3. w \notin strays' => entry.school = classes[entry.class].school
    BY <1>1, <2>1, <2>2 DEF SchoolInv, RecordsInv
  <2> HIDE DEF entry
  <2> QED
    BY <1>1, <1>2, <2>1, <2>2, <2>3, WorkPut DEF SchoolInv
<1>5. CASE Records!DeleteTermExam(u, w)
  <2>1. /\ DOMAIN works' = DOMAIN works \ {w} /\ \A x \in DOMAIN works' : works'[x] = works[x]
        /\ strays' = strays \ {w}
    BY <1>5 DEF Records!DeleteTermExam
  <2>2. \A l \in DOMAIN learners : l # w
    BY RecordsAssumed DEF SchoolInv, RecordsInv
  <2>3. RecordsInv'
    BY <1>1, <2>1, <2>2 DEF SchoolInv, RecordsInv
  <2> QED
    BY <1>2, <2>3 DEF SchoolInv
<1> QED
  BY <1>4, <1>5

\* A user's row changes: who gets another school is noted as moved.
LEMMA UsersChange ==
  ASSUME SchoolInv, NEW a \in Users, NEW roles, Records!By(a, roles), NEW u \in Users, NEW entry \in Records!User,
         users[u] # None, Records!Change(u, entry)
  PROVE  SchoolInv'
<1>1. /\ UNCHANGED <<classes, learners, works, strays>>
      /\ users' = [users EXCEPT ![u] = entry]
      /\ moved' = IF entry.school = users[u].school THEN moved ELSE moved \cup {u}
  BY DEF Records!Change, Records!UsersOnly
<1>2. /\ users' \in [Users -> Records!User \cup {None}]
      /\ users'[u] = entry /\ entry # None /\ \A v \in Users \ {u} : users'[v] = users[v]
  BY <1>1, RecordsAssumed DEF SchoolInv, UsersInv
<1>3. \A v \in Users : users[v] # None => users'[v] # None /\ (v \notin moved' => v \notin moved /\ users'[v].school = users[v].school)
  BY <1>1, <1>2
<1>4. seen' = [seen EXCEPT ![a] = None]
  BY RecordsBy DEF SchoolInv
<1>5. UsersInv'
  BY <1>2, <1>3, <1>4 DEF SchoolInv, UsersInv
<1>6. \A c \in DOMAIN classes :
       /\ users'[classes[c].teacher] # None
       /\ classes[c].teacher \notin moved' => users'[classes[c].teacher].school = classes[c].school
  BY <1>3 DEF SchoolInv, RecordsInv
<1>7. RecordsInv'
  BY <1>1, <1>6 DEF SchoolInv, RecordsInv
<1> QED
  BY <1>5, <1>7 DEF SchoolInv

\* The four ways a row changes.
LEMMA UsersActs ==
  ASSUME SchoolInv, NEW a \in Users, NEW u \in Users,
         \/ u = a /\ \E s \in Schools : Records!ChangeSchool(a, s)
         \/ \E b \in BOOLEAN : Records!AdminSetActive(a, u, b)
         \/ Records!SuperDeactivate(a, u)
         \/ users[u] # None /\ \E entry \in Records!Updates(users[u]) : Records!SuperUpdateUser(a, u, entry)
  PROVE  SchoolInv'
<1>1. users[u] # None /\ users[u] \in Records!User
  BY RecordsBy DEF SchoolInv, UsersInv, Records!ChangeSchool, Records!AdminSetActive, Records!TeacherInSchool, Records!SuperDeactivate
<1>2. PICK entry, roles : entry \in Records!User /\ Records!By(a, roles) /\ Records!Change(u, entry)
  <2>1. CASE u = a /\ \E s \in Schools : Records!ChangeSchool(a, s)
    <3>1. PICK s \in Schools : Records!ChangeSchool(a, s)
      BY <2>1
    <3>2. [users[u] EXCEPT !.school = s] \in Records!User
      BY <1>1 DEF Records!User
    <3> QED
      BY <2>1, <3>1, <3>2 DEF Records!ChangeSchool
  <2>2. CASE \E b \in BOOLEAN : Records!AdminSetActive(a, u, b)
    <3>1. PICK b \in BOOLEAN : Records!AdminSetActive(a, u, b)
      BY <2>2
    <3>2. [users[u] EXCEPT !.active = b] \in Records!User
      BY <1>1 DEF Records!User
    <3> QED
      BY <3>1, <3>2 DEF Records!AdminSetActive
  <2>3. CASE Records!SuperDeactivate(a, u)
    <3>1. [users[u] EXCEPT !.active = FALSE] \in Records!User
      BY <1>1 DEF Records!User
    <3> QED
      BY <2>3, <3>1 DEF Records!SuperDeactivate
  <2>4. CASE \E entry \in Records!Updates(users[u]) : Records!SuperUpdateUser(a, u, entry)
    <3>1. PICK entry \in Records!Updates(users[u]) : Records!SuperUpdateUser(a, u, entry)
      BY <2>4
    <3>2. entry \in Records!User
      BY <1>1 DEF Records!User, Records!Updates
    <3> QED
      BY <3>1, <3>2 DEF Records!SuperUpdateUser
  <2> QED
    BY <2>1, <2>2, <2>3, <2>4
<1> QED
  BY <1>1, <1>2, UsersChange

\* A user more.
LEMMA UsersNew ==
  ASSUME SchoolInv, NEW u \in Users, NEW s \in Schools, NEW role \in Records!Roles, Records!NewUser(u, s, role),
         seen' = seen \/ \E a \in Users : seen' = [seen EXCEPT ![a] = None]
  PROVE  SchoolInv'
<1> DEFINE entry == [school |-> s, role |-> role, active |-> TRUE]
<1>0. entry \in Records!User
  BY DEF Records!User
<1> HIDE DEF entry
<1>1. entry \in Records!User /\ entry # None
  BY <1>0, RecordsAssumed
<1>2. /\ UNCHANGED <<classes, learners, works, strays, moved>> /\ users[u] = None
      /\ users' = [users EXCEPT ![u] = entry]
  BY DEF Records!NewUser, Records!UsersOnly, entry
<1>3. users' \in [Users -> Records!User \cup {None}] /\ \A v \in Users : users[v] # None => users'[v] = users[v]
  BY <1>1, <1>2 DEF SchoolInv, UsersInv
<1>4. UsersInv'
  BY <1>2, <1>3 DEF SchoolInv, UsersInv
<1>5. \A c \in DOMAIN classes :
       /\ users'[classes[c].teacher] # None
       /\ classes[c].teacher \notin moved => users'[classes[c].teacher].school = classes[c].school
  BY <1>3 DEF SchoolInv, RecordsInv
<1>6. RecordsInv'
  BY <1>2, <1>5 DEF SchoolInv, RecordsInv
<1> QED
  BY <1>4, <1>6 DEF SchoolInv

\* Every step keeps the invariant.
LEMMA SchoolNextInv == ASSUME SchoolInv, Records!Next PROVE SchoolInv'
<1>1. PICK u \in Users :
        \/ Records!Arrive(u) \/ \E s \in Schools : Records!Signup(u, s)
        \/ seen[u] # None /\ (Records!TeacherActs(u) \/ Records!AdminActs(u) \/ Records!SuperActs(u))
  BY DEF Records!Next
<1>2. CASE Records!Arrive(u)
  <2>1. UNCHANGED <<users, classes, learners, works, strays, moved>> /\ seen' = [seen EXCEPT ![u] = users[u]] /\ users[u] # None
    BY <1>2 DEF Records!Arrive
  <2>2. UsersInv'
    BY <2>1 DEF SchoolInv, UsersInv
  <2>3. RecordsInv'
    BY <2>1 DEF SchoolInv, RecordsInv
  <2> QED
    BY <2>2, <2>3 DEF SchoolInv
<1>3. CASE \E s \in Schools : Records!Signup(u, s)
  BY <1>3, UsersNew DEF Records!Signup, Records!Roles
<1>4. CASE Records!TeacherActs(u)
  BY <1>4, TeachersClasses, LearnersAdded, LearnersChanged, WorksMade, WorksEnded, UsersActs DEF Records!TeacherActs
<1>5. CASE Records!AdminActs(u)
  <2>1. CASE \E v \in Users : Records!AdminCreateTeacher(u, v)
    <3>1. PICK v \in Users : Records!By(u, Records!Admins) /\ Records!NewUser(v, seen[u].school, Records!Teacher)
      BY <2>1 DEF Records!AdminCreateTeacher
    <3>2. seen[u].school \in Schools /\ seen' = [seen EXCEPT ![u] = None] /\ Records!Teacher \in Records!Roles
      BY <3>1, RecordsBy DEF SchoolInv, Records!Roles
    <3> QED
      BY <3>1, <3>2, UsersNew
  <2> QED
    BY <2>1, <1>5, AdminsClasses, LearnersAdded, LearnersChanged, UsersActs DEF Records!AdminActs
<1>6. CASE Records!SuperActs(u)
  <2>1. CASE \E v \in Users, s \in Schools, role \in Records!Roles : Records!SuperCreateUser(u, v, s, role)
    <3>1. PICK v \in Users, s \in Schools, role \in Records!Roles : Records!By(u, {"super_admin"}) /\ Records!NewUser(v, s, role)
      BY <2>1 DEF Records!SuperCreateUser
    <3>2. seen' = [seen EXCEPT ![u] = None]
      BY <3>1, RecordsBy DEF SchoolInv
    <3> QED
      BY <3>1, <3>2, UsersNew
  <2> QED
    BY <2>1, <1>6, LearnersAdded, LearnersChanged, UsersActs DEF Records!SuperActs
<1> QED
  BY <1>1, <1>2, <1>3, <1>4, <1>5, <1>6

\* So it holds all along.
LEMMA SchoolInvariance == PlatformSpec => [](part = "records" => SchoolInv)
<1>1. PlatformInit => (part = "records" => SchoolInv)
  <2> SUFFICES ASSUME PlatformInit, part = "records" PROVE SchoolInv
    OBVIOUS
  <2>1. Records!Init
    BY DEF PlatformInit
  <2>2. /\ [school |-> Home, role |-> "super_admin", active |-> TRUE] \in Records!User
        /\ [school |-> Home, role |-> "school_admin", active |-> TRUE] \in Records!User
    BY RecordsAssumed DEF Records!User, Records!Roles, Records!Admins
  <2>3. UsersInv
    BY <2>1, <2>2 DEF Records!Init, UsersInv
  <2>4. DOMAIN classes = {} /\ DOMAIN learners = {} /\ DOMAIN works = {} /\ strays = {}
    BY <2>1 DEF Records!Init
  <2>5. RecordsInv
    BY <2>4 DEF RecordsInv
  <2> QED
    BY <2>3, <2>5 DEF SchoolInv
<1>2. (part = "records" => SchoolInv) /\ [PlatformNext]_allVars => (part = "records" => SchoolInv)'
  <2>1. ASSUME SchoolInv, UNCHANGED <<users, classes, learners, works, seen, changes, strays, moved, demoted>> PROVE SchoolInv'
    BY <2>1 DEF SchoolInv, UsersInv, RecordsInv
  <2>2. part = "records" /\ [PlatformNext]_allVars =>
          Records!Next \/ UNCHANGED <<users, classes, learners, works, seen, changes, strays, moved, demoted>>
    BY DEF PlatformNext, Only, allVars
  <2> QED
    BY <2>1, <2>2, PartStays, SchoolNextInv
<1> QED
  BY <1>1, <1>2, PTL DEF PlatformSpec

\* Records are in the school of their class, but for the strays (add_learner,
\* create_learner, start_run, create_term_exam and the updates).
THEOREM RecordsStayTogether == PlatformSpec => []SchoolsAgree
<1>1. (part = "records" => SchoolInv) => SchoolsAgree
  BY DEF SchoolInv, RecordsInv, SchoolsAgree, Records!SchoolsAgree
<1> QED
  BY <1>1, SchoolInvariance, PTL

\* Users are shown what is of their school, the school admin all of it, and the
\* learners of a class behind every page that names them (list_classes,
\* list_for_class, list_runs, get_learner, list_exam_scores and their filters).
THEOREM ViewsStayTogether == PlatformSpec => []ViewsAgree
<1>1. ASSUME SchoolInv, NEW u \in Users \ moved, users[u] # None
      PROVE  /\ \A c \in Records!ListClasses(u) : classes[c].school = users[u].school
             /\ \A c \in DOMAIN classes : Records!Owns(u, users[u], c) => classes[c].school = users[u].school
  BY <1>1 DEF SchoolInv, RecordsInv, Records!ListClasses, Records!Owns
<1>2. SchoolInv => Records!SeesOwnSchool
  <2> SUFFICES ASSUME SchoolInv, NEW u \in Users \ moved, users[u] # None
               PROVE  /\ \A c \in Records!ListClasses(u) : classes[c].school = users[u].school
                      /\ \A c \in Classes : \A l \in Records!ListForClass(u, c) \ strays : learners[l].school = users[u].school
                      /\ \A w \in Records!ListRuns(u) \ strays : Records!Owns(u, users[u], works[w].class)
    BY DEF Records!SeesOwnSchool
  <2>1. \A c \in Classes : \A l \in Records!ListForClass(u, c) \ strays : learners[l].school = users[u].school
    BY <1>1 DEF SchoolInv, RecordsInv, Records!ListForClass, Records!Owns
  <2>2. \A w \in Records!ListRuns(u) \ strays : Records!Owns(u, users[u], works[w].class)
    BY DEF SchoolInv, RecordsInv, Records!ListRuns, Records!Reaches, Records!Owns
  <2> QED
    BY <1>1, <2>1, <2>2
<1>3. SchoolInv => Records!AdminSeesAll
  <2> SUFFICES ASSUME SchoolInv, NEW u \in Users \ moved, users[u] # None
               PROVE  /\ Records!ListClasses(u) \subseteq Records!ListSchoolClasses(users[u].school)
                      /\ \A c \in Classes :
                           (Records!ListForClass(u, c) \cup Records!ListClassLearners(u, c)) \ strays
                             \subseteq Records!ListLearners(users[u].school)
    BY DEF Records!AdminSeesAll
  <2>1. Records!ListClasses(u) \subseteq Records!ListSchoolClasses(users[u].school)
    BY <1>1 DEF Records!ListClasses, Records!ListSchoolClasses
  <2>2. ASSUME NEW c \in Classes, NEW l \in (Records!ListForClass(u, c) \cup Records!ListClassLearners(u, c)) \ strays
        PROVE  l \in Records!ListLearners(users[u].school)
    <3>1. l \in DOMAIN learners /\ learners[l].class = c /\ ~learners[l].gone /\ c \in DOMAIN classes /\ Records!Owns(u, users[u], c)
      BY DEF Records!ListForClass, Records!ListClassLearners, Records!GetClass, Records!ListClasses, Records!Owns
    <3>2. learners[l].school = users[u].school
      BY <1>1, <3>1 DEF SchoolInv, RecordsInv
    <3> QED
      BY <3>1, <3>2 DEF Records!ListLearners
  <2> QED
    BY <2>1, <2>2
<1>4. SchoolInv => Records!PagesLead
  <2> SUFFICES ASSUME SchoolInv, NEW u \in Users \ moved, users[u] # None
               PROVE  /\ \A c \in Classes : \A l \in Records!ListForClass(u, c) \ strays : Records!GetLearner(u, l)
                      /\ \A w \in Records!ListTermExams(u) \ strays :
                           Records!ListForClass(u, works[w].class) \ strays \subseteq Records!ListExamScores(u, w)
    BY DEF Records!PagesLead
  <2>1. ASSUME NEW c, NEW l \in Records!ListForClass(u, c) \ strays
        PROVE  l \in DOMAIN learners /\ learners[l].school = users[u].school /\ learners[l].class = c /\ ~learners[l].gone
    <3>1. l \in DOMAIN learners /\ learners[l].class = c /\ ~learners[l].gone /\ c \in DOMAIN classes /\ Records!Owns(u, users[u], c)
      BY DEF Records!ListForClass, Records!Owns
    <3>2. learners[l].school = users[u].school
      BY <1>1, <3>1 DEF SchoolInv, RecordsInv
    <3> QED
      BY <3>1, <3>2
  <2>2. \A c \in Classes : \A l \in Records!ListForClass(u, c) \ strays : Records!GetLearner(u, l)
    BY <2>1 DEF Records!GetLearner
  <2>3. ASSUME NEW w \in Records!ListTermExams(u) \ strays,
               NEW l \in Records!ListForClass(u, works[w].class) \ strays
        PROVE  l \in Records!ListExamScores(u, w)
    BY <2>1, <2>3 DEF Records!ListExamScores, Records!ListTermExams
  <2> QED
    BY <2>2, <2>3
<1>5. (part = "records" => SchoolInv) => ViewsAgree
  BY <1>2, <1>3, <1>4 DEF ViewsAgree, Records!ViewsAgree
<1> QED
  BY <1>5, SchoolInvariance, PTL
-----------------------------------------------------------------------------
(* Schemes of work: the cells of a whole calendar, shown as printed.       *)

\* The cells that a scheme's calendar has.
Grid(s) == SchemesOfWork!Range(SchemesOfWork!Calendar(s))

\* A schedule fills the calendar, whatever the blocks are.
LEMMA ScheduleFills == \A s, blocks : DOMAIN SchemesOfWork!Schedule(s, blocks) = Grid(s)
BY DEF SchemesOfWork!Schedule, Grid

\* A break has no block.
LEMMA BreaksHaveNoBlock ==
  \A s, blocks : \A c \in Grid(s) : c[2] = 0 => SchemesOfWork!Schedule(s, blocks)[c] = 0
<1> SUFFICES ASSUME NEW s, NEW blocks, NEW c \in Grid(s), c[2] = 0
             PROVE  SchemesOfWork!Schedule(s, blocks)[c] = 0
  OBVIOUS
<1> DEFINE calendar == SchemesOfWork!Calendar(s)
           at == [i \in DOMAIN calendar |->
                    IF calendar[i][2] = 0 \/ blocks = <<>> THEN 0
                    ELSE blocks[SchemesOfWork!BlockOf(calendar, SchemesOfWork!Len(blocks), i)]]
           j == CHOOSE i \in DOMAIN calendar : calendar[i] = c
<1>1. SchemesOfWork!Schedule(s, blocks)[c] = at[j]
  BY DEF SchemesOfWork!Schedule, Grid
<1>2. j \in DOMAIN calendar /\ calendar[j] = c
  <2>1. \E i \in DOMAIN calendar : calendar[i] = c
    BY DEF Grid, SchemesOfWork!Range
  <2> HIDE DEF calendar
  <2> QED
    BY <2>1
<1> HIDE DEF calendar, j
<1> QED
  BY <1>1, <1>2

\* What is stored, and what is about to be, are the cells of the calendar.
SchemeInv ==
  /\ scheme \in [is : BOOLEAN, weeks : 1 .. MaxWeeks, perWeek : 1 .. MaxPerWeek, breaks : SUBSET (1 .. MaxWeeks)]
  /\ cells = SchemesOfWork!NoCells \/ DOMAIN cells = Grid(scheme)
  /\ making = "write" => DOMAIN draft = Grid(scheme)

\* A scheme's calendar is given when it is made.
LEMMA CalendarStays ==
  ASSUME SchemeInv, NEW b \in BOOLEAN, scheme' = [scheme EXCEPT !.is = b]
  PROVE  /\ scheme' \in [is : BOOLEAN, weeks : 1 .. MaxWeeks, perWeek : 1 .. MaxPerWeek, breaks : SUBSET (1 .. MaxWeeks)]
         /\ Grid(scheme') = Grid(scheme)
<1>1. /\ scheme' \in [is : BOOLEAN, weeks : 1 .. MaxWeeks, perWeek : 1 .. MaxPerWeek, breaks : SUBSET (1 .. MaxWeeks)]
      /\ scheme'.weeks = scheme.weeks /\ scheme'.perWeek = scheme.perWeek /\ scheme'.breaks = scheme.breaks
  BY DEF SchemeInv
<1>2. SchemesOfWork!Calendar(scheme') = SchemesOfWork!Calendar(scheme)
  BY <1>1 DEF SchemesOfWork!Calendar
<1> QED
  BY <1>1, <1>2 DEF Grid

\* Every step keeps the invariant.
LEMMA SchemeNextInv == ASSUME SchemeInv, SchemesOfWork!Next PROVE SchemeInv'
<1>1. CASE SchemesOfWork!Create
  <2>1. scheme' = [scheme EXCEPT !.is = TRUE] /\ cells' = cells /\ making' # "write"
    BY <1>1 DEF SchemesOfWork!Create
  <2> QED
    BY <2>1, CalendarStays DEF SchemeInv
<1>2. CASE SchemesOfWork!GenerateReads
  <2>1. UNCHANGED <<scheme, cells>>
    BY <1>2 DEF SchemesOfWork!GenerateReads
  <2>2. making' = "write" => DOMAIN draft' = DOMAIN SchemesOfWork!Schedule(scheme, SchemesOfWork!Blocks)
    BY <1>2 DEF SchemesOfWork!GenerateReads
  <2> QED
    BY <2>1, <2>2, ScheduleFills DEF SchemeInv
<1>3. CASE SchemesOfWork!GenerateWrites
  <2>1. making = "write" /\ scheme' = scheme /\ making' # "write" /\ (cells' = draft \/ cells' = cells)
    BY <1>3 DEF SchemesOfWork!GenerateWrites
  <2> QED
    BY <2>1 DEF SchemeInv
<1>4. CASE SchemesOfWork!Stop
  BY <1>4 DEF SchemesOfWork!Stop, SchemeInv
<1>5. CASE SchemesOfWork!DeleteScheme
  <2>1. /\ scheme' = [scheme EXCEPT !.is = FALSE] /\ cells' = SchemesOfWork!NoCells
        /\ draft' = draft /\ making' = making
    BY <1>5 DEF SchemesOfWork!DeleteScheme
  <2> QED
    BY <2>1, CalendarStays DEF SchemeInv, SchemesOfWork!NoCells
<1>6. ASSUME NEW c \in DOMAIN cells, NEW t, NEW l, SchemesOfWork!UpdateLessonCell(c, t, l)
      PROVE  SchemeInv'
  <2>1. DOMAIN cells' = DOMAIN cells /\ UNCHANGED <<scheme, draft, making>>
    BY <1>6 DEF SchemesOfWork!UpdateLessonCell
  <2>2. cells # SchemesOfWork!NoCells
    BY DEF SchemesOfWork!NoCells
  <2> QED
    BY <2>1, <2>2 DEF SchemeInv
<1>7. CASE \E c \in Contents : \/ SchemesOfWork!DeleteContent(c)
                             \/ \E here \in BOOLEAN, t \in Texts : \E l \in {t, None} : SchemesOfWork!PutContent(c, here, t, l)
  BY <1>7 DEF SchemesOfWork!DeleteContent, SchemesOfWork!PutContent, SchemeInv
<1> QED
  BY <1>1, <1>2, <1>3, <1>4, <1>5, <1>6, <1>7 DEF SchemesOfWork!Next

\* It holds at first.
LEMMA SchemeInitInv == ASSUME SchemesOfWork!Init PROVE SchemeInv
<1>1. PICK w \in 1 .. MaxWeeks, p \in 1 .. MaxPerWeek, b \in SUBSET (1 .. MaxWeeks) :
        scheme = [is |-> FALSE, weeks |-> w, perWeek |-> p, breaks |-> b]
  BY DEF SchemesOfWork!Init
<1>2. cells = SchemesOfWork!NoCells /\ making = "new"
  BY DEF SchemesOfWork!Init
<1> QED
  BY <1>1, <1>2 DEF SchemeInv

\* The invariant holds throughout.
LEMMA SchemeInvariance == PlatformSpec => [](part = "schemes" => SchemeInv)
<1>1. PlatformInit => (part = "schemes" => SchemeInv)
  BY SchemeInitInv DEF PlatformInit
<1>2. (part = "schemes" => SchemeInv) /\ [PlatformNext]_allVars => (part = "schemes" => SchemeInv)'
  <2>1. ASSUME SchemeInv, UNCHANGED <<bank, scheme, cells, draft, making, writes>> PROVE SchemeInv'
    BY <2>1 DEF SchemeInv
  <2>2. part = "schemes" /\ [PlatformNext]_allVars =>
          SchemesOfWork!Next \/ UNCHANGED <<bank, scheme, cells, draft, making, writes>>
    BY DEF PlatformNext, Only, allVars
  <2> QED
    BY <2>1, <2>2, PartStays, SchemeNextInv
<1> QED
  BY <1>1, <1>2, PTL DEF PlatformSpec

\* A scheme of work has all the cells of its calendar or none, and its preview
\* shows what its page and its PDF show (create_scheme, preview_scheme,
\* get_scheme, _build_scheme_of_work_pdf).
THEOREM SchemeStaysWhole == PlatformSpec => []SchemeAgrees
<1>1. SchemeInv => SchemesOfWork!WholeOrNone
  BY ScheduleFills DEF SchemeInv, SchemesOfWork!WholeOrNone
<1>2. SchemeInv => SchemesOfWork!PreviewIsPrinted
  <2> SUFFICES ASSUME SchemeInv, SchemesOfWork!Blocks # <<>>, NEW c \in DOMAIN cells
               PROVE  /\ c[2] # 0 => SchemesOfWork!Preview[c].topic = cells[c].topic
                      /\ c[2] = 0 => SchemesOfWork!Preview[c].list = None
                      /\ c[2] # 0 /\ cells[c].list # None => SchemesOfWork!Preview[c].list = cells[c].list
    BY DEF SchemesOfWork!PreviewIsPrinted, SchemesOfWork!Printed, SchemesOfWork!GetScheme
  <2> DEFINE plan == SchemesOfWork!Schedule(scheme, SchemesOfWork!Blocks)
             shown == SchemesOfWork!Filled(plan[c])
  <2>1. c \in DOMAIN plan /\ (c[2] = 0 => plan[c] = 0)
    BY ScheduleFills, BreaksHaveNoBlock DEF SchemeInv, SchemesOfWork!NoCells
  <2>2. SchemesOfWork!Preview[c] = SchemesOfWork!Overlaid(c, shown)
    <3> HIDE DEF plan
    <3>1. SchemesOfWork!Preview =
            [d \in DOMAIN plan |-> IF SchemesOfWork!Blocks = <<>> THEN SchemesOfWork!Filled(plan[d])
                                   ELSE SchemesOfWork!Overlaid(d, SchemesOfWork!Filled(plan[d]))]
      BY DEF SchemesOfWork!Preview, SchemesOfWork!PreviewPayload, plan
    <3> QED
      BY <2>1, <3>1
  <2>3. DOMAIN shown = {"content", "topic", "list"} /\ (c[2] = 0 => shown.list = None)
    BY <2>1 DEF SchemesOfWork!Filled, SchemesOfWork!Break
  <2> HIDE DEF shown
  <2> QED
    BY <2>2, <2>3 DEF SchemesOfWork!Overlaid
<1>3. (part = "schemes" => SchemeInv) => SchemeAgrees
  BY <1>1, <1>2 DEF SchemeAgrees, SchemesOfWork!SchemeAgrees
<1> QED
  BY <1>3, SchemeInvariance, PTL
-----------------------------------------------------------------------------
(* Term exams: the marks that were typed last, with the grades they        *)
(* deserve.                                                                *)

\* What is assumed of marks.
LEMMA ExamsAssumed ==
  /\ MaxMarks \in Nat /\ None \notin TermExams!Row /\ \A l \in ClassList : Entered[l] \subseteq TermExams!Marks
  /\ 0 \in TermExams!Marks /\ TermExams!Marks \subseteq Int
BY PlatformAssumption DEF PlatformAssumption, TermExams!TermExamsAssumption, TermExams!Marks

\* The server's bands and the page's are the same.
LEMMA GradesAgree ==
  ASSUME NEW m \in Int PROVE TermExams!ComputeGrade(m, MaxMarks) = TermExams!GradeShown(m, MaxMarks)
<1> DEFINE top == MaxMarks
           on(b) == TermExams!GradeBands[b] = 0 \/ TermExams!AtLeast(m, top, TermExams!GradeBands[b])
           in == {b \in TermExams!Grades : on(b)}
           best(g) == g \in in /\ \A b \in in : TermExams!GradeBands[b] <= TermExams!GradeBands[g]
           g0 == TermExams!ComputeGrade(m, MaxMarks)
<1>1. /\ TermExams!GradeBands["EE"] = 75 /\ TermExams!GradeBands["ME"] = 41
      /\ TermExams!GradeBands["AE"] = 21 /\ TermExams!GradeBands["BE"] = 0
  BY DEF TermExams!GradeBands
<1>2. /\ on("EE") <=> TermExams!AtLeast(m, top, 75)
      /\ on("ME") <=> TermExams!AtLeast(m, top, 41)
      /\ on("AE") <=> TermExams!AtLeast(m, top, 21)
      /\ on("BE")
  BY <1>1
<1>3. /\ TermExams!AtLeast(m, top, 75) => TermExams!AtLeast(m, top, 41)
      /\ TermExams!AtLeast(m, top, 41) => TermExams!AtLeast(m, top, 21)
  BY ExamsAssumed DEF TermExams!AtLeast
<1>4. /\ g0 \in {"EE", "ME", "AE", "BE"}
      /\ g0 = "EE" <=> TermExams!AtLeast(m, top, 75)
      /\ g0 = "ME" <=> ~TermExams!AtLeast(m, top, 75) /\ TermExams!AtLeast(m, top, 41)
      /\ g0 = "AE" <=> ~TermExams!AtLeast(m, top, 75) /\ ~TermExams!AtLeast(m, top, 41) /\ TermExams!AtLeast(m, top, 21)
  BY DEF TermExams!ComputeGrade
<1> HIDE DEF on, g0
<1>5. best(g0)
  BY <1>1, <1>2, <1>3, <1>4 DEF TermExams!Grades
<1>6. ASSUME NEW g, best(g) PROVE g = g0
  BY <1>1, <1>5, <1>6 DEF TermExams!Grades
<1>7. TermExams!GradeShown(m, MaxMarks) = CHOOSE g \in TermExams!Grades : best(g)
  BY DEF TermExams!GradeShown, on
<1>8. g0 \in TermExams!Grades
  BY <1>5
<1> HIDE DEF best
<1> QED
  BY <1>5, <1>6, <1>7, <1>8 DEF g0

\* What a field shows of a row.
ShownOf(entry) == IF entry = None THEN 0 ELSE entry.marks

\* What is sent for a learner for whom nothing was typed is what the page had
\* got.
SentAsGot ==
  \A p \in Requests : save[p].at = "read" =>
    \A l \in ClassList \ save[p].typed : save[p].sent[l] = ShownOf(save[p].got[l])

\* While the exam is there, a learner without a row has never had one; once
\* it is deleted, no one has.
RowsRemain ==
  \A l \in ClassList : rows[l] = None =>
    (exam => last[l] = None /\ \A p \in Requests : save[p].seen[l] = None)
RowsGone == ~exam => \A l \in ClassList : rows[l] = None

\* Rows and sheets are rows and marks, and so on.
MarksInv ==
  /\ rows \in TermExams!Rows
  /\ page \in [Requests -> [open : BOOLEAN, got : TermExams!Rows, typed : TermExams!Typed]]
  /\ save \in [Requests -> [at : {"none", "read", "answered"}, sent : [ClassList -> TermExams!Marks],
                            typed : SUBSET ClassList, got : TermExams!Rows, next : Nat, seen : TermExams!Rows]]
  /\ SentAsGot /\ RowsRemain /\ RowsGone
  /\ TermExams!GradeFits /\ TermExams!LastTypedStands

\* What was typed are marks of some learners.
LEMMA TypedMarks ==
  /\ \A t \in TermExams!Typed : DOMAIN t \subseteq ClassList /\ \A l \in DOMAIN t : t[l] \in TermExams!Marks
  /\ \A ls \in SUBSET ClassList : \A t \in [ls -> TermExams!Marks] : t \in TermExams!Typed
BY DEF TermExams!Typed

\* A row is written with the grade of its marks.
LEMMA WrittenRow ==
  ASSUME NEW s, NEW l, s.sent[l] \in TermExams!Marks
  PROVE  /\ TermExams!Written(s, l) \in TermExams!Row /\ TermExams!Written(s, l) # None
         /\ TermExams!Written(s, l).marks = s.sent[l]
         /\ TermExams!Written(s, l).grade = TermExams!GradeShown(s.sent[l], MaxMarks)
<1>1. TermExams!ComputeGrade(s.sent[l], MaxMarks) \in TermExams!Grades
  BY DEF TermExams!ComputeGrade, TermExams!Grades
<1> QED
  BY <1>1, GradesAgree, ExamsAssumed DEF TermExams!Written, TermExams!Row

\* A commit gives a row that is still as it was read what is to be written.
LEMMA MergedRow ==
  ASSUME NEW s, NEW l \in ClassList, s.seen[l] = rows[l]
  PROVE  TermExams!Merged(s, l) = TermExams!Written(s, l)
<1> DEFINE w == TermExams!Written(s, l)
<1>1. w = [marks |-> w.marks, grade |-> w.grade]
  BY DEF TermExams!Written
<1>2. TermExams!Merged(s, l) =
        IF s.seen[l] = None THEN w ELSE IF s.seen[l] = w THEN rows[l]
        ELSE [marks |-> IF w.marks = s.seen[l].marks THEN rows[l].marks ELSE w.marks,
              grade |-> IF w.grade = s.seen[l].grade THEN rows[l].grade ELSE w.grade]
  BY DEF TermExams!Merged
<1> HIDE DEF w
<1>3. TermExams!Merged(s, l) = w
  BY <1>1, <1>2
<1> QED
  BY <1>3 DEF w

\* A commit: who is written as it was read has the mark that was sent.
LEMMA CommitMarks ==
  ASSUME MarksInv, NEW p \in Requests, TermExams!Commit(p)
  PROVE  /\ rows' \in TermExams!Rows
         /\ exam => \A l \in ClassList : rows'[l] = None => rows[l] = None /\ last'[l] = None
         /\ ~exam => \A l \in ClassList : rows'[l] = None
         /\ TermExams!GradeFits' /\ TermExams!LastTypedStands'
<1> DEFINE s == save[p]
<1>1. s.at = "read"
  BY DEF TermExams!Commit
<1>2. s.sent \in [ClassList -> TermExams!Marks] /\ s.seen \in TermExams!Rows /\ s.typed \subseteq ClassList
  BY DEF MarksInv
<1>3. \A l \in ClassList : /\ TermExams!Written(s, l) \in TermExams!Row /\ TermExams!Written(s, l) # None
                           /\ TermExams!Written(s, l).marks = s.sent[l]
                           /\ TermExams!Written(s, l).grade = TermExams!GradeShown(s.sent[l], MaxMarks)
  BY <1>2, WrittenRow
<1>4. rows \in [ClassList -> TermExams!Row \cup {None}]
  BY DEF MarksInv, TermExams!Rows
<1>5. CASE \E l \in ClassList : ~TermExams!Applies(s, l)
  <2>1. UNCHANGED <<exam, rows, last, clash, stale>>
    BY <1>5 DEF TermExams!Commit
  <2>2. TermExams!GradeFits' /\ TermExams!LastTypedStands'
    BY <2>1 DEF MarksInv, TermExams!GradeFits, TermExams!LastTypedStands
  <2> QED
    BY <2>1, <2>2 DEF MarksInv, RowsRemain, RowsGone
<1>6. CASE \A l \in ClassList : TermExams!Applies(s, l)
  <2> HIDE DEF s
  <2>1. /\ rows' = [l \in ClassList |-> TermExams!Merged(s, l)]
        /\ last' = [l \in ClassList |-> IF l \in s.typed \/ last[l] = None THEN s.sent[l] ELSE last[l]]
        /\ clash' = clash \cup {l \in ClassList : s.seen[l] # rows[l]}
        /\ stale' = stale \cup {l \in ClassList \ s.typed : s.got[l] # rows[l]}
        /\ exam' = exam
    BY <1>6 DEF TermExams!Commit, s
  <2>2. ASSUME NEW l \in ClassList PROVE rows'[l] \in TermExams!Row \cup {None}
    <3>1. CASE s.seen[l] = None \/ s.seen[l] = TermExams!Written(s, l)
      BY <1>3, <1>4, <2>1, <3>1 DEF TermExams!Merged
    <3>2. CASE s.seen[l] # None /\ s.seen[l] # TermExams!Written(s, l)
      <4>1. exam /\ rows[l] # None
        BY <1>6, <3>2 DEF TermExams!Applies
      <4>2. rows[l] \in TermExams!Row /\ TermExams!Written(s, l) \in TermExams!Row
        BY <1>3, <1>4, <4>1
      <4>3. TermExams!Merged(s, l) =
              [marks |-> IF TermExams!Written(s, l).marks = s.seen[l].marks THEN rows[l].marks ELSE TermExams!Written(s, l).marks,
               grade |-> IF TermExams!Written(s, l).grade = s.seen[l].grade THEN rows[l].grade ELSE TermExams!Written(s, l).grade]
        BY <3>2 DEF TermExams!Merged
      <4>4. rows[l].marks \in TermExams!Marks /\ rows[l].grade \in TermExams!Grades
            /\ TermExams!Written(s, l).marks \in TermExams!Marks /\ TermExams!Written(s, l).grade \in TermExams!Grades
        BY <4>2 DEF TermExams!Row
      <4>5. TermExams!Merged(s, l) \in TermExams!Row
        BY <4>3, <4>4 DEF TermExams!Row
      <4> QED
        BY <2>1, <4>5
    <3> QED
      BY <3>1, <3>2
  <2>3. ASSUME exam, NEW l \in ClassList PROVE rows'[l] # None
    <3>1. CASE s.seen[l] = None
      BY <1>3, <2>1, <3>1 DEF TermExams!Merged
    <3>2. CASE s.seen[l] # None /\ s.seen[l] = TermExams!Written(s, l)
      <4>1. rows[l] # None
        BY <1>2, <1>3, <2>3, <3>2 DEF MarksInv, RowsRemain, s
      <4> QED
        BY <2>1, <3>2, <4>1 DEF TermExams!Merged
    <3>3. CASE s.seen[l] # None /\ s.seen[l] # TermExams!Written(s, l)
      <4>1. TermExams!Merged(s, l) =
              [marks |-> IF TermExams!Written(s, l).marks = s.seen[l].marks THEN rows[l].marks ELSE TermExams!Written(s, l).marks,
               grade |-> IF TermExams!Written(s, l).grade = s.seen[l].grade THEN rows[l].grade ELSE TermExams!Written(s, l).grade]
        BY <3>3 DEF TermExams!Merged
      <4>2. rows[l] \in TermExams!Row /\ s.seen[l] \in TermExams!Row /\ TermExams!Written(s, l) \in TermExams!Row
        BY <1>2, <1>3, <1>4, <1>6, <3>3 DEF TermExams!Applies, TermExams!Rows
      <4>3. rows[l].marks \in TermExams!Marks /\ rows[l].grade \in TermExams!Grades
            /\ TermExams!Written(s, l).marks \in TermExams!Marks /\ TermExams!Written(s, l).grade \in TermExams!Grades
        BY <4>2 DEF TermExams!Row
      <4>4. TermExams!Merged(s, l) \in TermExams!Row
        BY <4>1, <4>3 DEF TermExams!Row
      <4> QED
        BY <2>1, <4>4, ExamsAssumed
    <3> QED
      BY <3>1, <3>2, <3>3
  <2>4. ASSUME ~exam, NEW l \in ClassList PROVE rows'[l] = None
    <3>1. s.seen[l] = TermExams!Written(s, l) /\ rows[l] = None
      BY <1>6, <2>4 DEF TermExams!Applies, MarksInv, RowsGone
    <3> QED
      BY <1>3, <2>1, <3>1 DEF TermExams!Merged
  <2>5. ASSUME NEW l \in ClassList \ clash'
        PROVE  s.seen[l] = rows[l] /\ l \notin clash /\ rows'[l] = TermExams!Written(s, l)
    BY <2>1, <2>5, MergedRow
  <2>6. TermExams!GradeFits'
    BY <1>3, <2>5 DEF TermExams!GradeFits
  <2>7. ASSUME NEW l \in ClassList \ (clash' \cup stale'), rows'[l] # None PROVE rows'[l].marks = last'[l]
    <3>1. rows'[l].marks = s.sent[l]
      BY <1>3, <2>5, <2>7
    <3>2. CASE l \in s.typed \/ last[l] = None
      BY <2>1, <3>1, <3>2
    <3>3. CASE l \notin s.typed /\ last[l] # None
      <4>1. s.got[l] = rows[l] /\ l \notin clash /\ l \notin stale /\ exam
        BY <2>1, <2>4, <2>7, <3>3
      <4>2. s.sent[l] = ShownOf(rows[l]) /\ rows[l] # None
        BY <1>1, <3>3, <4>1 DEF MarksInv, RowsRemain, SentAsGot, s
      <4>3. rows[l].marks = last[l]
        BY <4>1, <4>2 DEF MarksInv, TermExams!LastTypedStands
      <4> QED
        BY <2>1, <3>1, <3>3, <4>2, <4>3 DEF ShownOf
    <3> QED
      BY <3>2, <3>3
  <2>8. TermExams!LastTypedStands'
    BY <2>7 DEF TermExams!LastTypedStands
  <2>9. rows' \in TermExams!Rows
    BY <2>1, <2>2 DEF TermExams!Rows
  <2> QED
    BY <2>3, <2>4, <2>6, <2>8, <2>9
<1> QED
  BY <1>5, <1>6

\* A page is opened, closed, typed on or answered: the requests stay, or are
\* done.
LEMMA PagesInv ==
  ASSUME MarksInv, NEW p \in Requests,
         \/ TermExams!OpenPage(p) \/ TermExams!ClosePage(p) \/ TermExams!Refetch(p)
         \/ \E l \in ClassList : \E m \in Entered[l] : TermExams!Type(p, l, m)
  PROVE  MarksInv'
<1>1. UNCHANGED <<exam, rows, last, clash, stale>>
  BY DEF TermExams!OpenPage, TermExams!ClosePage, TermExams!Refetch, TermExams!Type
<1>2. [l \in {} |-> 0] \in TermExams!Typed /\ TermExams!NoRows \in TermExams!Rows /\ rows \in TermExams!Rows
  <2>1. [l \in {} |-> 0] \in [{} -> TermExams!Marks]
    OBVIOUS
  <2> QED
    BY <2>1, TypedMarks DEF TermExams!NoRows, TermExams!Rows, MarksInv
<1>3. page' \in [Requests -> [open : BOOLEAN, got : TermExams!Rows, typed : TermExams!Typed]]
  <2>1. CASE TermExams!OpenPage(p) \/ TermExams!ClosePage(p) \/ TermExams!Refetch(p)
    <3>1. page' \in {[page EXCEPT ![p] = [open |-> TRUE, got |-> rows, typed |-> [l \in {} |-> 0]]],
                     [page EXCEPT ![p] = TermExams!Closed], [page EXCEPT ![p] = page[p]]}
      BY <2>1 DEF TermExams!OpenPage, TermExams!ClosePage, TermExams!Refetch
    <3>2. /\ [open |-> TRUE, got |-> rows, typed |-> [l \in {} |-> 0]] \in [open : BOOLEAN, got : TermExams!Rows, typed : TermExams!Typed]
          /\ TermExams!Closed \in [open : BOOLEAN, got : TermExams!Rows, typed : TermExams!Typed]
      BY <1>2 DEF TermExams!Closed
    <3> QED
      BY <3>1, <3>2 DEF MarksInv
  <2>2. CASE \E l \in ClassList : \E m \in Entered[l] : TermExams!Type(p, l, m)
    <3>0. PICK l \in ClassList : \E m \in Entered[l] : TermExams!Type(p, l, m)
      BY <2>2
    <3>1. PICK m \in Entered[l] : TermExams!Type(p, l, m)
      BY <3>0
    <3> DEFINE t == page[p].typed
               t2 == [k \in DOMAIN t \cup {l} |-> IF k = l THEN m ELSE t[k]]
    <3>2. t \in TermExams!Typed
      BY DEF MarksInv
    <3>3. DOMAIN t \cup {l} \in SUBSET ClassList /\ t2 \in [DOMAIN t \cup {l} -> TermExams!Marks]
      BY <3>2, TypedMarks, ExamsAssumed
    <3>4. t2 \in TermExams!Typed
      BY <3>3, TypedMarks
    <3>5. page' = [page EXCEPT ![p].typed = t2]
      BY <3>1 DEF TermExams!Type
    <3> HIDE DEF t2
    <3> QED
      BY <3>4, <3>5 DEF MarksInv
  <2> QED
    BY <2>1, <2>2
<1>4. save' = save \/ save' = [save EXCEPT ![p] = TermExams!NoSave]
  BY DEF TermExams!OpenPage, TermExams!ClosePage, TermExams!Refetch, TermExams!Type
<1>5. /\ TermExams!NoSave \in [at : {"none", "read", "answered"}, sent : [ClassList -> TermExams!Marks],
                            typed : SUBSET ClassList, got : TermExams!Rows, next : Nat, seen : TermExams!Rows]
      /\ TermExams!NoSave.at = "none" /\ \A l \in ClassList : TermExams!NoSave.seen[l] = None
  BY <1>2, ExamsAssumed DEF TermExams!NoSave, TermExams!NoRows
<1>6. TermExams!GradeFits' /\ TermExams!LastTypedStands'
  BY <1>1 DEF MarksInv, TermExams!GradeFits, TermExams!LastTypedStands
<1>7. CASE save' = save
  BY <1>1, <1>3, <1>6, <1>7 DEF MarksInv, SentAsGot, RowsRemain, RowsGone
<1>8. CASE save' = [save EXCEPT ![p] = TermExams!NoSave]
  <2> HIDE DEF TermExams!NoSave
  <2>1. save'[p] = TermExams!NoSave /\ \A q \in Requests \ {p} : save'[q] = save[q]
    BY <1>8 DEF MarksInv
  <2>2. save' \in [Requests -> [at : {"none", "read", "answered"}, sent : [ClassList -> TermExams!Marks],
                            typed : SUBSET ClassList, got : TermExams!Rows, next : Nat, seen : TermExams!Rows]]
    BY <1>5, <1>8 DEF MarksInv
  <2>3. \A q \in Requests : save'[q].at = "read" => q # p
    BY <1>5, <2>1
  <2>4. SentAsGot'
    BY <2>1, <2>3 DEF MarksInv, SentAsGot
  <2>5. RowsRemain' /\ RowsGone'
    BY <1>1, <1>5, <2>1 DEF MarksInv, RowsRemain, RowsGone
  <2>6. (rows \in TermExams!Rows)'
    BY <1>1 DEF MarksInv
  <2> QED
    BY <1>3, <1>6, <2>2, <2>4, <2>5, <2>6 DEF MarksInv
<1> QED
  BY <1>4, <1>7, <1>8

\* A request whose place and rows change keeps the rest.
LEMMA ReadsOn ==
  ASSUME NEW At, NEW Sent, NEW Keys, NEW Got, NEW Next1, NEW Seen,
         NEW t \in [at : At, sent : Sent, typed : Keys, got : Got, next : Next1, seen : Seen],
         NEW n \in Next1, NEW r \in Seen
  PROVE  LET s == [t EXCEPT !.next = n, !.seen = r] IN
         /\ s \in [at : At, sent : Sent, typed : Keys, got : Got, next : Next1, seen : Seen]
         /\ s.at = t.at /\ s.sent = t.sent /\ s.typed = t.typed /\ s.got = t.got /\ s.seen = r
<1> DEFINE s == [t EXCEPT !.next = n, !.seen = r]
<1>1. s \in [at : At, sent : Sent, typed : Keys, got : Got, next : Next1, seen : Seen]
  OBVIOUS
<1>2. s.at = t.at /\ s.sent = t.sent
  OBVIOUS
<1>3. s.typed = t.typed /\ s.got = t.got /\ s.seen = r
  OBVIOUS
<1> QED
  BY <1>1, <1>2, <1>3

\* A save sends the sheet, a request reads on.
LEMMA SavesInv ==
  ASSUME MarksInv, NEW p \in Requests, TermExams!Save(p) \/ TermExams!ReadRow(p)
  PROVE  MarksInv'
<1>1. UNCHANGED <<exam, rows, page, last, clash, stale>>
  BY DEF TermExams!Save, TermExams!ReadRow
<1>2. TermExams!GradeFits' /\ TermExams!LastTypedStands'
  BY <1>1 DEF MarksInv, TermExams!GradeFits, TermExams!LastTypedStands
<1>3. CASE TermExams!Save(p)
  <2> DEFINE pg == page[p]
             s == [at |-> "read", sent |-> TermExams!Sheet(pg), typed |-> DOMAIN pg.typed,
                   got |-> pg.got, next |-> 1, seen |-> TermExams!NoRows]
  <2>1. pg.got \in [ClassList -> TermExams!Row \cup {None}] /\ pg.typed \in TermExams!Typed
    BY DEF MarksInv, TermExams!Rows
  <2>2. DOMAIN pg.typed \subseteq ClassList /\ \A l \in DOMAIN pg.typed : pg.typed[l] \in TermExams!Marks
    BY <2>1, TypedMarks
  <2>3. /\ TermExams!Sheet(pg) \in [ClassList -> TermExams!Marks]
        /\ \A l \in ClassList \ DOMAIN pg.typed : TermExams!Sheet(pg)[l] = ShownOf(pg.got[l])
    <3>1. \A l \in ClassList : pg.got[l] # None => pg.got[l].marks \in TermExams!Marks
      BY <2>1 DEF TermExams!Row
    <3> HIDE DEF pg
    <3> QED
      BY <2>2, <3>1, ExamsAssumed DEF TermExams!Sheet, ShownOf
  <2>4. TermExams!NoRows \in TermExams!Rows
    BY DEF TermExams!NoRows, TermExams!Rows
  <2>5. save' = [save EXCEPT ![p] = s]
    BY <1>3 DEF TermExams!Save
  <2>6. /\ s \in [at : {"none", "read", "answered"}, sent : [ClassList -> TermExams!Marks],
                  typed : SUBSET ClassList, got : TermExams!Rows, next : Nat, seen : TermExams!Rows]
        /\ \A l \in ClassList \ s.typed : s.sent[l] = ShownOf(s.got[l])
        /\ \A l \in ClassList : s.seen[l] = None
    <3>1. \A l \in ClassList : TermExams!NoRows[l] = None
      BY DEF TermExams!NoRows
    <3>2. pg.got \in TermExams!Rows
      BY <2>1 DEF TermExams!Rows
    <3> HIDE DEF pg
    <3> QED
      BY <2>2, <2>3, <2>4, <3>1, <3>2
  <2> HIDE DEF s
  <2>7. save'[p] = s /\ \A q \in Requests \ {p} : save'[q] = save[q]
    BY <2>5 DEF MarksInv
  <2>8. save' \in [Requests -> [at : {"none", "read", "answered"}, sent : [ClassList -> TermExams!Marks],
                            typed : SUBSET ClassList, got : TermExams!Rows, next : Nat, seen : TermExams!Rows]]
    BY <2>5, <2>6 DEF MarksInv
  <2>9. SentAsGot'
    BY <2>6, <2>7 DEF MarksInv, SentAsGot
  <2>10. RowsRemain' /\ RowsGone'
    BY <1>1, <2>6, <2>7 DEF MarksInv, RowsRemain, RowsGone
  <2> QED
    BY <1>1, <1>2, <2>8, <2>9, <2>10 DEF MarksInv
<1>4. CASE TermExams!ReadRow(p)
  <2> DEFINE l == save[p].next
             read == [save[p].seen EXCEPT ![l] = rows[l]]
             s == [save[p] EXCEPT !.next = @ + 1, !.seen = read]
  <2>1. l \in ClassList /\ save' = [save EXCEPT ![p] = s]
    BY <1>4 DEF TermExams!ReadRow
  <2>2. /\ save[p] \in [at : {"none", "read", "answered"}, sent : [ClassList -> TermExams!Marks],
                        typed : SUBSET ClassList, got : TermExams!Rows, next : Nat, seen : TermExams!Rows]
        /\ rows \in [ClassList -> TermExams!Row \cup {None}]
    BY DEF MarksInv, TermExams!Rows
  <2>3. read \in TermExams!Rows /\ \A k \in ClassList : read[k] = IF k = l THEN rows[l] ELSE save[p].seen[k]
    BY <2>1, <2>2 DEF TermExams!Rows
  <2> HIDE DEF read
  <2>4. /\ s.at = save[p].at /\ s.sent = save[p].sent /\ s.typed = save[p].typed /\ s.got = save[p].got
        /\ s.seen = read
        /\ s \in [at : {"none", "read", "answered"}, sent : [ClassList -> TermExams!Marks],
                  typed : SUBSET ClassList, got : TermExams!Rows, next : Nat, seen : TermExams!Rows]
    <3>1. l + 1 \in Nat
      BY <2>2
    <3> QED
      BY <2>2, <2>3, <3>1, ReadsOn
  <2>5. \A k \in ClassList : s.seen[k] = IF k = l THEN rows[l] ELSE save[p].seen[k]
    BY <2>3, <2>4
  <2> HIDE DEF s
  <2>6. save'[p] = s /\ \A q \in Requests \ {p} : save'[q] = save[q]
    BY <2>1 DEF MarksInv
  <2>7. save' \in [Requests -> [at : {"none", "read", "answered"}, sent : [ClassList -> TermExams!Marks],
                            typed : SUBSET ClassList, got : TermExams!Rows, next : Nat, seen : TermExams!Rows]]
    BY <2>1, <2>4 DEF MarksInv
  <2>8. SentAsGot'
    BY <2>4, <2>6 DEF MarksInv, SentAsGot
  <2>9. RowsRemain' /\ RowsGone'
    BY <1>1, <2>5, <2>6 DEF MarksInv, RowsRemain, RowsGone
  <2> QED
    BY <1>1, <1>2, <2>7, <2>8, <2>9 DEF MarksInv
<1> QED
  BY <1>3, <1>4

\* A commit, and a deletion.
LEMMA CommitInv == ASSUME MarksInv, NEW p \in Requests, TermExams!Commit(p) PROVE MarksInv'
<1>1. exam' = exam /\ page' = page
  BY DEF TermExams!Commit
<1>2. PICK at \in {"none", "answered"} : save' = [save EXCEPT ![p] = [TermExams!NoSave EXCEPT !.at = at]]
  <2>1. TermExams!NoSave = [TermExams!NoSave EXCEPT !.at = "none"]
    BY DEF TermExams!NoSave
  <2> HIDE DEF TermExams!NoSave
  <2> QED
    BY <2>1 DEF TermExams!Commit
<1> DEFINE s == [TermExams!NoSave EXCEPT !.at = at]
<1>3. TermExams!NoRows \in TermExams!Rows /\ \A l \in ClassList : TermExams!NoRows[l] = None
  BY DEF TermExams!NoRows, TermExams!Rows
<1>4. /\ s \in [at : {"none", "read", "answered"}, sent : [ClassList -> TermExams!Marks],
                typed : SUBSET ClassList, got : TermExams!Rows, next : Nat, seen : TermExams!Rows]
      /\ s.at # "read" /\ s.seen = TermExams!NoRows
  BY <1>3, ExamsAssumed DEF TermExams!NoSave
<1> HIDE DEF s
<1>5. save' = [save EXCEPT ![p] = s]
  BY <1>2 DEF s
<1>6. save'[p] = s /\ \A q \in Requests \ {p} : save'[q] = save[q]
  BY <1>5 DEF MarksInv
<1>7. save' \in [Requests -> [at : {"none", "read", "answered"}, sent : [ClassList -> TermExams!Marks],
                          typed : SUBSET ClassList, got : TermExams!Rows, next : Nat, seen : TermExams!Rows]]
  BY <1>4, <1>5 DEF MarksInv
<1>8. SentAsGot'
  BY <1>4, <1>6 DEF MarksInv, SentAsGot
<1>9. /\ rows' \in TermExams!Rows
      /\ exam => \A l \in ClassList : rows'[l] = None => rows[l] = None /\ last'[l] = None
      /\ ~exam => \A l \in ClassList : rows'[l] = None
      /\ TermExams!GradeFits' /\ TermExams!LastTypedStands'
  BY CommitMarks
<1>10. RowsRemain' /\ RowsGone'
  BY <1>1, <1>3, <1>4, <1>6, <1>9 DEF MarksInv, RowsRemain, RowsGone
<1> QED
  BY <1>1, <1>7, <1>8, <1>9, <1>10 DEF MarksInv

\* Every step keeps the invariant.
LEMMA MarksNextInv == ASSUME MarksInv, TermExams!Next PROVE MarksInv'
<1>1. CASE TermExams!DeleteTermExam
  <2>1. exam' = FALSE /\ rows' = TermExams!NoRows /\ UNCHANGED <<page, save>>
    BY <1>1 DEF TermExams!DeleteTermExam
  <2>2. rows' \in TermExams!Rows /\ \A l \in ClassList : rows'[l] = None
    BY <2>1 DEF TermExams!NoRows, TermExams!Rows
  <2>3. TermExams!GradeFits' /\ TermExams!LastTypedStands'
    BY <2>2 DEF TermExams!GradeFits, TermExams!LastTypedStands
  <2>4. SentAsGot' /\ RowsRemain' /\ RowsGone'
    BY <2>1, <2>2 DEF MarksInv, SentAsGot, RowsRemain, RowsGone
  <2> QED
    BY <2>1, <2>2, <2>3, <2>4 DEF MarksInv
<1> QED
  BY <1>1, PagesInv, SavesInv, CommitInv DEF TermExams!Next

\* The invariant holds throughout.
LEMMA MarksInvariance == PlatformSpec => [](part = "exams" => MarksInv)
<1>1. PlatformInit => (part = "exams" => MarksInv)
  <2> SUFFICES ASSUME PlatformInit, part = "exams" PROVE MarksInv
    OBVIOUS
  <2>1. TermExams!Init
    BY DEF PlatformInit
  <2>2. TermExams!NoRows \in TermExams!Rows /\ \A l \in ClassList : TermExams!NoRows[l] = None
    BY DEF TermExams!NoRows, TermExams!Rows
  <2>3. \A l \in ClassList : last[l] # None => last[l] \in TermExams!Marks
    BY <2>1 DEF TermExams!Init
  <2>4. ASSUME NEW l \in ClassList
        PROVE  /\ rows[l] \in TermExams!Row \cup {None} /\ (rows[l] = None <=> last[l] = None)
               /\ rows[l] # None => rows[l].marks = last[l] /\ rows[l].grade = TermExams!GradeShown(last[l], MaxMarks)
    <3>1. rows[l] = IF last[l] = None THEN None
                    ELSE [marks |-> last[l], grade |-> TermExams!ComputeGrade(last[l], MaxMarks)]
      BY <2>1 DEF TermExams!Init
    <3>2. TermExams!ComputeGrade(last[l], MaxMarks) \in TermExams!Grades
      BY DEF TermExams!ComputeGrade, TermExams!Grades
    <3>3. last[l] # None => [marks |-> last[l], grade |-> TermExams!ComputeGrade(last[l], MaxMarks)] \in TermExams!Row
      BY <2>3, <3>2 DEF TermExams!Row
    <3>4. CASE last[l] = None
      BY <3>1, <3>4
    <3>5. CASE last[l] # None
      <4>1. rows[l] = [marks |-> last[l], grade |-> TermExams!ComputeGrade(last[l], MaxMarks)]
        BY <3>1, <3>5
      <4>2. rows[l] # None
        BY <3>3, <3>5, <4>1, ExamsAssumed
      <4>3. TermExams!ComputeGrade(last[l], MaxMarks) = TermExams!GradeShown(last[l], MaxMarks)
        BY <2>3, <3>5, GradesAgree, ExamsAssumed
      <4> QED
        BY <3>3, <3>5, <4>1, <4>2, <4>3
    <3> QED
      BY <3>4, <3>5
  <2>5. rows \in TermExams!Rows
    BY <2>1, <2>4 DEF TermExams!Init, TermExams!Rows
  <2>6. TermExams!GradeFits /\ TermExams!LastTypedStands
    BY <2>4 DEF TermExams!GradeFits, TermExams!LastTypedStands
  <2>7. page \in [Requests -> [open : BOOLEAN, got : TermExams!Rows, typed : TermExams!Typed]]
    <3>1. [l \in {} |-> 0] \in [{} -> TermExams!Marks]
      OBVIOUS
    <3>2. [l \in {} |-> 0] \in TermExams!Typed
      BY <3>1, TypedMarks
    <3>3. page = [p \in Requests |-> TermExams!Closed]
      BY <2>1 DEF TermExams!Init
    <3> QED
      BY <2>2, <3>2, <3>3 DEF TermExams!Closed
  <2>8. /\ save \in [Requests -> [at : {"none", "read", "answered"}, sent : [ClassList -> TermExams!Marks],
                          typed : SUBSET ClassList, got : TermExams!Rows, next : Nat, seen : TermExams!Rows]]
        /\ \A p \in Requests : save[p].at = "none" /\ save[p].seen = TermExams!NoRows
    <3>1. save = [p \in Requests |-> TermExams!NoSave]
      BY <2>1 DEF TermExams!Init
    <3> QED
      BY <2>2, <3>1, ExamsAssumed DEF TermExams!NoSave
  <2>9. exam = TRUE
    BY <2>1 DEF TermExams!Init
  <2>10. SentAsGot /\ RowsRemain /\ RowsGone
    BY <2>2, <2>4, <2>8, <2>9 DEF SentAsGot, RowsRemain, RowsGone
  <2> QED
    BY <2>5, <2>6, <2>7, <2>8, <2>10 DEF MarksInv
<1>2. (part = "exams" => MarksInv) /\ [PlatformNext]_allVars => (part = "exams" => MarksInv)'
  <2>1. ASSUME MarksInv, UNCHANGED <<exam, rows, page, save, last, clash, stale, saves>> PROVE MarksInv'
    BY <2>1 DEF MarksInv, SentAsGot, RowsRemain, RowsGone, TermExams!GradeFits, TermExams!LastTypedStands
  <2>2. part = "exams" /\ [PlatformNext]_allVars =>
          TermExams!Next \/ UNCHANGED <<exam, rows, page, save, last, clash, stale, saves>>
    BY DEF PlatformNext, Only, allVars
  <2> QED
    BY <2>1, <2>2, PartStays, MarksNextInv
<1> QED
  BY <1>1, <1>2, PTL DEF PlatformSpec

\* A mark sheet holds what was typed last, with the grade of those marks, but
\* for requests that overlapped and pages that were out of date
\* (upsert_exam_scores, SBAMarksEntryPage).
THEOREM MarksStandUntilTyped == PlatformSpec => []MarksStand
<1>1. (part = "exams" => MarksInv) => MarksStand
  BY DEF MarksInv, MarksStand, TermExams!MarksStand
<1> QED
  BY <1>1, MarksInvariance, PTL
-----------------------------------------------------------------------------
(* Assessments: items have ids of their own, pages show what was saved.    *)

\* What is assumed of items, rows and the empty page.
LEMMA ItemsAssumed ==
  /\ MaxItems \in Nat /\ {Blank, Generated} \subseteq ItemTexts
  /\ AssessmentIds \subseteq Nat \ {0} /\ None \notin AssessmentIds \cup Requests
  /\ DOMAIN FirstRows \subseteq AssessmentIds
  /\ \A a \in DOMAIN FirstRows :
       /\ FirstRows[a] \in [items : Seq(Assessments!Item), gone : {FALSE}]
       /\ Assessments!Distinct(FirstRows[a].items)
BY PlatformAssumption DEF PlatformAssumption, Assessments!AssessmentsAssumption

\* A list has items by their positions.
Listed(list) == DOMAIN list \subseteq Nat /\ \A i \in DOMAIN list : list[i] \in Assessments!Item

\* The ids of a draft are its positions, until one but the last is taken out.
DraftInv ==
  /\ newItems \in Seq(Assessments!Item)
  /\ Assessments!NewDraft \in holed \/ \A i \in DOMAIN newItems : newItems[i].id = i

\* The list of row a is one of its, where it comes from a draft or edits.
OfRow(a, list) == Listed(list) /\ (a \in holed \/ Assessments!Distinct(list))

RowInv(a) ==
  /\ DOMAIN assessments[a] = {"items", "gone"} /\ OfRow(a, assessments[a].items)
  /\ assessments[a].gone \in BOOLEAN /\ (assessments[a].gone => a \in logged)

PageInv(p) ==
  details[p] # Assessments!Closed =>
    /\ DOMAIN details[p] = {"on", "shown", "cached"}
    /\ details[p].on \in DOMAIN assessments
    /\ OfRow(details[p].on, details[p].shown) /\ OfRow(details[p].on, details[p].cached)

PatchInv(r) ==
  patch[r] # Assessments!NoPatch =>
    /\ DOMAIN patch[r] = {"at", "page", "on", "items", "seen"}
    /\ patch[r].at \in {"sent", "loaded", "answered"} /\ patch[r].page \in Requests \cup {None}
    /\ patch[r].on \in DOMAIN assessments /\ OfRow(patch[r].on, patch[r].items)
    /\ patch[r].page \in Requests => /\ details[patch[r].page] # Assessments!Closed
                                     /\ details[patch[r].page].on = patch[r].on

\* A page that is not apart has one request at most, which sends what the page
\* shows; while the handler holds what it loaded, that is what is stored, and
\* with the answer the list is.
ShownInv(p) ==
  details[p] # Assessments!Closed =>
    LET list == assessments[details[p].on].items
        of == {r \in Requests : patch[r].page = p} IN
    /\ \A r, q \in of : r = q
    /\ of = {} /\ Assessments!Live(details[p].on) => details[p].shown = list
    /\ \A r \in of :
         /\ details[p].shown = patch[r].items
         /\ patch[r].at = "loaded" => patch[r].seen = list
         /\ patch[r].at = "answered" => patch[r].items = list

\* They hold together.
ItemsInv ==
  /\ DraftInv
  /\ DOMAIN assessments \subseteq AssessmentIds /\ deleting \subseteq logged \cap DOMAIN assessments
  /\ details = [p \in Requests |-> details[p]] /\ patch = [r \in Requests |-> patch[r]]
  /\ \A a \in DOMAIN assessments : RowInv(a)
  /\ \A r \in Requests : PageInv(r) /\ PatchInv(r)
  /\ \A p \in Requests \ apart : ShownInv(p)

\* A page and a request are there or are the empty ones, by what they are on.
LEMMA PagesOn ==
  ASSUME ItemsInv
  PROVE  /\ DOMAIN details = Requests /\ DOMAIN patch = Requests
         /\ \A p \in Requests : details[p] = Assessments!Closed \/ (details[p].on \in DOMAIN assessments /\ details[p].on # None)
         /\ \A r \in Requests : patch[r].page \in Requests => patch[r] # Assessments!NoPatch
<1>1. DOMAIN details = Requests /\ DOMAIN patch = Requests
  BY DEF ItemsInv
<1>2. \A p \in Requests : details[p] = Assessments!Closed \/ (details[p].on \in DOMAIN assessments /\ details[p].on # None)
  BY ItemsAssumed DEF ItemsInv, PageInv
<1>3. Assessments!NoPatch.page = None
  BY DEF Assessments!NoPatch
<1> QED
  BY <1>1, <1>2, <1>3, ItemsAssumed

\* A step of the draft or of a deletion, which adds rows, or marks them, and
\* leaves the pages.
LEMMA ItemsFrame ==
  ASSUME ItemsInv, DraftInv', UNCHANGED <<details, patch, apart>>,
         DOMAIN assessments \subseteq DOMAIN assessments', DOMAIN assessments' \subseteq AssessmentIds,
         deleting' \subseteq logged' \cap DOMAIN assessments',
         holed \subseteq holed' \cup {Assessments!NewDraft},
         \A a \in DOMAIN assessments' : RowInv(a)',
         \A a \in DOMAIN assessments :
           assessments'[a].items = assessments[a].items /\ (assessments[a].gone => assessments'[a].gone)
  PROVE  ItemsInv'
<1>1. \A a \in DOMAIN assessments : a \in holed => a \in holed'
  BY ItemsAssumed DEF ItemsInv, Assessments!NewDraft
<1>2. ASSUME NEW p \in Requests PROVE PageInv(p)'
  BY <1>1 DEF ItemsInv, PageInv, OfRow
<1>3. ASSUME NEW r \in Requests PROVE PatchInv(r)'
  BY <1>1 DEF ItemsInv, PatchInv, OfRow
<1>4. ASSUME NEW p \in Requests \ apart PROVE ShownInv(p)'
  <2> SUFFICES ASSUME details[p] # Assessments!Closed PROVE ShownInv(p)'
    BY DEF ShownInv
  <2>1. details[p].on \in DOMAIN assessments /\ ShownInv(p)
    BY DEF ItemsInv, PageInv
  <2>2. Assessments!Live(details[p].on)' => Assessments!Live(details[p].on)
    BY <2>1 DEF Assessments!Live
  <2> QED
    BY <2>1, <2>2 DEF ShownInv
<1> QED
  BY <1>2, <1>3, <1>4 DEF ItemsInv

\* The ids that are positions differ.
LEMMA PositionsDiffer ==
  \A list : (\A i \in DOMAIN list : list[i].id = i) => Assessments!Distinct(list)
BY DEF Assessments!Distinct

\* What is left of a draft when an item is taken off.
LEMMA TakenOff ==
  ASSUME NEW list \in Seq(Assessments!Item), NEW i \in DOMAIN list
  PROVE  /\ Assessments!RemoveAt(list, i) \in Seq(Assessments!Item)
         /\ Assessments!Len(Assessments!RemoveAt(list, i)) = Assessments!Len(list) - 1
         /\ i = Assessments!Len(list) =>
              \A j \in DOMAIN Assessments!RemoveAt(list, i) : Assessments!RemoveAt(list, i)[j] = list[j]
<1> DEFINE n == Assessments!Len(list)
           front == Assessments!SubSeq(list, 1, i - 1)
           back == Assessments!SubSeq(list, i + 1, n)
<1>1. n \in Nat /\ i \in 1 .. n
  OBVIOUS
<1>2. /\ front \in Seq(Assessments!Item) /\ Assessments!Len(front) = i - 1
      /\ \A j \in 1 .. i - 1 : front[j] = list[j]
  BY <1>1
<1>3. back \in Seq(Assessments!Item) /\ Assessments!Len(back) = n - i
  BY <1>1
<1>4. Assessments!RemoveAt(list, i) = front \o back
  BY DEF Assessments!RemoveAt
<1> HIDE DEF front, back
<1> QED
  BY <1>1, <1>2, <1>3, <1>4

\* A step of the draft that leaves the rows.
LEMMA DraftSteps ==
  ASSUME ItemsInv, DraftInv', Assessments!DraftOnly,
         holed \subseteq holed' \cup {Assessments!NewDraft}, holed' \subseteq holed \cup {Assessments!NewDraft}
  PROVE  ItemsInv'
<1>1. UNCHANGED <<assessments, details, patch, deleting, logged, apart>>
  BY DEF Assessments!DraftOnly
<1>2. ASSUME NEW a \in DOMAIN assessments PROVE RowInv(a)'
  <2>1. a \in holed => a \in holed'
    BY ItemsAssumed DEF ItemsInv, Assessments!NewDraft
  <2> QED
    BY <1>1, <2>1 DEF ItemsInv, RowInv, OfRow
<1> QED
  BY <1>1, <1>2, ItemsFrame DEF ItemsInv

\* A new row has items of its own, or those of a draft or a row with a hole.
LEMMA RowPut ==
  ASSUME ItemsInv, DraftInv', UNCHANGED <<details, patch, deleting, logged, apart>>,
         NEW a \in AssessmentIds, NEW list, Assessments!IsNext(a), Assessments!Put(a, list), OfRow(a, list)',
         holed \subseteq holed' \cup {Assessments!NewDraft}
  PROVE  ItemsInv'
<1>1. /\ DOMAIN assessments' = DOMAIN assessments \cup {a} /\ a \notin DOMAIN assessments
      /\ assessments'[a] = [items |-> list, gone |-> FALSE]
      /\ \A b \in DOMAIN assessments : assessments'[b] = assessments[b]
  BY DEF Assessments!IsNext, Assessments!Put
<1>2. ASSUME NEW b \in DOMAIN assessments PROVE RowInv(b)'
  <2>1. b \in holed => b \in holed'
    BY ItemsAssumed DEF ItemsInv, Assessments!NewDraft
  <2> QED
    BY <1>1, <2>1 DEF ItemsInv, RowInv, OfRow
<1>3. RowInv(a)'
  BY <1>1 DEF RowInv
<1> QED
  BY <1>1, <1>2, <1>3, ItemsFrame DEF ItemsInv

\* The draft is filled, changed, and becomes a row; a row is copied.
LEMMA MakingInv == ASSUME ItemsInv, Assessments!MakingActs PROVE ItemsInv'
<1> USE ItemsAssumed
<1>1. CASE Assessments!AskGenerate \/ Assessments!GenerateFails
  <2>1. Assessments!DraftOnly /\ newItems' = newItems /\ holed' = holed
    BY <1>1 DEF Assessments!AskGenerate, Assessments!GenerateFails
  <2>2. DraftInv'
    BY <2>1 DEF ItemsInv, DraftInv
  <2> QED
    BY <2>1, <2>2, DraftSteps
<1>2. ASSUME NEW n \in 1 .. MaxItems, NEW ids \in [1 .. n -> 1 .. MaxItems], Assessments!Generate(ids) PROVE ItemsInv'
  <2>1. /\ Assessments!DraftOnly
        /\ holed' = IF \A i \in DOMAIN ids : ids[i] = i THEN holed \ {Assessments!NewDraft}
                    ELSE holed \cup {Assessments!NewDraft}
        /\ newItems' = [i \in DOMAIN ids |-> [id |-> ids[i], text |-> Generated]]
    BY <1>2 DEF Assessments!Generate
  <2>2. newItems' = [i \in 1 .. n |-> [id |-> ids[i], text |-> Generated]]
    BY <2>1
  <2>3. newItems' \in Seq(Assessments!Item) /\ DOMAIN newItems' = 1 .. n
    BY <2>2 DEF Assessments!Item
  <2>4. Assessments!NewDraft \in holed' \/ \A i \in DOMAIN newItems' : newItems'[i].id = i
    BY <2>1, <2>2
  <2>5. holed' \in {holed \ {Assessments!NewDraft}, holed \cup {Assessments!NewDraft}}
    BY <2>1
  <2>6. DraftInv'
    BY <2>3, <2>4 DEF DraftInv
  <2> QED
    BY <2>1, <2>5, <2>6, DraftSteps
<1>3. CASE Assessments!AddItem
  <2>1. /\ Assessments!DraftOnly /\ holed' = holed /\ Assessments!Len(newItems) < MaxItems
        /\ newItems' = Assessments!Append(newItems, [id |-> Assessments!Len(newItems) + 1, text |-> Blank])
    BY <1>3 DEF Assessments!AddItem, Assessments!NewId
  <2>2. [id |-> Assessments!Len(newItems) + 1, text |-> Blank] \in Assessments!Item
    BY <2>1 DEF Assessments!Item, ItemsInv, DraftInv
  <2>3. DraftInv'
    BY <2>1, <2>2 DEF ItemsInv, DraftInv
  <2> QED
    BY <2>1, <2>3, DraftSteps
<1>4. ASSUME NEW i \in DOMAIN newItems, Assessments!RemoveItem(i) PROVE ItemsInv'
  <2> DEFINE n == Assessments!Len(newItems)
  <2>1. /\ Assessments!DraftOnly /\ newItems' = Assessments!RemoveAt(newItems, i)
        /\ holed' = CASE n = 1 -> holed \ {Assessments!NewDraft}
                      [] i < n -> holed \cup {Assessments!NewDraft}
                      [] OTHER -> holed
    BY <1>4 DEF Assessments!RemoveItem
  <2>2. newItems \in Seq(Assessments!Item) /\ n \in Nat /\ i \in 1 .. n
    BY DEF ItemsInv, DraftInv
  <2>3. newItems' \in Seq(Assessments!Item) /\ Assessments!Len(newItems') = n - 1
    BY <2>1, <2>2, TakenOff
  <2>4. Assessments!NewDraft \in holed' \/ \A j \in DOMAIN newItems' : newItems'[j].id = j
    <3>1. CASE n = 1
      BY <2>3, <3>1
    <3>2. CASE n # 1 /\ i < n
      BY <2>1, <3>2
    <3>3. CASE n # 1 /\ i = n
      <4>1. holed' = holed /\ \A j \in DOMAIN newItems' : newItems'[j] = newItems[j] /\ j \in DOMAIN newItems
        BY <2>1, <2>2, <2>3, <3>3, TakenOff
      <4> QED
        BY <4>1 DEF ItemsInv, DraftInv
    <3> QED
      BY <2>2, <3>1, <3>2, <3>3
  <2>5. holed \subseteq holed' \cup {Assessments!NewDraft} /\ holed' \subseteq holed \cup {Assessments!NewDraft}
    BY <2>1
  <2>6. DraftInv'
    BY <2>3, <2>4 DEF DraftInv
  <2> QED
    BY <2>1, <2>5, <2>6, DraftSteps
<1>5. ASSUME NEW i \in DOMAIN newItems, NEW t \in ItemTexts, Assessments!UpdateItem(i, t) PROVE ItemsInv'
  <2>1. Assessments!DraftOnly /\ holed' = holed /\ newItems' = [newItems EXCEPT ![i].text = t]
    BY <1>5 DEF Assessments!UpdateItem
  <2>2. newItems \in Seq(Assessments!Item)
    BY DEF ItemsInv, DraftInv
  <2> DEFINE changed == [newItems[i] EXCEPT !.text = t]
  <2>3. changed \in Assessments!Item /\ changed.id = newItems[i].id
    <3>1. newItems[i] \in Assessments!Item
      BY <2>2
    <3> QED
      BY <3>1 DEF Assessments!Item
  <2> HIDE DEF changed
  <2>4. newItems' = [newItems EXCEPT ![i] = changed]
    BY <2>1 DEF changed
  <2>5. /\ newItems' \in Seq(Assessments!Item) /\ DOMAIN newItems' = DOMAIN newItems
        /\ \A j \in DOMAIN newItems : newItems'[j].id = newItems[j].id
    BY <2>2, <2>3, <2>4
  <2>6. DraftInv'
    BY <2>1, <2>5 DEF ItemsInv, DraftInv
  <2> QED
    BY <2>1, <2>6, DraftSteps
<1>6. ASSUME NEW a \in AssessmentIds, NEW gone \in BOOLEAN, Assessments!Create(a, gone) PROVE ItemsInv'
  <2>1. /\ Assessments!IsNext(a) /\ Assessments!Put(a, newItems)
        /\ newItems' = IF gone THEN newItems ELSE <<>>
        /\ holed' = IF gone THEN Assessments!HoledBy(a, Assessments!NewDraft)
                    ELSE Assessments!HoledBy(a, Assessments!NewDraft) \ {Assessments!NewDraft}
        /\ UNCHANGED <<details, patch, deleting, logged, apart>>
    BY <1>6 DEF Assessments!Create
  <2>2. /\ holed \subseteq holed' \cup {Assessments!NewDraft}
        /\ Assessments!NewDraft \in holed => a \in holed' /\ (gone => Assessments!NewDraft \in holed')
    BY <2>1 DEF Assessments!HoledBy, Assessments!NewDraft
  <2>3. DraftInv'
    BY <2>1, <2>2 DEF ItemsInv, DraftInv
  <2>4. ASSUME NEW list, list = newItems PROVE OfRow(a, list)'
    BY <2>2, <2>4, PositionsDiffer DEF ItemsInv, DraftInv, OfRow, Listed
  <2> QED
    BY <2>1, <2>2, <2>3, <2>4, RowPut
<1>7. ASSUME NEW a \in AssessmentIds, NEW b \in AssessmentIds, Assessments!DuplicateAssessment(a, b) PROVE ItemsInv'
  <2>1. /\ Assessments!Live(a) /\ Assessments!IsNext(b) /\ Assessments!Put(b, assessments[a].items)
        /\ holed' = Assessments!HoledBy(b, a)
        /\ UNCHANGED <<newItems, details, patch, deleting, logged, apart>>
        /\ b \in Nat \ {0}
    BY <1>7 DEF Assessments!DuplicateAssessment
  <2>2. /\ holed \subseteq holed' /\ (a \in holed => b \in holed')
        /\ Assessments!NewDraft \in holed' <=> Assessments!NewDraft \in holed
    BY <2>1 DEF Assessments!HoledBy, Assessments!NewDraft
  <2>3. DraftInv'
    BY <2>1, <2>2 DEF ItemsInv, DraftInv
  <2>4. ASSUME NEW list, list = assessments[a].items PROVE OfRow(b, list)'
    BY <2>1, <2>2, <2>4 DEF ItemsInv, RowInv, OfRow, Listed, Assessments!Live
  <2> QED
    BY <2>1, <2>2, <2>3, <2>4, RowPut
<1> QED
  BY <1>1, <1>2, <1>3, <1>4, <1>5, <1>6, <1>7 DEF Assessments!MakingActs

\* A deletion is logged, made, or stops between.
LEMMA DeletingInv == ASSUME ItemsInv, Assessments!DeletingActs PROVE ItemsInv'
<1>1. PICK a \in AssessmentIds :
        Assessments!LogDeletion(a) \/ Assessments!MarkDeleted(a) \/ Assessments!DeletionStops(a)
  BY DEF Assessments!DeletingActs
<1>2. UNCHANGED <<newItems, details, patch, holed, apart>>
  BY <1>1 DEF Assessments!LogDeletion, Assessments!MarkDeleted, Assessments!DeletionStops
<1>3. DraftInv'
  BY <1>2 DEF ItemsInv, DraftInv
<1>4. logged \subseteq logged'
  BY <1>1 DEF Assessments!LogDeletion, Assessments!MarkDeleted, Assessments!DeletionStops
<1>5. DOMAIN assessments' = DOMAIN assessments /\ deleting' \subseteq logged' \cap DOMAIN assessments
  BY <1>1 DEF Assessments!LogDeletion, Assessments!MarkDeleted, Assessments!DeletionStops, Assessments!Live, ItemsInv
<1>6. ASSUME NEW b \in DOMAIN assessments
      PROVE  RowInv(b)' /\ assessments'[b].items = assessments[b].items /\ (assessments[b].gone => assessments'[b].gone)
  <2>1. DOMAIN assessments[b] = {"items", "gone"}
    BY DEF ItemsInv, RowInv
  <2>2. CASE assessments' = assessments
    BY <1>2, <1>4, <2>2 DEF ItemsInv, RowInv, OfRow
  <2>3. CASE assessments' = [assessments EXCEPT ![a].gone = TRUE] /\ a \in logged'
    <3>1. /\ DOMAIN assessments'[b] = {"items", "gone"} /\ assessments'[b].items = assessments[b].items
          /\ assessments'[b].gone = (b = a \/ assessments[b].gone)
      BY <2>1, <2>3 DEF ItemsInv, RowInv
    <3> QED
      BY <1>2, <1>4, <2>3, <3>1 DEF ItemsInv, RowInv, OfRow
  <2> QED
    BY <1>1, <2>2, <2>3 DEF Assessments!LogDeletion, Assessments!MarkDeleted, Assessments!DeletionStops, ItemsInv
<1> QED
  BY <1>2, <1>3, <1>5, <1>6, ItemsFrame DEF ItemsInv

\* A step of the pages and requests leaves the draft, the log, and the rows
\* there are.
LEMMA PageSteps ==
  ASSUME ItemsInv, UNCHANGED <<newItems, deleting, logged, holed>>, DOMAIN assessments' = DOMAIN assessments,
         details' = [p \in Requests |-> details'[p]], patch' = [r \in Requests |-> patch'[r]],
         \A a \in DOMAIN assessments : RowInv(a)',
         \A r \in Requests : PageInv(r)' /\ PatchInv(r)',
         \A p \in Requests \ apart' : ShownInv(p)'
  PROVE  ItemsInv'
BY DEF ItemsInv, DraftInv

\* The rows, when the step leaves them.
LEMMA RowsStay == ASSUME ItemsInv, UNCHANGED <<assessments, logged, holed>> PROVE \A a \in DOMAIN assessments : RowInv(a)'
BY DEF ItemsInv, RowInv, OfRow

\* A page stays as good as it was, when it, its requests and its row do.
LEMMA OthersShown ==
  ASSUME ItemsInv, NEW q \in Requests \ apart, details'[q] = details[q],
         \A r \in Requests : patch'[r].page = q <=> patch[r].page = q,
         \A r \in Requests : patch[r].page = q => patch'[r] = patch[r],
         DOMAIN assessments' = DOMAIN assessments,
         details[q] # Assessments!Closed => assessments'[details[q].on] = assessments[details[q].on]
  PROVE  ShownInv(q)'
<1> SUFFICES ASSUME details[q] # Assessments!Closed PROVE ShownInv(q)'
  BY DEF ShownInv
<1> DEFINE of == {r \in Requests : patch[r].page = q}
           list == assessments[details[q].on].items
<1>1. /\ \A r, s \in of : r = s
      /\ of = {} /\ Assessments!Live(details[q].on) => details[q].shown = list
      /\ \A r \in of :
           /\ details[q].shown = patch[r].items
           /\ patch[r].at = "loaded" => patch[r].seen = list
           /\ patch[r].at = "answered" => patch[r].items = list
  BY DEF ItemsInv, ShownInv
<1>2. {r \in Requests : patch'[r].page = q} = of /\ \A r \in of : patch'[r] = patch[r]
  OBVIOUS
<1>3. assessments'[details'[q].on].items = list /\ (Assessments!Live(details[q].on)' <=> Assessments!Live(details[q].on))
  BY DEF Assessments!Live
<1> HIDE DEF of, list
<1> QED
  BY <1>1, <1>2, <1>3 DEF ShownInv

\* A page is opened: it shows the row, and has no request.
LEMMA OpenInv ==
  ASSUME ItemsInv, NEW p \in Requests, NEW a \in AssessmentIds, Assessments!Open(p, a)
  PROVE  ItemsInv'
<1> USE PagesOn, ItemsAssumed
<1> DEFINE new == [on |-> a, shown |-> assessments[a].items, cached |-> assessments[a].items]
<1>1. /\ details[p] = Assessments!Closed /\ Assessments!Live(a) /\ details' = [details EXCEPT ![p] = new]
      /\ apart' = apart \ {p} /\ UNCHANGED <<newItems, assessments, patch, deleting, logged, holed>>
  BY DEF Assessments!Open
<1>2. details' = [q \in Requests |-> details'[q]] /\ details'[p] = new /\ \A q \in Requests \ {p} : details'[q] = details[q]
  BY <1>1
<1>3. \A r \in Requests : patch[r].page # p
  BY <1>1 DEF ItemsInv, PatchInv
<1>4. ASSUME NEW q \in Requests PROVE PageInv(q)'
  BY <1>1, <1>2 DEF ItemsInv, PageInv, RowInv, OfRow, Assessments!Live
<1>5. ASSUME NEW r \in Requests PROVE PatchInv(r)'
  BY <1>1, <1>2, <1>3 DEF ItemsInv, PatchInv, OfRow
<1>6. ASSUME NEW q \in Requests \ apart' PROVE ShownInv(q)'
  <2>1. CASE q = p
    BY <1>1, <1>2, <1>3, <2>1 DEF ShownInv
  <2>2. CASE q # p
    BY <1>1, <1>2, <2>2, OthersShown
  <2> QED
    BY <2>1, <2>2
<1> QED
  BY <1>1, <1>2, <1>4, <1>5, <1>6, RowsStay, PageSteps DEF ItemsInv

\* A page is closed; its requests are no page's.
LEMMA CloseInv ==
  ASSUME ItemsInv, NEW p \in Requests, Assessments!Close(p)
  PROVE  ItemsInv'
<1> USE PagesOn, ItemsAssumed
<1>1. /\ details' = [details EXCEPT ![p] = Assessments!Closed] /\ apart' = apart \ {p}
      /\ patch' = [r \in Requests |-> IF patch[r].page = p THEN [patch[r] EXCEPT !.page = None] ELSE patch[r]]
      /\ UNCHANGED <<newItems, assessments, deleting, logged, holed>>
  BY DEF Assessments!Close
<1>2. /\ details' = [q \in Requests |-> details'[q]] /\ details'[p] = Assessments!Closed
      /\ \A q \in Requests \ {p} : details'[q] = details[q]
      /\ patch' = [r \in Requests |-> patch'[r]]
  BY <1>1
<1>3. ASSUME NEW r \in Requests
      PROVE  /\ patch[r].page # p => patch'[r] = patch[r]
             /\ patch[r].page = p =>
                  /\ patch[r] # Assessments!NoPatch /\ DOMAIN patch'[r] = {"at", "page", "on", "items", "seen"}
                  /\ patch'[r].page = None /\ patch'[r].at = patch[r].at
                  /\ patch'[r].on = patch[r].on /\ patch'[r].items = patch[r].items
  <2>1. CASE patch[r].page = p
    <3>1. patch[r] # Assessments!NoPatch /\ DOMAIN patch[r] = {"at", "page", "on", "items", "seen"}
      BY <2>1 DEF ItemsInv, PatchInv
    <3>2. patch'[r] = [patch[r] EXCEPT !.page = None]
      BY <1>1, <2>1
    <3> QED
      BY <2>1, <3>1, <3>2
  <2> QED
    BY <1>1, <2>1
<1>4. ASSUME NEW q \in Requests PROVE PageInv(q)'
  BY <1>1, <1>2 DEF ItemsInv, PageInv, OfRow
<1>5. ASSUME NEW r \in Requests PROVE PatchInv(r)'
  <2>1. CASE patch[r].page = p
    BY <1>1, <1>3, <2>1 DEF ItemsInv, PatchInv, OfRow
  <2>2. CASE patch[r].page # p
    BY <1>1, <1>2, <1>3, <2>2 DEF ItemsInv, PatchInv, OfRow
  <2> QED
    BY <2>1, <2>2
<1>6. ASSUME NEW q \in Requests \ apart' PROVE ShownInv(q)'
  <2>1. CASE q = p
    BY <1>2, <2>1 DEF ShownInv
  <2>2. CASE q # p
    <3>1. /\ q \notin apart
          /\ \A r \in Requests : (patch'[r].page = q <=> patch[r].page = q) /\ (patch[r].page = q => patch'[r] = patch[r])
      BY <1>1, <1>3, <2>2
    <3> QED
      BY <1>1, <1>2, <2>2, <3>1, OthersShown
  <2> QED
    BY <2>1, <2>2
<1> QED
  BY <1>1, <1>2, <1>4, <1>5, <1>6, RowsStay, PageSteps DEF ItemsInv

\* A new list is shown and sent.
LEMMA ChangeInv ==
  ASSUME ItemsInv, NEW p \in Requests, NEW r \in Requests, NEW list,
         details[p] # Assessments!Closed, OfRow(details[p].on, list), Assessments!Change(p, r, list)
  PROVE  ItemsInv'
<1> USE PagesOn, ItemsAssumed
<1> DEFINE filled == Assessments!Filled(list, details[p].cached)
           sent == [at |-> "sent", page |-> p, on |-> details[p].on, items |-> list, seen |-> <<>>]
<1>1. /\ patch[r] = Assessments!NoPatch
      /\ details' = [details EXCEPT ![p].shown = filled] /\ patch' = [patch EXCEPT ![r] = sent]
      /\ apart' = IF filled # list \/ \E q \in Requests : patch[q].page = p THEN apart \cup {p} ELSE apart
      /\ UNCHANGED <<newItems, assessments, deleting, logged, holed>>
  BY DEF Assessments!Change
<1>2. /\ details' = [q \in Requests |-> details'[q]] /\ \A q \in Requests \ {p} : details'[q] = details[q]
      /\ patch' = [q \in Requests |-> patch'[q]] /\ patch'[r] = sent /\ \A q \in Requests \ {r} : patch'[q] = patch[q]
  BY <1>1
<1>3. PageInv(p) /\ details[p].on \in DOMAIN assessments /\ details[p].on # None /\ OfRow(details[p].on, filled)
  BY DEF ItemsInv, PageInv, Assessments!Filled
<1>4. /\ DOMAIN details'[p] = {"on", "shown", "cached"} /\ details'[p].on = details[p].on
      /\ details'[p].shown = filled /\ details'[p].cached = details[p].cached /\ details'[p] # Assessments!Closed
  BY <1>1, <1>3 DEF PageInv, Assessments!Closed
<1>5. ASSUME NEW q \in Requests PROVE PageInv(q)'
  BY <1>1, <1>2, <1>3, <1>4 DEF ItemsInv, PageInv, OfRow
<1>6. ASSUME NEW q \in Requests PROVE PatchInv(q)'
  <2>1. CASE q = r
    BY <1>1, <1>2, <1>3, <1>4, <2>1 DEF PatchInv, OfRow
  <2>2. CASE q # r
    <3>1. PatchInv(q) /\ patch'[q] = patch[q]
      BY <1>2, <2>2 DEF ItemsInv
    <3>2. \A s \in Requests : /\ details[s] # Assessments!Closed => details'[s] # Assessments!Closed
                             /\ details'[s].on = details[s].on
      BY <1>2, <1>4
    <3> QED
      BY <1>1, <3>1, <3>2 DEF PatchInv, OfRow
  <2> QED
    BY <2>1, <2>2
<1>7. ASSUME NEW q \in Requests \ apart' PROVE ShownInv(q)'
  <2>1. CASE q = p
    <3>1. filled = list /\ \A s \in Requests : patch'[s].page = p <=> s = r
      BY <1>1, <1>2, <2>1
    <3> QED
      BY <1>2, <1>4, <2>1, <3>1 DEF ShownInv
  <2>2. CASE q # p
    <3>1. /\ q \notin apart /\ patch[r].page # q
          /\ \A s \in Requests : (patch'[s].page = q <=> patch[s].page = q) /\ (patch[s].page = q => patch'[s] = patch[s])
      BY <1>1, <1>2, <2>2
    <3> QED
      BY <1>1, <1>2, <2>2, <3>1, OthersShown
  <2> QED
    BY <2>1, <2>2
<1> QED
  BY <1>1, <1>2, <1>5, <1>6, <1>7, RowsStay, PageSteps DEF ItemsInv

\* An item of a page that is open is edited or taken off: the ids are those
\* there were, in their order.
LEMMA EditInv ==
  ASSUME ItemsInv, NEW p \in Requests, NEW r \in Requests, NEW i \in DOMAIN details[p].shown, NEW t \in ItemTexts,
         Assessments!EditItem(p, r, i, t)
  PROVE  ItemsInv'
<1> DEFINE list == details[p].shown
           edited == [list[i] EXCEPT !.text = t]
           new == [j \in DOMAIN list |-> IF list[j].id = edited.id THEN edited ELSE list[j]]
<1>1. Assessments!Change(p, r, new)
  BY DEF Assessments!EditItem
<1>2. details[p] # Assessments!Closed
  BY DEF Assessments!Closed
<1>3. Listed(list) /\ (details[p].on \in holed \/ Assessments!Distinct(list))
  BY <1>2 DEF ItemsInv, PageInv, OfRow
<1>4. edited \in Assessments!Item /\ edited.id = list[i].id
  <2>1. list[i] \in Assessments!Item
    BY <1>3 DEF Listed
  <2> QED
    BY <2>1 DEF Assessments!Item
<1>5. DOMAIN new = DOMAIN list /\ \A j \in DOMAIN list : new[j] \in Assessments!Item /\ new[j].id = list[j].id
  <2> HIDE DEF edited
  <2> QED
    BY <1>3, <1>4 DEF Listed
<1> HIDE DEF new
<1>6. OfRow(details[p].on, new)
  BY <1>3, <1>5 DEF OfRow, Listed, Assessments!Distinct
<1> QED
  BY <1>1, <1>2, <1>6, ChangeInv

\* The items that remain are those with another id.
LEMMA RemoveInv ==
  ASSUME ItemsInv, NEW p \in Requests, NEW r \in Requests, NEW i \in DOMAIN details[p].shown,
         Assessments!RemoveShown(p, r, i)
  PROVE  ItemsInv'
<1> DEFINE list == details[p].shown
           kept == {j \in DOMAIN list : list[j].id # list[i].id}
<1>1. PICK at \in [1 .. Assessments!Cardinality(kept) -> kept] :
        /\ \A j, k \in DOMAIN at : j < k => at[j] < at[k]
        /\ Assessments!Change(p, r, [j \in DOMAIN at |-> list[at[j]]])
  BY DEF Assessments!RemoveShown
<1> DEFINE new == [j \in DOMAIN at |-> list[at[j]]]
<1>2. details[p] # Assessments!Closed
  BY DEF Assessments!Closed
<1>3. Listed(list) /\ (details[p].on \in holed \/ Assessments!Distinct(list))
  BY <1>2 DEF ItemsInv, PageInv, OfRow
<1>4. /\ DOMAIN new = DOMAIN at /\ \A j \in DOMAIN new : at[j] \in DOMAIN list /\ new[j] = list[at[j]]
      /\ \A j, k \in DOMAIN new : at[j] = at[k] => j = k
  <2>1. DOMAIN at \subseteq Int
    OBVIOUS
  <2>2. \A j, k \in DOMAIN at : j < k \/ k < j \/ j = k
    BY <2>1
  <2>3. \A j \in DOMAIN at : at[j] \in DOMAIN list /\ at[j] \in Int
    BY <1>3 DEF Listed
  <2>4. \A j, k \in DOMAIN at : at[j] = at[k] => j = k
    <3>1. ASSUME NEW j \in DOMAIN at, NEW k \in DOMAIN at, j < k PROVE at[j] # at[k]
      <4>1. at[j] < at[k]
        BY <1>1, <3>1
      <4>2. at[j] \in Int /\ at[k] \in Int
        BY <2>3
      <4> QED
        BY <4>1, <4>2
    <3> QED
      BY <2>2, <3>1
  <2> QED
    BY <2>3, <2>4 DEF new
<1> HIDE DEF new
<1>5. OfRow(details[p].on, new)
  BY <1>3, <1>4 DEF OfRow, Listed, Assessments!Distinct
<1> QED
  BY <1>1, <1>2, <1>5, ChangeInv DEF new

\* The handler loads the row.
LEMMA LoadInv ==
  ASSUME ItemsInv, NEW r \in Requests, Assessments!LoadRow(r)
  PROVE  ItemsInv'
<1> USE PagesOn, ItemsAssumed
<1> DEFINE seenNow == assessments[patch[r].on].items
<1>1. /\ patch[r].at = "sent" /\ patch' = [patch EXCEPT ![r].at = "loaded", ![r].seen = seenNow]
      /\ UNCHANGED <<newItems, assessments, details, deleting, logged, holed, apart>>
  BY DEF Assessments!LoadRow
<1>2. patch[r] # Assessments!NoPatch /\ PatchInv(r)
  BY <1>1 DEF ItemsInv, Assessments!NoPatch
<1>3. /\ patch' = [q \in Requests |-> patch'[q]] /\ \A q \in Requests \ {r} : patch'[q] = patch[q]
      /\ DOMAIN patch'[r] = {"at", "page", "on", "items", "seen"} /\ patch'[r].at = "loaded" /\ patch'[r].seen = seenNow
      /\ patch'[r].page = patch[r].page /\ patch'[r].on = patch[r].on /\ patch'[r].items = patch[r].items
  BY <1>1, <1>2 DEF PatchInv
<1>4. ASSUME NEW q \in Requests PROVE PageInv(q)'
  BY <1>1 DEF ItemsInv, PageInv, OfRow
<1>5. ASSUME NEW q \in Requests PROVE PatchInv(q)'
  BY <1>1, <1>2, <1>3 DEF ItemsInv, PatchInv, OfRow
<1>6. ASSUME NEW q \in Requests \ apart' PROVE ShownInv(q)'
  <2>1. CASE patch[r].page # q
    BY <1>1, <1>3, <2>1, OthersShown
  <2>2. CASE patch[r].page = q
    <3>1. details[q] # Assessments!Closed /\ details[q].on = patch[r].on
      BY <1>2, <2>2 DEF PatchInv
    <3>2. /\ \A s \in Requests : patch[s].page = q <=> s = r
          /\ details[q].shown = patch[r].items
      BY <1>1, <2>2, <3>1 DEF ItemsInv, ShownInv
    <3>3. \A s \in Requests : patch'[s].page = q <=> s = r
      BY <1>3, <3>2
    <3> QED
      BY <1>1, <1>3, <3>1, <3>2, <3>3 DEF ShownInv
  <2> QED
    BY <2>1, <2>2
<1> QED
  BY <1>1, <1>3, <1>4, <1>5, <1>6, RowsStay, PageSteps DEF ItemsInv

\* The commit stores the list that was sent.
LEMMA CommitRowInv ==
  ASSUME ItemsInv, NEW r \in Requests, Assessments!CommitRow(r)
  PROVE  ItemsInv'
<1> USE PagesOn, ItemsAssumed
<1> DEFINE a == patch[r].on
<1>1. /\ patch[r].at = "loaded" /\ patch' = [patch EXCEPT ![r].at = "answered"]
      /\ assessments' = IF patch[r].items = patch[r].seen THEN assessments
                        ELSE [assessments EXCEPT ![a].items = patch[r].items]
      /\ apart' = IF assessments' = assessments THEN apart
                  ELSE apart \cup {p \in Requests : details[p].on = a /\ p # patch[r].page}
      /\ UNCHANGED <<newItems, details, deleting, logged, holed>>
  BY DEF Assessments!CommitRow
<1>2. patch[r] # Assessments!NoPatch /\ PatchInv(r) /\ a \in DOMAIN assessments /\ OfRow(a, patch[r].items) /\ RowInv(a)
  <2>1. patch[r] # Assessments!NoPatch /\ PatchInv(r)
    BY <1>1 DEF ItemsInv, Assessments!NoPatch
  <2> QED
    BY <2>1 DEF ItemsInv, PatchInv
<1>3. /\ patch' = [q \in Requests |-> patch'[q]] /\ \A q \in Requests \ {r} : patch'[q] = patch[q]
      /\ DOMAIN patch'[r] = {"at", "page", "on", "items", "seen"} /\ patch'[r].at = "answered"
      /\ patch'[r].page = patch[r].page /\ patch'[r].on = patch[r].on /\ patch'[r].items = patch[r].items
  BY <1>1, <1>2 DEF PatchInv
<1>4. /\ DOMAIN assessments' = DOMAIN assessments /\ \A b \in DOMAIN assessments \ {a} : assessments'[b] = assessments[b]
      /\ DOMAIN assessments'[a] = {"items", "gone"} /\ assessments'[a].gone = assessments[a].gone
      /\ assessments'[a].items = patch[r].items \/ (assessments' = assessments /\ patch[r].items = patch[r].seen)
  BY <1>1, <1>2 DEF RowInv
<1>5. ASSUME NEW b \in DOMAIN assessments PROVE RowInv(b)'
  BY <1>1, <1>2, <1>4 DEF ItemsInv, RowInv, OfRow
<1>6. ASSUME NEW q \in Requests PROVE PageInv(q)'
  BY <1>1, <1>4 DEF ItemsInv, PageInv, OfRow
<1>7. ASSUME NEW q \in Requests PROVE PatchInv(q)'
  BY <1>1, <1>2, <1>3, <1>4 DEF ItemsInv, PatchInv, OfRow
<1>8. ASSUME NEW q \in Requests \ apart' PROVE ShownInv(q)'
  <2>1. CASE patch[r].page # q
    <3>1. q \notin apart /\ (details[q].on = a => assessments' = assessments)
      BY <1>1, <2>1
    <3> QED
      BY <1>1, <1>3, <1>4, <2>1, <3>1, OthersShown
  <2>2. CASE patch[r].page = q
    <3>1. details[q] # Assessments!Closed /\ details[q].on = a
      BY <1>2, <2>2 DEF PatchInv
    <3>2. /\ \A s \in Requests : patch[s].page = q <=> s = r
          /\ details[q].shown = patch[r].items /\ patch[r].seen = assessments[a].items
      BY <1>1, <2>2, <3>1 DEF ItemsInv, ShownInv
    <3>3. (\A s \in Requests : patch'[s].page = q <=> s = r) /\ patch'[r].items = assessments'[a].items
      BY <1>3, <1>4, <3>2
    <3> QED
      BY <1>1, <1>3, <3>1, <3>2, <3>3 DEF ShownInv
  <2> QED
    BY <2>1, <2>2
<1> QED
  BY <1>1, <1>3, <1>4, <1>5, <1>6, <1>7, <1>8, PageSteps DEF ItemsInv

\* A request ends: its page has what is stored now, or is apart.
LEMMA EndsInv ==
  ASSUME ItemsInv, NEW r \in Requests, Assessments!TakeAnswer(r) \/ Assessments!PatchFails(r)
  PROVE  ItemsInv'
<1> USE PagesOn, ItemsAssumed
<1> DEFINE p == patch[r].page
           fetched == IF Assessments!Live(patch[r].on) THEN assessments[patch[r].on].items ELSE details[p].cached
           filled == Assessments!Filled(details[p].shown, fetched)
<1>1. /\ patch' = [patch EXCEPT ![r] = Assessments!NoPatch]
      /\ UNCHANGED <<newItems, assessments, deleting, logged, holed>>
      /\ \/ /\ patch[r].at = "answered" /\ apart' = apart
            /\ details' = IF p \in Requests THEN [details EXCEPT ![p].cached = fetched, ![p].shown = filled] ELSE details
         \/ details' = details /\ apart' = apart \cup ({p} \cap Requests)
  BY DEF Assessments!TakeAnswer, Assessments!PatchFails
<1>2. /\ patch' = [q \in Requests |-> patch'[q]] /\ patch'[r] = Assessments!NoPatch /\ patch'[r].page = None
      /\ \A q \in Requests \ {r} : patch'[q] = patch[q]
      /\ details' = [q \in Requests |-> details'[q]] /\ \A q \in Requests \ {p} : details'[q] = details[q]
  <2>1. /\ patch' = [q \in Requests |-> patch'[q]] /\ patch'[r] = Assessments!NoPatch
        /\ \A q \in Requests \ {r} : patch'[q] = patch[q]
    BY <1>1
  <2>2. details = [q \in Requests |-> details[q]]
    BY DEF ItemsInv
  <2>3. details' = [q \in Requests |-> details'[q]] /\ \A q \in Requests \ {p} : details'[q] = details[q]
    <3> HIDE DEF fetched, filled
    <3> QED
      BY <1>1, <2>2
  <2> QED
    BY <2>1, <2>3 DEF Assessments!NoPatch
<1>3. ASSUME p \in Requests
      PROVE  /\ details[p] # Assessments!Closed /\ PageInv(p) /\ details[p].on = patch[r].on
             /\ patch[r] # Assessments!NoPatch /\ OfRow(details[p].on, fetched)
  <2>1. patch[r] # Assessments!NoPatch /\ PatchInv(r) /\ PageInv(p)
    BY <1>3 DEF ItemsInv
  <2>2. details[p] # Assessments!Closed /\ details[p].on = patch[r].on
    BY <1>3, <2>1 DEF PatchInv
  <2>3. OfRow(details[p].on, fetched)
    BY <2>1, <2>2 DEF ItemsInv, RowInv, PageInv, Assessments!Live
  <2> QED
    BY <2>1, <2>2, <2>3
<1>4. ASSUME p \in Requests
      PROVE  /\ DOMAIN details'[p] = {"on", "shown", "cached"} /\ details'[p].on = details[p].on
             /\ details'[p] # Assessments!Closed
             /\ \/ details'[p] = details[p] /\ p \in apart'
                \/ patch[r].at = "answered" /\ apart' = apart /\ details'[p].cached = fetched /\ details'[p].shown = filled
  <2>1. DOMAIN details[p] = {"on", "shown", "cached"} /\ details[p].on # None
    BY <1>3, <1>4 DEF PageInv
  <2> HIDE DEF fetched, filled
  <2>2. CASE details' = details /\ apart' = apart \cup ({p} \cap Requests)
    BY <1>3, <1>4, <2>1, <2>2
  <2>3. CASE /\ patch[r].at = "answered" /\ apart' = apart
             /\ details' = IF p \in Requests THEN [details EXCEPT ![p].cached = fetched, ![p].shown = filled] ELSE details
    <3>1. /\ DOMAIN details'[p] = {"on", "shown", "cached"} /\ details'[p].on = details[p].on
          /\ details'[p].cached = fetched /\ details'[p].shown = filled
      <4>1. details'[p] = [details[p] EXCEPT !.cached = fetched, !.shown = filled]
        BY <1>4, <2>3
      <4> QED
        BY <2>1, <4>1
    <3>2. Assessments!Closed.on = None
      BY DEF Assessments!Closed
    <3>3. details'[p] # Assessments!Closed
      BY <2>1, <3>1, <3>2
    <3> QED
      BY <2>3, <3>1, <3>3
  <2> QED
    BY <1>1, <2>2, <2>3
<1>5. ASSUME NEW q \in Requests PROVE PageInv(q)'
  <2>1. CASE q # p
    BY <1>1, <1>2, <2>1 DEF ItemsInv, PageInv, OfRow
  <2>2. CASE q = p
    <3>1. OfRow(details[p].on, details[p].shown) /\ OfRow(details[p].on, details[p].cached)
          /\ OfRow(details[p].on, fetched) /\ details[p].on \in DOMAIN assessments
      BY <1>3, <2>2 DEF PageInv
    <3>2. OfRow(details[p].on, details'[p].shown) /\ OfRow(details[p].on, details'[p].cached)
      BY <1>4, <2>2, <3>1 DEF Assessments!Filled
    <3> QED
      BY <1>1, <1>4, <2>2, <3>1, <3>2 DEF PageInv, OfRow
  <2> QED
    BY <2>1, <2>2
<1>6. ASSUME NEW q \in Requests PROVE PatchInv(q)'
  <2>1. CASE q = r
    BY <1>2, <2>1 DEF PatchInv
  <2>2. CASE q # r
    <3>1. PatchInv(q) /\ patch'[q] = patch[q]
      BY <1>2, <2>2 DEF ItemsInv
    <3>2. \A s \in Requests : /\ details[s] # Assessments!Closed => details'[s] # Assessments!Closed
                             /\ details'[s].on = details[s].on
      BY <1>2, <1>4
    <3> QED
      BY <1>1, <3>1, <3>2 DEF PatchInv, OfRow
  <2> QED
    BY <2>1, <2>2
<1>7. ASSUME NEW q \in Requests \ apart' PROVE ShownInv(q)'
  <2>1. CASE q # p
    <3>1. q \notin apart
      BY <1>1
    <3>2. \A s \in Requests : (patch'[s].page = q <=> patch[s].page = q) /\ (patch[s].page = q => patch'[s] = patch[s])
      BY <1>2, <2>1
    <3> QED
      BY <1>1, <1>2, <2>1, <3>1, <3>2, OthersShown
  <2>2. CASE q = p
    <3>1. /\ patch[r].at = "answered" /\ q \notin apart /\ details'[p].shown = filled
          /\ details[p] # Assessments!Closed /\ details[p].on = patch[r].on /\ details'[p].on = details[p].on
      BY <1>3, <1>4, <2>2
    <3>2. /\ \A s \in Requests : patch[s].page = q <=> s = r
          /\ details[p].shown = patch[r].items /\ patch[r].items = assessments[patch[r].on].items
      BY <2>2, <3>1 DEF ItemsInv, ShownInv
    <3>3. \A s \in Requests : patch'[s].page # q
      BY <1>2, <3>2
    <3>4. Assessments!Live(patch[r].on) => filled = assessments[patch[r].on].items
      BY <3>2 DEF Assessments!Filled
    <3> HIDE DEF filled, fetched
    <3> QED
      BY <1>1, <2>2, <3>1, <3>3, <3>4 DEF ShownInv, Assessments!Live
  <2> QED
    BY <2>1, <2>2
<1> QED
  BY <1>1, <1>2, <1>5, <1>6, <1>7, RowsStay, PageSteps DEF ItemsInv

\* The steps of the pages together.
LEMMA PagesActsInv == ASSUME ItemsInv, Assessments!PageActs PROVE ItemsInv'
BY OpenInv, CloseInv, EditInv, RemoveInv, LoadInv, CommitRowInv, EndsInv DEF Assessments!PageActs

\* The invariant holds throughout.
LEMMA ItemsInvariance == PlatformSpec => [](part \in {"draft", "assessments"} => ItemsInv)
<1> DEFINE Here == part \in {"draft", "assessments"}
           these == <<newItems, asked, assessments, details, patch, deleting, logged, holed, apart, edits>>
<1>1. PlatformInit => (Here => ItemsInv)
  <2> SUFFICES ASSUME PlatformInit, Here PROVE ItemsInv
    OBVIOUS
  <2>1. Assessments!Init
    BY DEF PlatformInit
  <2>2. /\ newItems = <<>> /\ assessments = FirstRows /\ deleting = {} /\ logged = {}
        /\ details = [p \in Requests |-> Assessments!Closed] /\ patch = [r \in Requests |-> Assessments!NoPatch]
    BY <2>1 DEF Assessments!Init
  <2>3. DraftInv
    BY <2>2 DEF DraftInv
  <2>4. ASSUME NEW a \in DOMAIN assessments PROVE RowInv(a)
    <3>1. assessments[a] \in [items : Seq(Assessments!Item), gone : {FALSE}] /\ Assessments!Distinct(assessments[a].items)
      BY <2>2, ItemsAssumed
    <3>2. Listed(assessments[a].items)
      BY <3>1 DEF Listed
    <3> QED
      BY <3>1, <3>2 DEF RowInv, OfRow
  <2>5. \A r \in Requests : PageInv(r) /\ PatchInv(r) /\ ShownInv(r)
    BY <2>2 DEF PageInv, PatchInv, ShownInv
  <2> QED
    BY <2>2, <2>3, <2>4, <2>5, ItemsAssumed DEF ItemsInv
<1>2. (Here => ItemsInv) /\ [PlatformNext]_allVars => (Here => ItemsInv)'
  <2>1. ASSUME ItemsInv, UNCHANGED these PROVE ItemsInv'
    <3>1. \A r \in Requests : PageInv(r)' /\ PatchInv(r)'
      BY <2>1 DEF ItemsInv, PageInv, PatchInv, OfRow
    <3>2. \A p \in Requests \ apart' : ShownInv(p)'
      BY <2>1, OthersShown
    <3> QED
      BY <2>1, <3>1, <3>2, RowsStay, PageSteps DEF ItemsInv
  <2>2. Here /\ [PlatformNext]_allVars =>
          \/ Assessments!MakingActs \/ Assessments!DeletingActs \/ Assessments!PageActs \/ UNCHANGED these
    BY DEF PlatformNext, Only, allVars
  <2> QED
    BY <2>1, <2>2, PartStays, MakingInv, DeletingInv, PagesActsInv
<1> QED
  BY <1>1, <1>2, PTL DEF PlatformSpec

\* The items of an assessment have ids of their own, but after one is taken
\* out of the middle of a draft; a page shows what is stored, but after
\* requests that failed or overlapped and changes from elsewhere; and what is
\* deleted is in the log (AssessmentNewPage, AssessmentDetailPage,
\* update_assessment, soft_delete).
THEOREM ItemsStay == PlatformSpec => []ItemsKept
<1>1. ItemsInv => Assessments!DistinctIds
  <2> SUFFICES ASSUME ItemsInv PROVE Assessments!DistinctIds
    OBVIOUS
  <2>1. Assessments!NewDraft \in holed \/ Assessments!Distinct(newItems)
    BY PositionsDiffer DEF ItemsInv, DraftInv
  <2>2. \A a \in DOMAIN assessments \ holed : Assessments!Distinct(assessments[a].items)
    BY DEF ItemsInv, RowInv, OfRow
  <2>3. ASSUME NEW p \in Requests PROVE details[p].on \in holed \/ Assessments!Distinct(details[p].shown)
    <3>1. CASE details[p] = Assessments!Closed
      BY <3>1 DEF Assessments!Closed, Assessments!Distinct
    <3>2. CASE details[p] # Assessments!Closed
      BY <3>2 DEF ItemsInv, PageInv, OfRow
    <3> QED
      BY <3>1, <3>2
  <2> QED
    BY <2>1, <2>2, <2>3 DEF Assessments!DistinctIds
<1>2. ItemsInv => Assessments!SavedIsShown
  BY DEF ItemsInv, ShownInv, Assessments!SavedIsShown
<1>3. ItemsInv => Assessments!DeletedIsLogged
  BY DEF ItemsInv, RowInv, Assessments!DeletedIsLogged
<1>4. (part \in {"draft", "assessments"} => ItemsInv) => ItemsKept
  BY <1>1, <1>2, <1>3 DEF ItemsKept, Assessments!ItemsKept
<1> QED
  BY <1>4, ItemsInvariance, PTL

-----------------------------------------------------------------------------
(* Induction over finite sets and over numbers, each by a least            *)
(* counterexample: the theorems of the library that are about sets are     *)
(* enough for it.                                                          *)

\* What holds of a set when it holds of it without any one element holds of
\* every subset of a finite set.
LEMMA SubsetsIn ==
  ASSUME NEW S, IsFiniteSet(S), NEW good, {} \in good,
         \A T \in SUBSET S : T # {} /\ (\A x \in T : T \ {x} \in good) => T \in good
  PROVE  \A T \in SUBSET S : T \in good
<1> DEFINE bad == (SUBSET S) \ good
<1> SUFFICES ASSUME bad # {} PROVE FALSE
  OBVIOUS
<1>1. IsWellFoundedOn(StrictSubsetOrdering(S), FiniteSubsetsOf(S))
  BY FS_StrictSubsetOrderingWellFounded
<1>2. bad \subseteq FiniteSubsetsOf(S)
  BY FS_FiniteSubsetsOfFinite
<1>3. PICK T \in bad : \A y \in bad : <<y, T>> \notin StrictSubsetOrdering(S)
  <2> HIDE DEF bad
  <2> QED
    BY <1>1, <1>2, WFMin
<1>4. T # {} /\ \A x \in T : <<T \ {x}, T>> \in StrictSubsetOrdering(S)
  BY DEF StrictSubsetOrdering
<1> QED
  BY <1>3, <1>4

-----------------------------------------------------------------------------
(* Sums of natural numbers over a finite set.  Sum(f) counts pairs of an   *)
(* element x and a number below f[x], so facts about cardinalities give    *)
(* those about sums.                                                       *)

Units(f, S) == {u \in S \X Nat : u[2] < f[u[1]]}

\* The recursive function of MapThenFoldSet.
Walks(f, S) ==
  [s \in SUBSET S |-> IF s = {} THEN 0 ELSE f[CHOOSE x \in s : TRUE] + Cardinality(Units(f, s \ {CHOOSE x \in s : TRUE}))]
Walk(f) ==
  CHOOSE iter : iter = [s \in SUBSET DOMAIN f |->
    IF s = {} THEN 0 ELSE f[CHOOSE x \in s : TRUE] + iter[s \ {CHOOSE x \in s : TRUE}]]

\* The definition of a sum.
LEMMA SumWalks == \A f : Reports!Sum(f) = Walk(f)[DOMAIN f]
BY DEF Reports!Sum, Reports!MapThenSumSet, Reports!MapThenFoldSet, Walk

\* The pairs of one element are as many as its number.
LEMMA UnitsOfOne ==
  ASSUME NEW f, NEW x, f[x] \in Nat
  PROVE  IsFiniteSet(Units(f, {x})) /\ Cardinality(Units(f, {x})) = f[x]
<1> DEFINE I == 1 .. f[x]
           g == [k \in I |-> <<x, k - 1>>]
<1>1. IsFiniteSet(I) /\ Cardinality(I) = f[x]
  BY FS_Interval
<1>2. g \in [I -> Units(f, {x})]
  BY DEF Units
<1>3. \A u \in Units(f, {x}) : u[2] + 1 \in I /\ g[u[2] + 1] = u
  BY DEF Units
<1>4. \A j, k \in I : g[j] = g[k] => j = k
  OBVIOUS
<1>5. g \in Bijection(I, Units(f, {x}))
  BY <1>2, <1>3, <1>4 DEF Bijection, Injection, Surjection, IsInjective
<1> QED
  BY <1>1, <1>5, FS_Bijection DEF ExistsBijection

\* Two sets that have nothing in common.
LEMMA DisjointSizes ==
  ASSUME NEW S, NEW T, IsFiniteSet(S), IsFiniteSet(T), S \cap T = {}
  PROVE  IsFiniteSet(S \cup T) /\ Cardinality(S \cup T) = Cardinality(S) + Cardinality(T)
<1> DEFINE size == Cardinality(S \cup T)
           common == Cardinality(S \cap T)
<1>1. Cardinality(S) \in Nat /\ Cardinality(T) \in Nat
  BY FS_CardinalityType
<1>2. IsFiniteSet(S \cup T) /\ size = Cardinality(S) + Cardinality(T) - common
  BY FS_Union
<1>3. common = 0
  BY FS_EmptySet
<1> HIDE DEF size, common
<1>4. size = Cardinality(S) + Cardinality(T)
  BY <1>1, <1>2, <1>3
<1> QED
  BY <1>2, <1>4 DEF size

\* The pairs of a set and an element outside.
LEMMA UnitsMore ==
  ASSUME NEW f, NEW S, NEW x, x \in S, f[x] \in Nat, IsFiniteSet(Units(f, S \ {x}))
  PROVE  /\ IsFiniteSet(Units(f, S))
         /\ Cardinality(Units(f, S)) = f[x] + Cardinality(Units(f, S \ {x}))
<1>1. Units(f, S) = Units(f, {x}) \cup Units(f, S \ {x})
  BY DEF Units
<1>2. Units(f, {x}) \cap Units(f, S \ {x}) = {}
  BY DEF Units
<1>3. Cardinality(Units(f, S \ {x})) \in Nat
  BY FS_CardinalityType
<1>4. IsFiniteSet(Units(f, {x})) /\ Cardinality(Units(f, {x})) = f[x]
  BY UnitsOfOne
<1>5. /\ IsFiniteSet(Units(f, {x}) \cup Units(f, S \ {x}))
      /\ Cardinality(Units(f, {x}) \cup Units(f, S \ {x})) = f[x] + Cardinality(Units(f, S \ {x}))
  BY <1>2, <1>3, <1>4, DisjointSizes
<1> QED
  BY <1>1, <1>3, <1>5

\* Finitely many elements have finitely many pairs.
LEMMA UnitsFinite ==
  ASSUME NEW S, IsFiniteSet(S), NEW f, \A x \in S : f[x] \in Nat
  PROVE  \A T \in SUBSET S : IsFiniteSet(Units(f, T)) /\ Cardinality(Units(f, T)) \in Nat
<1> DEFINE good == {T \in SUBSET S : IsFiniteSet(Units(f, T))}
<1>1. {} \in good
  BY FS_EmptySet DEF Units
<1>2. ASSUME NEW T \in SUBSET S, T # {}, \A x \in T : T \ {x} \in good PROVE T \in good
  <2>1. PICK x : x \in T
    BY <1>2
  <2> QED
    BY <1>2, <2>1, UnitsMore
<1> HIDE DEF good
<1>3. \A T \in SUBSET S : T \in good
  BY <1>1, <1>2, SubsetsIn
<1> QED
  BY <1>3, FS_CardinalityType DEF good

\* A sum counts the pairs: they solve the recursion, and nothing else does.
LEMMA SumCounts ==
  ASSUME NEW f, IsFiniteSet(DOMAIN f), \A x \in DOMAIN f : f[x] \in Nat
  PROVE  Reports!Sum(f) = Cardinality(Units(f, DOMAIN f)) /\ Reports!Sum(f) \in Nat
<1> DEFINE S == DOMAIN f
           c(s) == CHOOSE x \in s : TRUE
           Step(iter) == [s \in SUBSET S |-> IF s = {} THEN 0 ELSE f[c(s)] + iter[s \ {c(s)}]]
           sizes == [s \in SUBSET S |-> Cardinality(Units(f, s))]
<1>1. \A T \in SUBSET S : IsFiniteSet(Units(f, T)) /\ Cardinality(Units(f, T)) \in Nat
  BY UnitsFinite
<1>2. \A s \in SUBSET S : s # {} => c(s) \in s /\ s \ {c(s)} \in SUBSET S
  OBVIOUS
<1> HIDE DEF c
<1>3. \A s \in SUBSET S : sizes[s] = IF s = {} THEN 0 ELSE f[c(s)] + sizes[s \ {c(s)}]
  <2> SUFFICES ASSUME NEW s \in SUBSET S
               PROVE  Cardinality(Units(f, s)) = IF s = {} THEN 0 ELSE f[c(s)] + Cardinality(Units(f, s \ {c(s)}))
    BY <1>2
  <2>1. CASE s = {}
    BY <2>1, FS_EmptySet DEF Units
  <2>2. CASE s # {}
    BY <1>1, <1>2, <2>2, UnitsMore
  <2> QED
    BY <2>1, <2>2
<1>4. sizes = Step(sizes)
  BY <1>3
<1>5. Walk(f) = Step(Walk(f))
  BY <1>4 DEF Walk, c
<1> DEFINE w == Walk(f)
           good == {T \in SUBSET S : w[T] = sizes[T]}
<1> HIDE DEF w, sizes
<1>6. \A s \in SUBSET S : w[s] = IF s = {} THEN 0 ELSE f[c(s)] + w[s \ {c(s)}]
  BY <1>5 DEF w
<1>7. {} \in good
  BY <1>3, <1>6
<1>8. ASSUME NEW T \in SUBSET S, T # {}, \A x \in T : T \ {x} \in good PROVE T \in good
  <2>1. c(T) \in T /\ w[T \ {c(T)}] = sizes[T \ {c(T)}]
    BY <1>2, <1>8
  <2> QED
    BY <1>3, <1>6, <1>8, <2>1
<1> HIDE DEF good
<1>9. \A T \in SUBSET S : T \in good
  BY <1>7, <1>8, SubsetsIn
<1>10. w[S] = sizes[S]
  BY <1>9 DEF good
<1> QED
  BY <1>1, <1>10, SumWalks DEF w, sizes

Size(f, S) == Cardinality(Units(f, S))

\* The sum of the terms f[x] over the elements x of a finite set.
LEMMA SumOver ==
  ASSUME NEW S, IsFiniteSet(S), NEW f \in [S -> Nat], NEW T \in SUBSET S
  PROVE  /\ Reports!Sum([x \in T |-> f[x]]) = Size(f, T)
         /\ Size(f, T) \in Nat /\ Reports!Sum(f) = Size(f, S) /\ IsFiniteSet(Units(f, T))
<1> DEFINE g == [x \in T |-> f[x]]
<1>1. IsFiniteSet(T)
  BY FS_Subset
<1>2. DOMAIN g = T /\ \A x \in T : g[x] \in Nat
  OBVIOUS
<1>3. Units(g, T) = Units(f, T)
  BY DEF Units
<1> HIDE DEF g
<1>4. Reports!Sum(g) = Cardinality(Units(g, T))
  BY <1>1, <1>2, SumCounts
<1>5. DOMAIN f = S /\ \A x \in S : f[x] \in Nat
  OBVIOUS
<1>6. Reports!Sum(f) = Cardinality(Units(f, S))
  BY <1>5, SumCounts
<1>7. IsFiniteSet(Units(f, T)) /\ Cardinality(Units(f, T)) \in Nat
  BY <1>5, UnitsFinite
<1> QED
  BY <1>3, <1>4, <1>6, <1>7 DEF g, Size

\* The sum over nothing, over one element more and over two disjoint sets.
LEMMA SizeSteps ==
  ASSUME NEW S, IsFiniteSet(S), NEW f \in [S -> Nat]
  PROVE  /\ Size(f, {}) = 0
         /\ \A T \in SUBSET S : \A x \in T : Size(f, T) = f[x] + Size(f, T \ {x})
         /\ \A T, U \in SUBSET S : T \cap U = {} => Size(f, T \cup U) = Size(f, T) + Size(f, U)
<1>1. Size(f, {}) = 0
  BY FS_EmptySet DEF Size, Units
<1>2. ASSUME NEW T \in SUBSET S, NEW x \in T PROVE Size(f, T) = f[x] + Size(f, T \ {x})
  <2>1. IsFiniteSet(Units(f, T \ {x})) /\ f[x] \in Nat
    BY SumOver
  <2> QED
    BY <2>1, UnitsMore DEF Size
<1>3. ASSUME NEW T \in SUBSET S, NEW U \in SUBSET S, T \cap U = {}
      PROVE  Size(f, T \cup U) = Size(f, T) + Size(f, U)
  <2>1. IsFiniteSet(Units(f, T)) /\ IsFiniteSet(Units(f, U))
    BY SumOver
  <2>2. Units(f, T) \cap Units(f, U) = {} /\ Units(f, T \cup U) = Units(f, T) \cup Units(f, U)
    BY <1>3 DEF Units
  <2> QED
    BY <2>1, <2>2, DisjointSizes DEF Size
<1> QED
  BY <1>1, <1>2, <1>3

\* Adding two inequalities.
LEMMA Added ==
  ASSUME NEW a \in Nat, NEW b \in Nat, NEW c \in Nat, NEW d \in Nat, NEW p \in Nat, NEW q \in Nat,
         NEW F \in Nat, NEW G \in Nat, NEW n \in Nat,
         a * p + c <= b * q + d, a * F + c * n <= b * G + d * n
  PROVE  a * (p + F) + c * (n + 1) <= b * (q + G) + d * (n + 1)
OBVIOUS

\* A bound on each term bounds the sum.
LEMMA SumBound ==
  ASSUME NEW S, IsFiniteSet(S), NEW f \in [S -> Nat], NEW g \in [S -> Nat],
         NEW a \in Nat, NEW b \in Nat, NEW c \in Nat, NEW d \in Nat,
         \A x \in S : a * f[x] + c <= b * g[x] + d
  PROVE  a * Reports!Sum(f) + c * Cardinality(S) <= b * Reports!Sum(g) + d * Cardinality(S)
<1> DEFINE Fine(T) == a * Size(f, T) + c * Cardinality(T) <= b * Size(g, T) + d * Cardinality(T)
           good == {T \in SUBSET S : Fine(T)}
<1>1. {} \in good
  <2>1. Size(f, {}) = 0 /\ Size(g, {}) = 0 /\ Cardinality({}) = 0
    BY SizeSteps, FS_EmptySet
  <2> QED
    BY <2>1
<1>2. ASSUME NEW T \in SUBSET S, T # {}, \A x \in T : T \ {x} \in good PROVE T \in good
  <2>1. PICK x \in T : TRUE
    BY <1>2
  <2>2. Fine(T \ {x})
    BY <1>2, <2>1
  <2>3. Size(f, T) = f[x] + Size(f, T \ {x}) /\ Size(g, T) = g[x] + Size(g, T \ {x})
    BY SizeSteps
  <2>4. Size(f, T \ {x}) \in Nat /\ Size(g, T \ {x}) \in Nat /\ f[x] \in Nat /\ g[x] \in Nat
    BY SumOver
  <2>5. Cardinality(T) = Cardinality(T \ {x}) + 1 /\ Cardinality(T \ {x}) \in Nat
    <3>1. IsFiniteSet(T) /\ IsFiniteSet(T \ {x})
      BY FS_Subset
    <3>2. Cardinality(T) \in Nat /\ Cardinality(T \ {x}) = Cardinality(T) - 1 /\ Cardinality(T \ {x}) \in Nat
      BY <3>1, FS_RemoveElement, FS_CardinalityType
    <3> QED
      BY <3>2
  <2>6. Fine(T)
    BY <2>2, <2>3, <2>4, <2>5, Added
  <2> QED
    BY <2>6
<1> HIDE DEF good
<1>3. S \in good
  BY <1>1, <1>2, SubsetsIn
<1>4. Fine(S)
  BY <1>3 DEF good
<1> QED
  BY <1>4, SumOver

\* The sum over the elements with the key of x.
GroupSum(f, key, S, x) == Reports!Sum([y \in {z \in S : key[z] = key[x]} |-> f[y]])

\* A bound on the sum over each of the groups bounds the sum over all.
LEMMA SumGroups ==
  ASSUME NEW S, IsFiniteSet(S), S # {}, NEW f \in [S -> Nat], NEW g \in [S -> Nat], NEW K, NEW key \in [S -> K],
         NEW a \in Nat, NEW b \in Nat, NEW u \in Nat,
         \A x \in S : a * GroupSum(f, key, S, x) + u <= b * GroupSum(g, key, S, x)
  PROVE  a * Reports!Sum(f) + u <= b * Reports!Sum(g)
<1> DEFINE Keys == {key[x] : x \in S}
           Over(T) == {y \in S : key[y] \in T}
           Fine(T) == a * Size(f, Over(T)) + u <= b * Size(g, Over(T))
           good == {T \in SUBSET Keys : T = {} \/ Fine(T)}
<1>1. IsFiniteSet(Keys)
  <2>1. key \in Surjection(S, Keys)
    <3>1. key \in [S -> Keys]
      OBVIOUS
    <3> QED
      BY <3>1 DEF Surjection
  <2> QED
    BY <2>1, FS_Surjection
<1>2. ASSUME NEW T \in SUBSET Keys, T # {}, \A t \in T : T \ {t} \in good PROVE T \in good
  <2>1. PICK x \in S : key[x] \in T
    BY <1>2
  <2> DEFINE group == {y \in S : key[y] = key[x]}
             rest == Over(T \ {key[x]})
  <2>2. a * Size(f, group) + u <= b * Size(g, group)
    <3>1. a * Reports!Sum([y \in group |-> f[y]]) + u <= b * Reports!Sum([y \in group |-> g[y]])
      BY DEF GroupSum
    <3> HIDE DEF group
    <3>2. group \in SUBSET S
      BY DEF group
    <3> QED
      BY <3>1, <3>2, SumOver
  <2>3. Over(T) = group \cup rest /\ group \cap rest = {} /\ group \in SUBSET S /\ rest \in SUBSET S
    BY <2>1
  <2> HIDE DEF group, rest, Over
  <2>4. Size(f, Over(T)) = Size(f, group) + Size(f, rest) /\ Size(g, Over(T)) = Size(g, group) + Size(g, rest)
    BY <2>3, SizeSteps
  <2>5. Size(f, group) \in Nat /\ Size(f, rest) \in Nat /\ Size(g, group) \in Nat /\ Size(g, rest) \in Nat
    BY <2>3, SumOver
  <2>6. CASE T \ {key[x]} = {}
    <3>1. rest = {}
      BY <2>6 DEF rest, Over
    <3>2. Size(f, rest) = 0 /\ Size(g, rest) = 0
      BY <3>1, SizeSteps
    <3>3. Fine(T)
      BY <2>2, <2>4, <2>5, <3>2
    <3> QED
      BY <3>3
  <2>7. CASE T \ {key[x]} # {}
    <3>1. a * Size(f, rest) + u <= b * Size(g, rest)
      BY <1>2, <2>1, <2>7 DEF rest
    <3>2. a * (Size(f, group) + Size(f, rest)) + u <= b * (Size(g, group) + Size(g, rest))
      BY <2>2, <2>5, <3>1
    <3> QED
      BY <2>4, <3>2
  <2> QED
    BY <2>6, <2>7
<1>3. {} \in good
  OBVIOUS
<1> HIDE DEF good
<1>4. Keys \in good
  <2> HIDE DEF Keys
  <2> QED
    BY <1>1, <1>2, <1>3, SubsetsIn
<1>5. Over(Keys) = S /\ Keys # {}
  OBVIOUS
<1>6. Fine(Keys)
  BY <1>4, <1>5 DEF good
<1>7. a * Size(f, S) + u <= b * Size(g, S)
  BY <1>5, <1>6
<1>8. Reports!Sum(f) = Size(f, S) /\ Reports!Sum(g) = Size(g, S)
  BY SumOver
<1> QED
  BY <1>7, <1>8

-----------------------------------------------------------------------------
(* The reports.  They compute from the same rows in ways of their own, so  *)
(* that they agree is about sums and roundings alone: what rounds to at    *)
(* least k is at least k - 1/2, and more than that when k is odd.          *)

\* Multiplication is monotone.
LEMMA TimesGrows ==
  ASSUME NEW m \in Nat, NEW n \in Nat, NEW d \in Nat, m <= n
  PROVE  m * d <= n * d
OBVIOUS

\* Quotient and remainder.
LEMMA Divided ==
  ASSUME NEW a \in Nat, NEW d \in Nat \ {0}
  PROVE  /\ a \div d \in Nat /\ a % d \in 0 .. (d - 1)
         /\ a = (a \div d) * d + (a % d)
OBVIOUS

\* The threshold of the numbers that are rounded to k or more.
LEMMA RoundedAtLeast ==
  ASSUME NEW a \in Nat, NEW d \in Nat \ {0}
  PROVE  /\ Reports!Rounded(a, d) \in Nat
         /\ \A k \in Nat \ {0} : Reports!Rounded(a, d) >= k <=> (2 * k - 1) * d + (k % 2) <= 2 * a
<1> DEFINE q == a \div d
           r == a % d
           R == Reports!Rounded(a, d)
<1>1. q \in Nat /\ r \in 0 .. (d - 1) /\ a = q * d + r
  BY Divided
<1>2. R = IF 2 * r > d \/ (2 * r = d /\ q % 2 = 1) THEN q + 1 ELSE q
  BY DEF Reports!Rounded
<1> HIDE DEF q, r, R
<1>3. R \in Nat
  BY <1>1, <1>2
<1>4. ASSUME NEW k \in Nat \ {0} PROVE R >= k <=> (2 * k - 1) * d + (k % 2) <= 2 * a
  <2> DEFINE K == k * d
             Q == q * d
  <2>1. (2 * k - 1) * d = 2 * K - d /\ 2 * a = 2 * Q + 2 * r /\ K \in Nat /\ Q \in Nat
    BY <1>1
  <2>2. k % 2 \in 0 .. 1
    OBVIOUS
  <2>3. /\ k <= q => K <= Q
        /\ k = q + 1 => K = Q + d
        /\ k >= q + 2 => K >= Q + 2 * d
    <3>1. (q + 1) * d = Q + d /\ (q + 2) * d = Q + 2 * d
      BY <1>1
    <3> QED
      BY <1>1, <3>1, TimesGrows
  <2>4. k = q + 1 => (k % 2 = 1 <=> q % 2 = 0) /\ (k % 2 = 0 <=> q % 2 = 1)
    BY <1>1
  <2> HIDE DEF K, Q
  <2>5. CASE k <= q
    BY <1>1, <1>2, <2>1, <2>2, <2>3, <2>5
  <2>6. CASE k = q + 1
    <3>1. (2 * k - 1) * d = 2 * Q + d
      BY <1>1, <2>1, <2>3, <2>6
    <3>2. R >= k <=> 2 * r > d \/ (2 * r = d /\ k % 2 = 0)
      BY <1>1, <1>2, <2>2, <2>4, <2>6
    <3> QED
      BY <1>1, <2>1, <2>2, <3>1, <3>2
  <2>7. CASE k >= q + 2
    BY <1>1, <1>2, <2>1, <2>2, <2>3, <2>7
  <2> QED
    BY <1>1, <2>5, <2>6, <2>7
<1> QED
  BY <1>3, <1>4 DEF R

\* The error of a rounding is half a unit at most.
LEMMA RoundedNear ==
  ASSUME NEW a \in Nat, NEW d \in Nat \ {0}
  PROVE  2 * a <= 2 * d * Reports!Rounded(a, d) + d /\ 2 * d * Reports!Rounded(a, d) <= 2 * a + d
<1> DEFINE R == Reports!Rounded(a, d)
<1>1. R \in Nat
  BY RoundedAtLeast
<1>2. R > 0 => (2 * R - 1) * d + (R % 2) <= 2 * a
  BY RoundedAtLeast
<1>3. ~((2 * (R + 1) - 1) * d + ((R + 1) % 2) <= 2 * a)
  <2>1. R + 1 \in Nat \ {0} /\ ~(R >= R + 1)
    BY <1>1
  <2> QED
    BY <2>1, RoundedAtLeast
<1> HIDE DEF R
<1>4. R % 2 \in 0 .. 1 /\ (R + 1) % 2 \in 0 .. 1
  BY <1>1
<1>5. PICK D \in Nat : D = R * d
  BY <1>1
<1>6. (2 * R - 1) * d = 2 * D - d /\ (2 * (R + 1) - 1) * d = 2 * D + d /\ 2 * d * R = 2 * D
  BY <1>1, <1>5
<1>7. R = 0 => D = 0
  BY <1>5
<1>8. 2 * a <= 2 * D + d /\ 2 * D <= 2 * a + d
  BY <1>1, <1>2, <1>3, <1>4, <1>6, <1>7
<1> QED
  BY <1>6, <1>8 DEF R

\* A common factor of both numbers does not change what is rounded.
LEMMA RoundedScales ==
  ASSUME NEW a \in Nat, NEW d \in Nat \ {0}, NEW c \in Nat \ {0}
  PROVE  Reports!Rounded(a * c, d * c) = Reports!Rounded(a, d)
<1> DEFINE R == Reports!Rounded(a, d)
           T == Reports!Rounded(a * c, d * c)
<1>1. a * c \in Nat /\ d * c \in Nat \ {0}
  <2>1. 1 * 1 <= d * c
    <3>1. 1 * c <= d * c
      BY TimesGrows
    <3> QED
      BY <3>1
  <2> QED
    BY <2>1
<1>2. R \in Nat /\ T \in Nat
  BY <1>1, RoundedAtLeast
<1>3. ASSUME NEW k \in Nat \ {0} PROVE R >= k <=> T >= k
  <2> DEFINE X == (2 * k - 1) * d
             Y == 2 * a
             u == k % 2
  <2>1. R >= k <=> X + u <= Y
    BY RoundedAtLeast
  <2>2. T >= k <=> (2 * k - 1) * (d * c) + u <= 2 * (a * c)
    BY <1>1, RoundedAtLeast
  <2>3. X \in Nat /\ Y \in Nat /\ u \in 0 .. 1
    OBVIOUS
  <2>4. (2 * k - 1) * (d * c) = X * c /\ 2 * (a * c) = Y * c
    OBVIOUS
  <2> HIDE DEF X, Y, u
  <2>5. (X + u) * c = X * c + u * c /\ u <= u * c /\ X * c \in Nat /\ Y * c \in Nat /\ u * c \in Nat
    <3>1. CASE u = 0
      BY <2>3, <3>1
    <3>2. CASE u = 1
      BY <2>3, <3>2
    <3> QED
      BY <2>3, <3>1, <3>2
  <2>6. X + u <= Y => X * c + u <= Y * c
    <3>1. X + u <= Y => (X + u) * c <= Y * c
      BY <2>3, TimesGrows
    <3> QED
      BY <2>3, <2>5, <3>1
  <2>7. ~(X + u <= Y) => ~(X * c + u <= Y * c)
    <3>1. CASE u = 1
      <4>1. Y <= X => Y * c <= X * c
        BY <2>3, TimesGrows
      <4> QED
        BY <2>3, <2>5, <3>1, <4>1
    <3>2. CASE u = 0
      <4>1. Y + 1 <= X => (Y + 1) * c <= X * c
        BY <2>3, TimesGrows
      <4>2. (Y + 1) * c = Y * c + c
        BY <2>3
      <4> QED
        BY <2>3, <2>5, <3>2, <4>1, <4>2
    <3> QED
      BY <2>3, <3>1, <3>2
  <2> QED
    BY <2>1, <2>2, <2>4, <2>6, <2>7
<1> HIDE DEF R, T
<1>4. (R > 0 => T >= R) /\ (T > 0 => R >= T)
  BY <1>2, <1>3
<1>5. R = T
  BY <1>2, <1>4
<1> QED
  BY <1>5 DEF R, T

\* A sum of ones counts.
LEMMA SumOfOnes ==
  ASSUME NEW S, IsFiniteSet(S)
  PROVE  Reports!Sum([x \in S |-> 1]) = Cardinality(S) /\ Cardinality(S) \in Nat
<1> DEFINE f == [x \in S |-> 1]
<1>1. f \in [S -> Nat] /\ \A x \in S : f[x] = 1
  OBVIOUS
<1> HIDE DEF f
<1>2. Cardinality(S) \in Nat /\ Reports!Sum(f) \in Nat
  BY <1>1, SumOver, FS_CardinalityType
<1>3. \A x \in S : 1 * f[x] + 0 <= 0 * f[x] + 1
  BY <1>1
<1>4. \A x \in S : 0 * f[x] + 1 <= 1 * f[x] + 0
  BY <1>1
<1>5. 1 * Reports!Sum(f) + 0 * Cardinality(S) <= 0 * Reports!Sum(f) + 1 * Cardinality(S)
  BY <1>1, <1>3, SumBound
<1>6. 0 * Reports!Sum(f) + 1 * Cardinality(S) <= 1 * Reports!Sum(f) + 0 * Cardinality(S)
  BY <1>1, <1>4, SumBound
<1>7. Reports!Sum(f) = Cardinality(S)
  BY <1>2, <1>5, <1>6
<1> QED
  BY <1>2, <1>7 DEF f

\* A sum over the marks of one learner is one over exams.
LEMMA SumOfPairs ==
  ASSUME NEW l, NEW S, IsFiniteSet(S), NEW f \in [S -> Nat]
  PROVE  /\ Reports!Sum([p \in {l} \X S |-> f[p[2]]]) = Reports!Sum(f)
         /\ Cardinality({l} \X S) = Cardinality(S) /\ IsFiniteSet({l} \X S)
<1> DEFINE P == {l} \X S
           g == [p \in P |-> f[p[2]]]
           h == [u \in Units(f, S) |-> << <<l, u[1]>>, u[2] >>]
           j == [x \in S |-> <<l, x>>]
<1>1. j \in Bijection(S, P)
  <2>1. j \in [S -> P] /\ \A x, y \in S : j[x] = j[y] => x = y
    OBVIOUS
  <2>2. \A p \in P : p[2] \in S /\ j[p[2]] = p
    OBVIOUS
  <2> QED
    BY <2>1, <2>2 DEF Bijection, Injection, Surjection, IsInjective
<1>2. IsFiniteSet(P) /\ Cardinality(P) = Cardinality(S)
  BY <1>1, FS_Bijection DEF ExistsBijection
<1>3. g \in [P -> Nat]
  OBVIOUS
<1>4. h \in Bijection(Units(f, S), Units(g, P))
  <2>1. \A u \in Units(f, S) : h[u] \in Units(g, P)
    BY DEF Units
  <2>2. \A u, v \in Units(f, S) : h[u] = h[v] => u = v
    BY DEF Units
  <2>3. \A v \in Units(g, P) : <<v[1][2], v[2]>> \in Units(f, S) /\ h[<<v[1][2], v[2]>>] = v
    BY DEF Units
  <2> QED
    BY <2>1, <2>2, <2>3 DEF Bijection, Injection, Surjection, IsInjective
<1>5. Cardinality(Units(g, P)) = Cardinality(Units(f, S))
  <2>1. IsFiniteSet(Units(f, S))
    BY SumOver
  <2> QED
    BY <1>4, <2>1, FS_Bijection DEF ExistsBijection
<1> HIDE DEF g, P
<1>6. Reports!Sum(g) = Reports!Sum(f)
  BY <1>2, <1>3, <1>5, SumOver DEF Size
<1> QED
  BY <1>2, <1>6 DEF g, P

\* What is assumed of a class, its exams and its assessment.
LEMMA ReportsAssumed ==
  /\ IsFiniteSet(ClassList) /\ ClassList \subseteq Nat /\ IsFiniteSet(Exams) /\ IsFiniteSet(Items)
  /\ Base \in Nat \ {0} /\ DefaultMax \in Nat \ {0} /\ ListedLearners \in Nat /\ Levels \subseteq Nat /\ None \notin Nat
  /\ Maxima \subseteq [Exams -> {m \in 1 .. Base : Base % m = 0}]
  /\ Sheets \subseteq [Reports!Everyone -> [Exams -> Nat \cup {None}]]
BY PlatformAssumption
   DEF PlatformAssumption, Reports!ReportsAssumption, Reports!IsFiniteSet, IsFiniteSet, Reports!Everyone

\* The cardinality of Reports is that of this module.
LEMMA ReportsCards == \A S : Reports!Cardinality(S) = Cardinality(S)
BY DEF Reports!Cardinality, Cardinality

\* The rows that the reports read.
ReportsRows ==
  /\ max \in [Exams -> {m \in 1 .. Base : Base % m = 0}]
  /\ marks \in [Reports!Everyone -> [Exams -> Nat \cup {None}]]
  /\ DOMAIN items \subseteq Items /\ \A i \in DOMAIN items : items[i] \in Nat \ {0}
  /\ levels \in [ClassList -> [Items -> Nat \cup {None}]]

\* A number divides itself.
LEMMA DividesItself == ASSUME NEW d \in Nat \ {0} PROVE d % d = 0
<1> DEFINE q == d \div d
           r == d % d
<1>1. q \in Nat /\ r \in 0 .. (d - 1) /\ d = q * d + r
  BY Divided
<1> HIDE DEF q, r
<1>2. q >= 2 => 2 * d <= q * d
  BY <1>1, TimesGrows
<1>3. q # 0
  BY <1>1
<1>4. q = 1
  BY <1>1, <1>2, <1>3
<1>5. r = 0
  BY <1>1, <1>4
<1> QED
  BY <1>5 DEF r

\* The rows are those of the first state.
LEMMA ReportsInitRows == ASSUME Reports!Init PROVE ReportsRows
<1>1. CASE max \in Maxima /\ marks \in Sheets /\ items = [i \in {} |-> 0]
           /\ levels = [l \in ClassList |-> [i \in Items |-> None]]
  BY <1>1, ReportsAssumed DEF ReportsRows
<1>2. CASE items \in Reports!AllItems /\ levels \in [ClassList -> [Items -> Levels \cup {None}]]
           /\ max = [e \in Exams |-> Base] /\ marks = [l \in Reports!Everyone |-> [e \in Exams |-> None]]
  <2>1. PICK s \in SUBSET Items : items \in [s -> {1, DefaultMax}]
    BY <1>2 DEF Reports!AllItems
  <2>2. Base \in 1 .. Base /\ Base % Base = 0
    BY ReportsAssumed, DividesItself
  <2>3. levels \in [ClassList -> [Items -> Nat \cup {None}]]
    <3>1. Levels \cup {None} \subseteq Nat \cup {None}
      BY ReportsAssumed
    <3>2. [Items -> Levels \cup {None}] \subseteq [Items -> Nat \cup {None}]
      BY <3>1
    <3> QED
      BY <1>2, <3>2
  <2> QED
    BY <1>2, <2>1, <2>2, <2>3, ReportsAssumed DEF ReportsRows
<1> QED
  BY <1>1, <1>2 DEF Reports!Init

\* The marks of a learner.
LEMMA MarksOf ==
  ASSUME ReportsRows, NEW l \in Reports!Everyone
  PROVE  /\ Reports!Marked({l}, Exams) = {l} \X {e \in Exams : marks[l][e] # None}
         /\ IsFiniteSet(Reports!Marked({l}, Exams)) /\ IsFiniteSet({e \in Exams : marks[l][e] # None})
<1> DEFINE es == {e \in Exams : marks[l][e] # None}
<1>1. Reports!Marked({l}, Exams) = {l} \X es
  <2>1. \A le \in {l} \X Exams : le[1] = l /\ le[2] \in Exams /\ le = <<le[1], le[2]>>
    OBVIOUS
  <2> QED
    BY <2>1 DEF Reports!Marked
<1>2. IsFiniteSet(es)
  <2>1. es \subseteq Exams
    OBVIOUS
  <2> QED
    BY <2>1, ReportsAssumed, FS_Subset
<1>3. IsFiniteSet({l} \X es)
  BY <1>2, FS_Product, FS_Singleton
<1> QED
  BY <1>1, <1>2, <1>3

\* A mark's share of the base, and its percentage.
LEMMA ShareOf ==
  ASSUME ReportsRows, NEW l \in Reports!Everyone, NEW e \in Exams, marks[l][e] # None
  PROVE  /\ Reports!Share(<<l, e>>) \in Nat /\ Reports!Percentage(l, e) \in Nat
         /\ Reports!Percentage(l, e) = Reports!Rounded(1000 * Reports!Share(<<l, e>>), Base)
<1> DEFINE m == marks[l][e]
           d == max[e]
           c == Base \div d
<1>1. m \in Nat /\ d \in 1 .. Base /\ Base % d = 0
  BY DEF ReportsRows
<1> HIDE DEF m, d
<1>2. c \in Nat /\ Base = c * d
  BY <1>1, Divided, ReportsAssumed
<1>3. c # 0
  BY <1>1, <1>2, ReportsAssumed
<1>4. Reports!Share(<<l, e>>) = m * c
  BY DEF Reports!Share, m, d
<1>5. Reports!Percentage(l, e) = Reports!Rounded(1000 * m, d)
  BY <1>1 DEF Reports!Percentage, Reports!Tenths, m, d
<1> HIDE DEF c
<1>6. 1000 * m \in Nat /\ d \in Nat \ {0} /\ c \in Nat \ {0}
  BY <1>1, <1>2, <1>3
<1>7. Reports!Rounded((1000 * m) * c, d * c) = Reports!Rounded(1000 * m, d)
  BY <1>6, RoundedScales
<1>8. (1000 * m) * c = 1000 * (m * c) /\ d * c = Base /\ m * c \in Nat
  BY <1>1, <1>2
<1>9. Reports!Rounded(1000 * m, d) \in Nat
  BY <1>6, RoundedAtLeast
<1> QED
  BY <1>4, <1>5, <1>7, <1>8, <1>9

\* The shares of marks of a learner, and their mean.
Shares(les) == [le \in les |-> Reports!Share(le)]

\* The mean of marks is the sum of their shares by their number, rounded.
LEMMA MeanOf ==
  ASSUME ReportsRows, NEW l \in Reports!Everyone, NEW les \in SUBSET Reports!Marked({l}, Exams), les # {}
  PROVE  /\ IsFiniteSet(les) /\ Shares(les) \in [les -> Nat] /\ Reports!Sum(Shares(les)) \in Nat
         /\ Cardinality(les) \in Nat \ {0} /\ Base * Cardinality(les) \in Nat \ {0}
         /\ Reports!Mean(les) = Reports!Rounded(1000 * Reports!Sum(Shares(les)), Base * Cardinality(les))
         /\ Reports!Mean(les) \in Nat
<1>1. IsFiniteSet(les)
  BY MarksOf, FS_Subset
<1>2. Shares(les) \in [les -> Nat]
  <2>1. \A le \in les : Reports!Share(le) \in Nat
    <3> SUFFICES ASSUME NEW le \in les PROVE Reports!Share(le) \in Nat
      OBVIOUS
    <3>1. le \in {l} \X {e \in Exams : marks[l][e] # None}
      BY MarksOf
    <3>2. le = <<l, le[2]>> /\ le[2] \in Exams /\ marks[l][le[2]] # None
      BY <3>1
    <3> QED
      BY <3>2, ShareOf
  <2> QED
    BY <2>1 DEF Shares
<1>3. Reports!Sum(Shares(les)) \in Nat
  BY <1>1, <1>2, SumOver
<1>4. Cardinality(les) \in Nat \ {0}
  BY <1>1, FS_CardinalityType, FS_EmptySet
<1>5. Base * Cardinality(les) \in Nat \ {0}
  BY <1>4, ReportsAssumed
<1>6. Reports!Mean(les) = Reports!Rounded(1000 * Reports!Sum(Shares(les)), Base * Cardinality(les))
  BY <1>5, ReportsCards DEF Reports!Mean, Reports!Tenths, Shares
<1>7. Reports!Mean(les) \in Nat
  BY <1>3, <1>5, <1>6, RoundedAtLeast
<1> QED
  BY <1>1, <1>2, <1>3, <1>4, <1>5, <1>6, <1>7

\* The mean of n shares that sum up to s, and when it is k or more.
MeanShare(s, n) == Reports!Rounded(1000 * s, Base * n)
Threshold(k) == (2 * k - 1) * Base

\* Thresholds are numbers.
LEMMA ThresholdTyped == \A k \in Nat \ {0} : Threshold(k) \in Nat /\ k % 2 \in 0 .. 1
BY ReportsAssumed DEF Threshold

\* Such a mean is a number, and at least k from a threshold on.
LEMMA MeanAtLeast ==
  ASSUME NEW n \in Nat \ {0}, NEW s \in Nat, NEW k \in Nat \ {0}
  PROVE  /\ MeanShare(s, n) \in Nat
         /\ MeanShare(s, n) >= k <=> Threshold(k) * n + (k % 2) <= 2000 * s
<1>1. Base * n \in Nat \ {0} /\ 1000 * s \in Nat
  BY ReportsAssumed
<1>2. 2 * k - 1 \in Nat /\ (2 * k - 1) * Base \in Nat /\ k % 2 \in 0 .. 1
  BY ReportsAssumed
<1>3. MeanShare(s, n) >= k <=> (2 * k - 1) * (Base * n) + (k % 2) <= 2 * (1000 * s)
  <2> DEFINE a == 1000 * s
             d == Base * n
  <2>1. a \in Nat /\ d \in Nat \ {0}
    BY <1>1
  <2> HIDE DEF a, d
  <2>2. Reports!Rounded(a, d) >= k <=> (2 * k - 1) * d + (k % 2) <= 2 * a
    BY <2>1, RoundedAtLeast
  <2> QED
    BY <2>2 DEF MeanShare, a, d
<1>4. (2 * k - 1) * (Base * n) = ((2 * k - 1) * Base) * n
  BY <1>2, ReportsAssumed
<1>5. MeanShare(s, n) \in Nat
  BY <1>1, RoundedAtLeast DEF MeanShare
<1> QED
  BY <1>2, <1>3, <1>4, <1>5 DEF Threshold

\* The same for all such means.
LEMMA MeansAtLeast ==
  \A n, s, k : n \in Nat \ {0} /\ s \in Nat /\ k \in Nat \ {0} =>
    (MeanShare(s, n) >= k <=> Threshold(k) * n + (k % 2) <= 2000 * s)
BY MeanAtLeast

\* The mean over those of S that have the key of x.
GroupMean(key, S, x) == Reports!Mean({y \in S : key[y] = key[x]})

\* The mean over all lies between the means over the groups.
LEMMA MeanBetween ==
  ASSUME ReportsRows, NEW l \in Reports!Everyone, NEW les \in SUBSET Reports!Marked({l}, Exams), les # {},
         NEW K, NEW key \in [les -> K]
  PROVE  \E low, high \in les : Reports!Mean(les) \in GroupMean(key, les, low) .. GroupMean(key, les, high)
<1> DEFINE group(x) == {y \in les : key[y] = key[x]}
           f == Shares(les)
           ones == [y \in les |-> 1]
           sums == [x \in les |-> GroupSum(f, key, les, x)]
           sizes == [x \in les |-> GroupSum(ones, key, les, x)]
           means == [x \in les |-> Reports!Mean(group(x))]
           s == Reports!Sum(f)
           n == Cardinality(les)
           R == Reports!Mean(les)
<1>1. /\ IsFiniteSet(les) /\ f \in [les -> Nat] /\ s \in Nat /\ n \in Nat \ {0} /\ R = MeanShare(s, n) /\ R \in Nat
  BY MeanOf DEF MeanShare
<1>2. ones \in [les -> Nat] /\ Reports!Sum(ones) = n
  BY <1>1, SumOfOnes
<1>3. \A x \in les : sums[x] \in Nat /\ sizes[x] \in Nat \ {0} /\ means[x] = MeanShare(sums[x], sizes[x]) /\ means[x] \in Nat
  <2> SUFFICES ASSUME NEW x \in les
               PROVE  sums[x] \in Nat /\ sizes[x] \in Nat \ {0} /\ means[x] = MeanShare(sums[x], sizes[x]) /\ means[x] \in Nat
    OBVIOUS
  <2> DEFINE G == group(x)
  <2>1. G \in SUBSET Reports!Marked({l}, Exams) /\ G # {}
    OBVIOUS
  <2>2. [y \in G |-> f[y]] = Shares(G) /\ [y \in G |-> ones[y]] = [y \in G |-> 1]
    BY DEF Shares
  <2>3. sums[x] = Reports!Sum([y \in G |-> f[y]]) /\ sizes[x] = Reports!Sum([y \in G |-> ones[y]]) /\ means[x] = Reports!Mean(G)
    BY DEF GroupSum
  <2> HIDE DEF G, f, ones, sums, sizes, means
  <2>4. /\ IsFiniteSet(G) /\ Reports!Sum(Shares(G)) \in Nat /\ Cardinality(G) \in Nat \ {0}
        /\ Reports!Mean(G) = MeanShare(Reports!Sum(Shares(G)), Cardinality(G)) /\ Reports!Mean(G) \in Nat
    BY <2>1, MeanOf DEF MeanShare
  <2>5. Reports!Sum([y \in G |-> 1]) = Cardinality(G)
    BY <2>4, SumOfOnes
  <2> QED
    BY <2>2, <2>3, <2>4, <2>5
<1>4. ASSUME NEW a \in Nat, NEW b \in Nat, NEW u \in Nat, \A x \in les : a * sizes[x] + u <= b * sums[x]
      PROVE  a * n + u <= b * s
  <2>1. \A x \in les : a * GroupSum(ones, key, les, x) + u <= b * GroupSum(f, key, les, x)
    BY <1>4
  <2> HIDE DEF f, ones, s, n
  <2>2. a * Reports!Sum(ones) + u <= b * Reports!Sum(f)
    BY <1>1, <1>2, <2>1, SumGroups
  <2> QED
    BY <1>2, <2>2 DEF s
<1>5. ASSUME NEW a \in Nat, NEW b \in Nat, NEW u \in Nat, \A x \in les : b * sums[x] + u <= a * sizes[x]
      PROVE  b * s + u <= a * n
  <2>1. \A x \in les : b * GroupSum(f, key, les, x) + u <= a * GroupSum(ones, key, les, x)
    BY <1>5
  <2> HIDE DEF f, ones, s, n
  <2>2. b * Reports!Sum(f) + u <= a * Reports!Sum(ones)
    BY <1>1, <1>2, <2>1, SumGroups
  <2> QED
    BY <1>2, <2>2 DEF s
<1> HIDE DEF f, ones, sums, sizes, means, s, n, R
<1>6. \E x \in les : means[x] <= R
  <2> SUFFICES ASSUME \A x \in les : ~(means[x] <= R) PROVE FALSE
    OBVIOUS
  <2> DEFINE k == R + 1
  <2>1. k \in Nat \ {0} /\ ~(R >= k) /\ \A x \in les : means[x] >= k
    BY <1>1, <1>3
  <2> HIDE DEF k
  <2>2. ASSUME NEW x \in les PROVE Threshold(k) * sizes[x] + (k % 2) <= 2000 * sums[x]
    <3>1. MeanShare(sums[x], sizes[x]) >= k <=> Threshold(k) * sizes[x] + (k % 2) <= 2000 * sums[x]
      BY <1>3, <2>1, MeansAtLeast
    <3>2. MeanShare(sums[x], sizes[x]) >= k
      BY <1>3, <2>1
    <3> QED
      BY <3>1, <3>2
  <2>3. Threshold(k) \in Nat /\ k % 2 \in Nat
    BY <2>1, ThresholdTyped
  <2>4. Threshold(k) * n + (k % 2) <= 2000 * s
    BY <1>4, <2>2, <2>3
  <2>5. MeanShare(s, n) >= k <=> Threshold(k) * n + (k % 2) <= 2000 * s
    BY <1>1, <2>1, MeanAtLeast
  <2> QED
    BY <1>1, <2>1, <2>4, <2>5
<1>7. \E x \in les : R <= means[x]
  <2> SUFFICES ASSUME \A x \in les : ~(R <= means[x]) PROVE FALSE
    OBVIOUS
  <2>1. R \in Nat \ {0} /\ \A x \in les : ~(means[x] >= R)
    BY <1>1, <1>3
  <2>2. Threshold(R) \in Nat /\ R % 2 \in 0 .. 1
    BY <2>1, ThresholdTyped
  <2>3. ASSUME NEW x \in les PROVE 2000 * sums[x] + (1 - (R % 2)) <= Threshold(R) * sizes[x]
    <3>1. ~(Threshold(R) * sizes[x] + (R % 2) <= 2000 * sums[x])
      <4>1. MeanShare(sums[x], sizes[x]) >= R <=> Threshold(R) * sizes[x] + (R % 2) <= 2000 * sums[x]
        BY <1>3, <2>1, MeansAtLeast
      <4>2. ~(MeanShare(sums[x], sizes[x]) >= R)
        BY <1>3, <2>1
      <4> QED
        BY <4>1, <4>2
    <3>2. Threshold(R) * sizes[x] \in Nat /\ sums[x] \in Nat
      BY <1>3, <2>2
    <3> QED
      BY <2>2, <3>1, <3>2
  <2>4. 2000 * s + (1 - (R % 2)) <= Threshold(R) * n
    <3>1. 1 - (R % 2) \in Nat
      BY <2>2
    <3> QED
      BY <1>5, <2>2, <2>3, <3>1
  <2>5. Threshold(R) * n + (R % 2) <= 2000 * s
    <3>1. MeanShare(s, n) >= R <=> Threshold(R) * n + (R % 2) <= 2000 * s
      BY <1>1, <2>1, MeanAtLeast
    <3>2. MeanShare(s, n) >= R
      BY <1>1
    <3> QED
      BY <3>1, <3>2
  <2>6. Threshold(R) * n \in Nat
    BY <1>1, <2>2
  <2> QED
    BY <1>1, <2>2, <2>4, <2>5, <2>6
<1>8. PICK low \in les, high \in les : means[low] <= R /\ R <= means[high]
  BY <1>6, <1>7
<1>9. R \in means[low] .. means[high]
  BY <1>1, <1>3, <1>8
<1> QED
  BY <1>9 DEF means, R, GroupMean

\* The marks over which a learner's averages go.
LEMMA CountedOf ==
  ASSUME ReportsRows, NEW l \in Reports!Everyone
  PROVE  /\ UNION {Reports!Counted(l)[t] : t \in Reports!Terms} = Reports!Marked({l}, Exams)
         /\ \A t \in Reports!Terms :
              /\ Reports!Counted(l)[t] = {le \in Reports!Marked({l}, Exams) : le[2].term = t}
              /\ Reports!Counted(l)[t] = Reports!Marked({l}, Reports!OfTerm(t))
<1>1. ASSUME NEW t \in Reports!Terms
      PROVE  /\ Reports!Counted(l)[t] = Reports!Marked({l}, Reports!OfTerm(t))
             /\ Reports!Marked({l}, Reports!OfTerm(t)) = {le \in Reports!Marked({l}, Exams) : le[2].term = t}
  <2>1. Reports!Counted(l)[t] = Reports!Marked({l}, Reports!OfTerm(t))
    BY DEF Reports!Counted
  <2>2. Reports!Marked({l}, Reports!OfTerm(t)) = {le \in Reports!Marked({l}, Exams) : le[2].term = t}
    BY DEF Reports!Marked, Reports!OfTerm
  <2> QED
    BY <2>1, <2>2
<1>2. \A le \in Reports!Marked({l}, Exams) : le[2].term \in Reports!Terms
  BY DEF Reports!Marked, Reports!Terms
<1>3. UNION {Reports!Counted(l)[t] : t \in Reports!Terms} = Reports!Marked({l}, Exams)
  <2> DEFINE c == Reports!Counted(l)
             M == Reports!Marked({l}, Exams)
  <2>1. \A t \in Reports!Terms : c[t] = {le \in M : le[2].term = t}
    BY <1>1
  <2>2. \A le \in M : le[2].term \in Reports!Terms
    BY <1>2
  <2> HIDE DEF c, M
  <2>3. ASSUME NEW le \in UNION {c[t] : t \in Reports!Terms} PROVE le \in M
    BY <2>1
  <2>4. ASSUME NEW le \in M PROVE le \in UNION {c[t] : t \in Reports!Terms}
    BY <2>1, <2>2
  <2> QED
    BY <2>3, <2>4 DEF c, M
<1> QED
  BY <1>1, <1>3

\* The overall average is the mean of all marks, 0 of none.
LEMMA OverallIs ==
  ASSUME ReportsRows, NEW l \in Reports!Everyone
  PROVE  /\ Reports!OverallAverage(l) = Reports!Mean(Reports!Marked({l}, Exams))
         /\ Reports!OverallAverage(l) \in Nat
<1>1. Reports!OverallAverage(l) = Reports!Mean(Reports!Marked({l}, Exams))
  BY CountedOf DEF Reports!OverallAverage
<1>2. CASE Reports!Marked({l}, Exams) = {}
  <2>1. Base * Reports!Cardinality({}) = 0
    BY ReportsCards, FS_EmptySet, ReportsAssumed
  <2>2. Reports!Mean({}) = 0
    BY <2>1 DEF Reports!Mean, Reports!Tenths
  <2> QED
    BY <1>1, <1>2, <2>2
<1>3. CASE Reports!Marked({l}, Exams) # {}
  BY <1>1, <1>3, MeanOf
<1> QED
  BY <1>1, <1>2, <1>3

\* The average of rounded percentages is near the rounded average.
LEMMA SheetIsNear == ReportsRows => Reports!SheetNearCard
<1> SUFFICES ASSUME ReportsRows, NEW l \in ClassList
             PROVE  Reports!ClassCsvAverage(l) - Reports!OverallAverage(l) \in -1 .. 1
  BY DEF Reports!SheetNearCard
<1> DEFINE es == {e \in Exams : marks[l][e] # None}
           M == Reports!Marked({l}, Exams)
           f == [e \in es |-> Reports!Share(<<l, e>>)]
           g == [e \in es |-> Reports!Percentage(l, e)]
           n == Cardinality(es)
           S == Reports!Sum(f)
           P == Reports!Sum(g)
           C == Reports!ClassCsvAverage(l)
           O == Reports!OverallAverage(l)
<1>1. l \in Reports!Everyone /\ M = {l} \X es /\ IsFiniteSet(es)
  BY MarksOf DEF Reports!Everyone
<1>2. f \in [es -> Nat] /\ g \in [es -> Nat]
  <2>1. \A e \in es : Reports!Share(<<l, e>>) \in Nat /\ Reports!Percentage(l, e) \in Nat
    BY <1>1, ShareOf
  <2> QED
    BY <2>1
<1>3. CASE es = {}
  <2>1. C = 0
    BY <1>3 DEF Reports!ClassCsvAverage
  <2>2. M = {} /\ O = Reports!Mean(M)
    BY <1>1, <1>3, OverallIs
  <2>3. Base * Reports!Cardinality({}) = 0
    BY ReportsCards, FS_EmptySet, ReportsAssumed
  <2>4. Reports!Mean({}) = 0
    BY <2>3 DEF Reports!Mean, Reports!Tenths
  <2> HIDE DEF M, C, O
  <2>5. C - O = 0
    BY <2>1, <2>2, <2>4
  <2> QED
    BY <2>5 DEF C, O
<1>4. CASE es # {}
  <2>1. n \in Nat \ {0} /\ S \in Nat /\ P \in Nat
    <3> HIDE DEF es, f, g
    <3> QED
      BY <1>1, <1>2, <1>4, SumOver, FS_CardinalityType, FS_EmptySet
  <2>2. C = Reports!Rounded(P, n)
    BY <1>4, ReportsCards DEF Reports!ClassCsvAverage
  <2>3. O = Reports!Rounded(1000 * S, Base * n)
    <3>1. M # {} /\ M \in SUBSET Reports!Marked({l}, Exams)
      <4>1. PICK e : e \in es
        BY <1>4
      <4>2. <<l, e>> \in {l} \X es
        BY <4>1
      <4> QED
        BY <1>1, <4>2
    <3>2. O = Reports!Rounded(1000 * Reports!Sum(Shares(M)), Base * Cardinality(M))
      <4>1. O = Reports!Mean(M)
        BY <1>1, OverallIs
      <4> HIDE DEF M, O
      <4> QED
        BY <1>1, <3>1, <4>1, MeanOf
    <3>3. Shares(M) = [p \in {l} \X es |-> f[p[2]]]
      <4>1. \A p \in {l} \X es : p = <<l, p[2]>> /\ p[2] \in es
        OBVIOUS
      <4>2. \A p \in {l} \X es : f[p[2]] = Reports!Share(p)
        BY <4>1
      <4> HIDE DEF f, es, M
      <4> QED
        BY <1>1, <4>2 DEF Shares
    <3> HIDE DEF f, es, M
    <3>4. Reports!Sum(Shares(M)) = S /\ Cardinality(M) = n
      BY <1>1, <1>2, <3>3, SumOfPairs DEF S, n
    <3> QED
      BY <3>2, <3>4
  <2>4. \A e \in es : /\ 2000 * f[e] <= 2 * Base * g[e] + Base
                      /\ 2 * Base * g[e] <= 2000 * f[e] + Base
    <3> SUFFICES ASSUME NEW e \in es
                 PROVE  2000 * f[e] <= 2 * Base * g[e] + Base /\ 2 * Base * g[e] <= 2000 * f[e] + Base
      OBVIOUS
    <3> DEFINE a == 1000 * Reports!Share(<<l, e>>)
    <3>1. a \in Nat /\ g[e] = Reports!Rounded(a, Base) /\ 2 * a = 2000 * f[e]
      BY <1>1, ShareOf
    <3>2. f[e] = Reports!Share(<<l, e>>) /\ f[e] \in Nat /\ g[e] \in Nat
      BY <1>2
    <3> DEFINE r == g[e]
    <3> HIDE DEF a, f, g, r
    <3>3. 2 * a <= 2 * Base * r + Base /\ 2 * Base * r <= 2 * a + Base
      <4>1. r = Reports!Rounded(a, Base)
        BY <3>1 DEF r
      <4> QED
        BY <3>1, <4>1, RoundedNear, ReportsAssumed
    <3> QED
      BY <3>1, <3>3 DEF r
  <2> HIDE DEF es, f, g, n, S, P, C, O
  <2> DEFINE b == 2 * Base
  <2> USE DEF S, P, n
  <2>5. 2000 * S + 0 * n <= b * P + Base * n
    <3>1. \A e \in es : 2000 * f[e] + 0 <= b * g[e] + Base
      BY <1>2, <2>4, ReportsAssumed
    <3>2. b \in Nat
      BY ReportsAssumed
    <3> HIDE DEF b
    <3> QED
      BY <1>1, <1>2, <3>1, <3>2, SumBound, ReportsAssumed
  <2>6. b * P + 0 * n <= 2000 * S + Base * n
    <3>1. \A e \in es : b * g[e] + 0 <= 2000 * f[e] + Base
      BY <1>2, <2>4, ReportsAssumed
    <3>2. b \in Nat /\ Base \in Nat /\ 0 \in Nat /\ 2000 \in Nat
      BY ReportsAssumed
    <3> HIDE DEF b
    <3>3. \A c1, c2 \in Nat : (\A e \in es : b * g[e] + c1 <= 2000 * f[e] + c2) => b * P + c1 * n <= 2000 * S + c2 * n
      BY <1>1, <1>2, <3>2, SumBound
    <3> QED
      BY <3>1, <3>2, <3>3
  <2> HIDE DEF S, P, n
  <2>7. 2 * P <= 2 * n * C + n /\ 2 * n * C <= 2 * P + n /\ C \in Nat
    BY <2>1, <2>2, RoundedNear, RoundedAtLeast
  <2> DEFINE N == Base * n
             Q == Base * P
  <2>8. N \in Nat \ {0} /\ 1000 * S \in Nat /\ Q \in Nat
    BY <2>1, ReportsAssumed
  <2>9. 2 * Q <= 2 * N * C + N /\ 2 * N * C <= 2 * Q + N
    <3>1. 2 * n * C + n \in Nat /\ 2 * P + n \in Nat /\ 2 * n * C \in Nat /\ 2 * P \in Nat
      BY <2>1, <2>7
    <3>2. (2 * P) * Base <= (2 * n * C + n) * Base /\ (2 * n * C) * Base <= (2 * P + n) * Base
      BY <2>7, <3>1, TimesGrows, ReportsAssumed
    <3>3. /\ (2 * P) * Base = 2 * Q /\ (2 * n * C + n) * Base = 2 * N * C + N
          /\ (2 * n * C) * Base = 2 * N * C /\ (2 * P + n) * Base = 2 * Q + N
      BY <2>1, <2>7, ReportsAssumed
    <3> QED
      BY <3>2, <3>3
  <2>10. 2000 * S <= 2 * Q + N /\ 2 * Q <= 2000 * S + N
    BY <2>1, <2>5, <2>6, ReportsAssumed
  <2>11. O = Reports!Rounded(1000 * S, N)
    BY <2>3
  <2> HIDE DEF N, Q
  <2>12. 2000 * S <= 2 * N * O + N /\ 2 * N * O <= 2000 * S + N /\ O \in Nat
    <3> DEFINE a == 1000 * S
    <3>1. a \in Nat /\ O = Reports!Rounded(a, N)
      BY <2>8, <2>11
    <3> HIDE DEF a
    <3>2. 2 * a <= 2 * N * O + N /\ 2 * N * O <= 2 * a + N /\ O \in Nat
      BY <2>8, <3>1, RoundedNear, RoundedAtLeast
    <3> QED
      BY <2>1, <3>2 DEF a
  <2>13. 2 * N * C <= 2 * N * O + 3 * N /\ 2 * N * O <= 2 * N * C + 3 * N
    BY <2>1, <2>7, <2>8, <2>9, <2>10, <2>12
  <2>14. ASSUME NEW x \in Nat, NEW y \in Nat, 2 * N * x <= 2 * N * y + 3 * N PROVE x <= y + 1
    <3> SUFFICES ASSUME y + 2 <= x PROVE FALSE
      BY <2>14
    <3>1. (y + 2) * (2 * N) <= x * (2 * N)
      BY <2>8, TimesGrows
    <3>2. (y + 2) * (2 * N) = 2 * N * y + 4 * N /\ x * (2 * N) = 2 * N * x
      BY <2>8
    <3>3. 2 * N * x \in Nat /\ 2 * N * y \in Nat
      BY <2>8
    <3> QED
      BY <2>8, <2>14, <3>1, <3>2, <3>3
  <2>15. C <= O + 1 /\ O <= C + 1
    BY <2>7, <2>12, <2>13, <2>14
  <2>16. C - O \in -1 .. 1
    BY <2>7, <2>12, <2>15
  <2> QED
    BY <2>16 DEF C, O
<1> QED
  BY <1>3, <1>4

\* A single mark's mean is its percentage.
LEMMA MeanOfOne ==
  ASSUME ReportsRows, NEW l \in Reports!Everyone, NEW e \in Exams, marks[l][e] # None
  PROVE  Reports!Mean({<<l, e>>}) = Reports!Percentage(l, e)
<1> DEFINE p == <<l, e>>
           f == Shares({p})
<1>1. p \in Reports!Marked({l}, Exams)
  BY MarksOf
<1> HIDE DEF p
<1>2. Cardinality({p}) = 1
  BY FS_Singleton
<1>3. /\ IsFiniteSet({p}) /\ f \in [{p} -> Nat] /\ Reports!Sum(f) \in Nat
      /\ Reports!Mean({p}) = Reports!Rounded(1000 * Reports!Sum(f), Base * Cardinality({p}))
  BY <1>1, MeanOf
<1>4. f[p] = Reports!Share(p) /\ f[p] \in Nat
  BY <1>3 DEF Shares
<1>5. Reports!Sum(f) = f[p]
  <2> DEFINE g == [x \in {p} |-> f[p]]
  <2> HIDE DEF f
  <2>1. \A S : S = {p} => \A x \in S : 1 * f[x] + 0 <= 0 * f[x] + f[p]
    BY <1>3
  <2>2. \A S : S = {p} => \A x \in S : 0 * f[x] + f[p] <= 1 * f[x] + 0
    BY <1>3
  <2>3. 1 * Reports!Sum(f) + 0 * Cardinality({p}) <= 0 * Reports!Sum(f) + f[p] * Cardinality({p})
    BY <1>3, <1>4, <2>1, SumBound
  <2>4. 0 * Reports!Sum(f) + f[p] * Cardinality({p}) <= 1 * Reports!Sum(f) + 0 * Cardinality({p})
    BY <1>3, <1>4, <2>2, SumBound
  <2> QED
    BY <1>2, <1>3, <1>4, <2>3, <2>4
<1>6. Base * Cardinality({p}) = Base
  BY <1>2, ReportsAssumed
<1> HIDE DEF f
<1> QED
  BY <1>3, <1>4, <1>5, <1>6, ShareOf DEF p

\* The percentages printed above a term's average.
Printed(l, t) ==
  {Reports!SbaRows(l)[e].percentage : e \in {f \in Exams : Reports!SbaRows(l)[f].term = t}} \ {None}

\* They are those of the marks of the term.
LEMMA PrintedOf ==
  ASSUME ReportsRows, NEW l \in Reports!Everyone, NEW t \in Reports!Terms
  PROVE  Printed(l, t) = {Reports!Percentage(l, le[2]) : le \in Reports!Counted(l)[t]}
<1> DEFINE table == Reports!SbaRows(l)
           C == Reports!Counted(l)[t]
<1>1. \A e \in Exams : /\ table[e].term = e.term
                       /\ table[e].percentage = IF marks[l][e] = None THEN None ELSE Reports!Percentage(l, e)
  BY DEF Reports!SbaRows
<1>2. \A e \in Exams : marks[l][e] # None => Reports!Percentage(l, e) # None
  <2> SUFFICES ASSUME NEW e \in Exams, marks[l][e] # None PROVE Reports!Percentage(l, e) # None
    OBVIOUS
  <2>1. Reports!Percentage(l, e) \in Nat
    BY ShareOf, ZenonT(30)
  <2> QED
    BY <2>1, ReportsAssumed
<1>3. \A le : le \in C <=> le \in {l} \X {e \in Exams : marks[l][e] # None} /\ le[2].term = t
  <2> DEFINE M == Reports!Marked({l}, Exams)
  <2>1. C = {le \in M : le[2].term = t}
    BY CountedOf
  <2>2. M = {l} \X {e \in Exams : marks[l][e] # None}
    BY MarksOf
  <2> HIDE DEF C, M
  <2> QED
    BY <2>1, <2>2
<1>4. \A e \in Exams : e.term = t /\ marks[l][e] # None => <<l, e>> \in C /\ <<l, e>>[2] = e
  BY <1>3
<1>5. \A le \in C : le[2] \in Exams /\ le[2].term = t /\ marks[l][le[2]] # None
  BY <1>3
<1> HIDE DEF table, C
<1>6. ASSUME NEW x, x \in Printed(l, t) PROVE x \in {Reports!Percentage(l, le[2]) : le \in C}
  <2>1. PICK e \in Exams : table[e].term = t /\ x = table[e].percentage /\ x # None
    BY <1>6 DEF Printed, table
  <2>2. marks[l][e] # None /\ x = Reports!Percentage(l, e) /\ e.term = t
    BY <1>1, <2>1
  <2>3. <<l, e>> \in C /\ <<l, e>>[2] = e
    BY <1>4, <2>2
  <2> QED
    BY <2>2, <2>3
<1>7. ASSUME NEW x, x \in {Reports!Percentage(l, le[2]) : le \in C} PROVE x \in Printed(l, t)
  <2>1. PICK le \in C : x = Reports!Percentage(l, le[2])
    BY <1>7
  <2>2. PICK e \in Exams : e = le[2] /\ e.term = t /\ marks[l][e] # None
    BY <1>5
  <2>3. table[e].term = t /\ table[e].percentage = x /\ x # None
    BY <1>1, <1>2, <2>1, <2>2
  <2> QED
    BY <2>3 DEF Printed, table
<1> QED
  BY <1>6, <1>7 DEF C

\* The average of a term lies between the percentages printed for it.
LEMMA TermBetween ==
  ASSUME ReportsRows, NEW l \in Reports!Everyone, NEW t \in Reports!Terms, Reports!Counted(l)[t] # {}
  PROVE  \E low, high \in Printed(l, t) : Reports!Mean(Reports!Counted(l)[t]) \in low .. high
<1> DEFINE C == Reports!Counted(l)[t]
           key == [le \in C |-> le]
<1>1. C \in SUBSET Reports!Marked({l}, Exams) /\ C # {}
  BY CountedOf
<1>2. \A x \in C : {y \in C : key[y] = key[x]} = {x}
  OBVIOUS
<1>3. key \in [C -> C]
  OBVIOUS
<1>4. \A x \in C : Reports!Mean({x}) = Reports!Percentage(l, x[2])
  <2> SUFFICES ASSUME NEW x \in C PROVE Reports!Mean({x}) = Reports!Percentage(l, x[2])
    OBVIOUS
  <2>1. x \in {l} \X {e \in Exams : marks[l][e] # None}
    BY <1>1, MarksOf
  <2>2. x = <<l, x[2]>> /\ x[2] \in Exams /\ marks[l][x[2]] # None
    BY <2>1
  <2> QED
    BY <2>2, MeanOfOne
<1>5. Printed(l, t) = {Reports!Percentage(l, le[2]) : le \in C}
  BY PrintedOf
<1> HIDE DEF C, key
<1>6. PICK low \in C, high \in C : Reports!Mean(C) \in GroupMean(key, C, low) .. GroupMean(key, C, high)
  <2>1. \E low, high \in C : Reports!Mean(C) \in GroupMean(key, C, low) .. GroupMean(key, C, high)
    BY <1>1, <1>3, MeanBetween
  <2> QED
    BY <2>1
<1>7. Reports!Mean(C) \in Reports!Percentage(l, low[2]) .. Reports!Percentage(l, high[2])
  <2>1. \A x \in C : GroupMean(key, C, x) = Reports!Percentage(l, x[2])
    BY <1>2, <1>4 DEF GroupMean
  <2> QED
    BY <1>6, <2>1
<1>8. Reports!Percentage(l, low[2]) \in Printed(l, t) /\ Reports!Percentage(l, high[2]) \in Printed(l, t)
  BY <1>5
<1> QED
  BY <1>7, <1>8 DEF C

\* The overall average lies between those of the terms.
LEMMA OverallBetween ==
  ASSUME ReportsRows, NEW l \in Reports!Everyone, NEW a, a = Reports!TermAverages(l), DOMAIN a # {}
  PROVE  \E low, high \in DOMAIN a : Reports!OverallAverage(l) \in a[low] .. a[high]
<1> DEFINE M == Reports!Marked({l}, Exams)
           key == [le \in M |-> le[2].term]
           term(x) == {y \in M : key[y] = key[x]}
<1>1. /\ DOMAIN a = {t \in Reports!Terms : Reports!Counted(l)[t] # {}}
      /\ \A t \in DOMAIN a : a[t] = Reports!Mean(Reports!Counted(l)[t])
  BY DEF Reports!TermAverages
<1>2. \A t \in Reports!Terms : Reports!Counted(l)[t] = {y \in M : y[2].term = t}
  BY CountedOf
<1>3. M # {}
  BY <1>1, <1>2
<1>4. \A x \in M : key[x] \in Reports!Terms /\ x[2].term = key[x]
  BY DEF Reports!Marked, Reports!Terms
<1>5. \A x \in M : term(x) = Reports!Counted(l)[key[x]] /\ x \in term(x)
  BY <1>2, <1>4
<1>6. \A x \in M : key[x] \in DOMAIN a /\ a[key[x]] = Reports!Mean(term(x))
  <2> SUFFICES ASSUME NEW x \in M PROVE key[x] \in DOMAIN a /\ a[key[x]] = Reports!Mean(term(x))
    OBVIOUS
  <2> HIDE DEF M, key
  <2>1. key[x] \in DOMAIN a
    BY <1>1, <1>4, <1>5
  <2> QED
    BY <1>1, <1>5, <2>1
<1>7. Reports!OverallAverage(l) = Reports!Mean(M)
  BY OverallIs
<1>8. key \in [M -> Reports!Terms]
  BY <1>4
<1>9. M \in SUBSET Reports!Marked({l}, Exams)
  OBVIOUS
<1> HIDE DEF M, key
<1>10. PICK low \in M, high \in M : Reports!Mean(M) \in GroupMean(key, M, low) .. GroupMean(key, M, high)
  <2>1. \E low, high \in M : Reports!Mean(M) \in GroupMean(key, M, low) .. GroupMean(key, M, high)
    BY <1>3, <1>8, <1>9, MeanBetween
  <2> QED
    BY <2>1
<1>11. \A x \in M : GroupMean(key, M, x) = a[key[x]] /\ key[x] \in DOMAIN a
  BY <1>6 DEF GroupMean
<1> QED
  BY <1>7, <1>10, <1>11

\* On a card each average lies between those it is taken over.
LEMMA CardsAreBetween == ReportsRows => Reports!OverallBetweenTerms
<1> SUFFICES ASSUME ReportsRows, NEW l \in ClassList, NEW a, a = Reports!TermAverages(l)
             PROVE  /\ DOMAIN a # {} =>
                         \E low, high \in DOMAIN a : Reports!OverallAverage(l) \in a[low] .. a[high]
                    /\ DOMAIN a = {t \in Reports!Terms : Printed(l, t) # {}}
                    /\ \A t \in DOMAIN a : \E low, high \in Printed(l, t) : a[t] \in low .. high
  BY DEF Reports!OverallBetweenTerms, Printed
<1>1. l \in Reports!Everyone
  BY DEF Reports!Everyone
<1>2. /\ DOMAIN a = {t \in Reports!Terms : Reports!Counted(l)[t] # {}}
      /\ \A t \in DOMAIN a : a[t] = Reports!Mean(Reports!Counted(l)[t])
  BY DEF Reports!TermAverages
<1>3. \A t \in Reports!Terms : Printed(l, t) # {} <=> Reports!Counted(l)[t] # {}
  BY <1>1, PrintedOf
<1>4. \A t \in DOMAIN a : \E low, high \in Printed(l, t) : a[t] \in low .. high
  BY <1>1, <1>2, TermBetween
<1> QED
  BY <1>1, <1>2, <1>3, <1>4, OverallBetween

\* A learner of the ranking has the average of the card, and whoever of the
\* class has a mark is in the ranking.
LEMMA RankingOf ==
  ASSUME ReportsRows
  PROVE  /\ \A r \in Reports!Ranking : /\ r.name \in ClassList /\ r.average \in Nat
                                       /\ r.average = Reports!OverallAverage(r.name)
                                       /\ r = [name |-> r.name, average |-> Reports!OverallAverage(r.name)]
         /\ \A l \in ClassList : Reports!Marked({l}, Exams) # {} =>
              [name |-> l, average |-> Reports!OverallAverage(l)] \in Reports!Ranking
         /\ IsFiniteSet(Reports!Ranking)
<1> DEFINE entry(l) == [name |-> l, average |-> Reports!OverallAverage(l)]
           S == {k \in ClassList : Reports!Marked({k}, Exams) # {}}
           j == [l \in S |-> entry(l)]
<1>1. \A l \in ClassList : /\ Reports!OverallAverage(l) = Reports!Mean(Reports!Marked({l}, Exams))
                           /\ Reports!OverallAverage(l) \in Nat
  BY OverallIs DEF Reports!Everyone
<1>2. Reports!Ranking = {entry(l) : l \in S}
  BY <1>1 DEF Reports!Ranking
<1>3. IsFiniteSet(S)
  <2>1. S \subseteq ClassList
    OBVIOUS
  <2> QED
    BY <2>1, ReportsAssumed, FS_Subset
<1>4. j \in Surjection(S, Reports!Ranking)
  <2> HIDE DEF S
  <2> QED
    BY <1>2 DEF Surjection
<1>5. IsFiniteSet(Reports!Ranking)
  <2> HIDE DEF j, S
  <2> QED
    BY <1>3, <1>4, FS_Surjection
<1>6. \A l \in S : entry(l) \in Reports!Ranking
  BY <1>2
<1>7. ASSUME NEW r \in Reports!Ranking
      PROVE  /\ r.name \in ClassList /\ r.average \in Nat /\ r.average = Reports!OverallAverage(r.name)
             /\ r = entry(r.name)
  <2>1. PICK l \in S : r = entry(l)
    BY <1>2
  <2> QED
    BY <1>1, <2>1
<1> QED
  BY <1>5, <1>6, <1>7

\* Fewer are before who is before another; so too from the end.
LEMMA BeforeCounts ==
  ASSUME NEW R, IsFiniteSet(R), \A r \in R : r.average \in Nat, NEW a \in R, NEW b \in R, b.average < a.average
  PROVE  /\ Cardinality({q \in R : Reports!Before(q, a)}) <= Cardinality({q \in R : Reports!Before(q, b)})
         /\ Cardinality({q \in R : Reports!Before(b, q)}) <= Cardinality({q \in R : Reports!Before(a, q)})
         /\ \A q \in R : /\ Cardinality({p \in R : Reports!Before(p, q)}) \in Nat
                         /\ Cardinality({p \in R : Reports!Before(q, p)}) \in Nat
<1> DEFINE ahead(x) == {q \in R : Reports!Before(q, x)}
           later(x) == {q \in R : Reports!Before(x, q)}
<1>1. \A T \in SUBSET R : IsFiniteSet(T) /\ Cardinality(T) \in Nat
  BY FS_Subset, FS_CardinalityType
<1>2. ahead(a) \subseteq ahead(b) /\ later(b) \subseteq later(a)
  BY DEF Reports!Before
<1>3. \A x : ahead(x) \in SUBSET R /\ later(x) \in SUBSET R
  OBVIOUS
<1> HIDE DEF ahead, later
<1>4. Cardinality(ahead(a)) <= Cardinality(ahead(b)) /\ Cardinality(later(b)) <= Cardinality(later(a))
  BY <1>1, <1>2, <1>3, FS_Subset
<1>5. \A q \in R : Cardinality(ahead(q)) \in Nat /\ Cardinality(later(q)) \in Nat
  BY <1>1, <1>3
<1> QED
  BY <1>4, <1>5 DEF ahead, later

\* The lists of the analytics agree with the cards.
LEMMA RankingIsOfCards == ReportsRows => Reports!RankingMatchesCards
<1> DEFINE R == Reports!Ranking
           ahead(x) == {q \in R : Reports!Before(q, x)}
           later(x) == {q \in R : Reports!Before(x, q)}
           entry(l) == [name |-> l, average |-> Reports!OverallAverage(l)]
<1> SUFFICES ASSUME ReportsRows PROVE Reports!RankingMatchesCards
  OBVIOUS
<1>1. /\ \A r \in R : r.name \in ClassList /\ r.average \in Nat /\ r.average = Reports!OverallAverage(r.name)
      /\ \A l \in ClassList : Reports!Marked({l}, Exams) # {} => entry(l) \in R
      /\ IsFiniteSet(R)
  BY RankingOf
<1>2. /\ Reports!TopLearners = {r \in R : Cardinality(ahead(r)) < ListedLearners}
      /\ Reports!BottomLearners = {r \in R : Cardinality(later(r)) < ListedLearners}
  BY ReportsCards DEF Reports!TopLearners, Reports!BottomLearners
<1>3. ListedLearners \in Nat
  BY ReportsAssumed
<1>4. \A a, b \in R : b.average < a.average =>
        Cardinality(ahead(a)) <= Cardinality(ahead(b)) /\ Cardinality(later(b)) <= Cardinality(later(a))
  BY <1>1, BeforeCounts
<1>5. \A q \in R : Cardinality(ahead(q)) \in Nat /\ Cardinality(later(q)) \in Nat
  <2>1. \A q \in R : ahead(q) \in SUBSET R /\ later(q) \in SUBSET R
    OBVIOUS
  <2>2. \A T \in SUBSET R : Cardinality(T) \in Nat
    BY <1>1, FS_Subset, FS_CardinalityType
  <2> HIDE DEF ahead, later, R
  <2> QED
    BY <2>1, <2>2
<1>6. \A l : entry(l).name = l /\ entry(l).average = Reports!OverallAverage(l)
  OBVIOUS
<1> HIDE DEF R, ahead, later, entry
<1>7. \A r \in Reports!TopLearners \cup Reports!BottomLearners :
         r.name \in ClassList /\ r.average = Reports!OverallAverage(r.name)
  BY <1>1, <1>2
<1>8. ASSUME NEW l \in ClassList, Reports!Marked({l}, Exams) # {}
      PROVE  /\ \A r \in Reports!TopLearners : r.average < Reports!OverallAverage(l) =>
                  entry(l) \in Reports!TopLearners
             /\ \A r \in Reports!BottomLearners : r.average > Reports!OverallAverage(l) =>
                  entry(l) \in Reports!BottomLearners
  <2>1. entry(l) \in R /\ entry(l).average = Reports!OverallAverage(l) /\ entry(l).average \in Nat
    BY <1>1, <1>6, <1>8
  <2>2. ASSUME NEW r \in Reports!TopLearners, r.average < Reports!OverallAverage(l)
        PROVE  entry(l) \in Reports!TopLearners
    <3>1. r \in R /\ Cardinality(ahead(r)) < ListedLearners /\ r.average < entry(l).average
      BY <1>2, <2>1, <2>2
    <3>2. Cardinality(ahead(entry(l))) <= Cardinality(ahead(r))
      BY <1>4, <2>1, <3>1
    <3>3. Cardinality(ahead(entry(l))) < ListedLearners
      BY <1>3, <1>5, <2>1, <3>1, <3>2
    <3> QED
      BY <1>2, <2>1, <3>3
  <2>3. ASSUME NEW r \in Reports!BottomLearners, r.average > Reports!OverallAverage(l)
        PROVE  entry(l) \in Reports!BottomLearners
    <3>1. r \in R /\ Cardinality(later(r)) < ListedLearners /\ r.average \in Nat /\ entry(l).average < r.average
      BY <1>1, <1>2, <2>1, <2>3
    <3>2. Cardinality(later(entry(l))) <= Cardinality(later(r))
      BY <1>4, <2>1, <3>1
    <3>3. Cardinality(later(entry(l))) < ListedLearners
      BY <1>3, <1>5, <2>1, <3>1, <3>2
    <3> QED
      BY <1>2, <2>1, <3>3
  <2> QED
    BY <2>2, <2>3
<1>9. ASSUME NEW l \in ClassList, Reports!Marked({l}, Exams) # {}
      PROVE  /\ \A r \in Reports!TopLearners : r.average < Reports!OverallAverage(l) =>
                  \E t \in Reports!TopLearners : t.name = l
             /\ \A r \in Reports!BottomLearners : r.average > Reports!OverallAverage(l) =>
                  \E t \in Reports!BottomLearners : t.name = l
  BY <1>6, <1>8, <1>9
<1> QED
  BY <1>7, <1>9 DEF Reports!RankingMatchesCards

\* With more to be had, as many points are a smaller share.
LEMMA RoundedFalls ==
  ASSUME NEW a \in Nat, NEW p \in Nat \ {0}, NEW q \in Nat \ {0}, p <= q
  PROVE  Reports!Rounded(a, p) >= Reports!Rounded(a, q)
<1> DEFINE k == Reports!Rounded(a, q)
           R == Reports!Rounded(a, p)
<1>1. k \in Nat /\ R \in Nat
  BY RoundedAtLeast
<1>2. CASE k = 0
  BY <1>1, <1>2
<1>3. CASE k # 0
  <2>1. Reports!Rounded(a, q) >= k <=> (2 * k - 1) * q + (k % 2) <= 2 * a
    <3> HIDE DEF k
    <3> QED
      BY <1>1, <1>3, RoundedAtLeast
  <2>2. Reports!Rounded(a, q) >= k
    BY <1>1
  <2> HIDE DEF k, R
  <2> DEFINE c == 2 * k - 1
             X == c * q
             Y == c * p
  <2>3. c \in Nat /\ k % 2 \in 0 .. 1 /\ X \in Nat /\ Y \in Nat /\ X + (k % 2) <= 2 * a
    BY <1>1, <1>3, <2>1, <2>2
  <2>4. Y <= X
    <3>1. p * c <= q * c
      <4> HIDE DEF c
      <4> QED
        BY <2>3, TimesGrows
    <3>2. p * c = Y /\ q * c = X
      BY <2>3
    <3> QED
      BY <3>1, <3>2
  <2>5. Reports!Rounded(a, p) >= k <=> Y + (k % 2) <= 2 * a
    BY <1>1, <1>3, RoundedAtLeast
  <2> HIDE DEF X, Y
  <2> QED
    BY <2>3, <2>4, <2>5 DEF R, k
<1> QED
  BY <1>2, <1>3

\* A card's percentage is of the items that are scored, the summary's of all.
LEMMA CardsAreAbove == ReportsRows => Reports!CardAboveSummary
<1> DEFINE mx == [i \in Items |-> Reports!MaxLevel(i)]
           Columns == Reports!Columns
<1> SUFFICES ASSUME ReportsRows, NEW l \in ClassList, Reports!ReportCard(l) # None
             PROVE  /\ Reports!ReportCard(l).percentage >= Reports!SummaryPercentage(l)
                    /\ DOMAIN Reports!ReportCard(l).rows = Columns =>
                         Reports!ReportCard(l).percentage = Reports!SummaryPercentage(l)
  BY DEF Reports!CardAboveSummary
<1> DEFINE is == Reports!Scored(l)
           lv == [i \in is |-> levels[l][i]]
           table == Reports!CardRows(l)
           A == Reports!Sum(lv)
           P == Reports!Sum([i \in is |-> Reports!MaxLevel(i)])
           Q == Reports!MaxOf(Columns)
<1>1. is \subseteq Columns /\ Columns \subseteq Items /\ is \subseteq Items
  BY DEF Reports!Scored, Reports!Columns, ReportsRows
<1>2. IsFiniteSet(Items) /\ IsFiniteSet(is) /\ IsFiniteSet(Columns)
  BY <1>1, ReportsAssumed, FS_Subset
<1>3. lv \in [is -> Nat]
  BY DEF Reports!Scored, ReportsRows
<1>4. mx \in [Items -> Nat] /\ \A i \in Items : mx[i] \in Nat \ {0}
  <2>1. \A i \in Items : Reports!MaxLevel(i) \in Nat \ {0}
    BY ReportsAssumed DEF Reports!MaxLevel, ReportsRows
  <2> QED
    BY <2>1
<1>5. /\ DOMAIN table = is /\ [i \in DOMAIN table |-> table[i].level] = lv
      /\ [i \in DOMAIN table |-> table[i].max] = [i \in is |-> Reports!MaxLevel(i)]
  BY DEF Reports!CardRows
<1>6. is # {} /\ Reports!ReportCard(l) = [rows |-> table, total |-> A, possible |-> P, percentage |-> Reports!Tenths(A, P)]
  <2> HIDE DEF table, is, lv
  <2> QED
    BY <1>5 DEF Reports!ReportCard, table
<1>7. Reports!SummaryPercentage(l) = Reports!Tenths(A, Q)
  <2>1. Columns \cap is = is
    BY <1>1
  <2>2. Reports!Total(l, Columns) = A
    BY <2>1 DEF Reports!Total
  <2> QED
    BY <2>2 DEF Reports!SummaryPercentage
<1>8. is = Columns => P = Q
  BY DEF Reports!MaxOf
<1>9. P = Size(mx, is) /\ Q = Size(mx, Columns) /\ P \in Nat /\ Q \in Nat /\ P <= Q
  <2>1. [i \in is |-> mx[i]] = [i \in is |-> Reports!MaxLevel(i)]
    BY <1>1
  <2>2. [i \in Columns |-> mx[i]] = [i \in Columns |-> Reports!MaxLevel(i)]
    BY <1>1
  <2>3. Q = Reports!Sum([i \in Columns |-> mx[i]])
    BY <2>2 DEF Reports!MaxOf
  <2>4. P = Reports!Sum([i \in is |-> mx[i]])
    BY <2>1
  <2> HIDE DEF mx, is, P, Q, Columns
  <2>5. P = Size(mx, is) /\ Size(mx, is) \in Nat
    BY <1>1, <1>2, <1>4, <2>4, SumOver
  <2>6. Q = Size(mx, Columns) /\ Size(mx, Columns) \in Nat /\ IsFiniteSet(Units(mx, Columns))
    BY <1>1, <1>2, <1>4, <2>3, SumOver
  <2>7. Units(mx, is) \subseteq Units(mx, Columns)
    BY <1>1 DEF Units
  <2> QED
    BY <2>5, <2>6, <2>7, FS_Subset DEF Size
<1>10. P # 0
  <2> DEFINE m == [i \in is |-> mx[i]]
             ones == [i \in is |-> 1]
  <2>1. m = [i \in is |-> Reports!MaxLevel(i)] /\ m \in [is -> Nat] /\ \A i \in is : m[i] >= 1
    BY <1>1, <1>4
  <2>2. Cardinality(is) \in Nat \ {0}
    BY <1>2, <1>6, FS_CardinalityType, FS_EmptySet
  <2> HIDE DEF m, mx, is
  <2>3. \A i \in is : 0 * m[i] + 1 <= 1 * m[i] + 0
    BY <2>1
  <2>4. 0 * Reports!Sum(m) + 1 * Cardinality(is) <= 1 * Reports!Sum(m) + 0 * Cardinality(is)
    BY <1>2, <2>1, <2>3, SumBound
  <2>5. Reports!Sum(m) = P
    BY <2>1
  <2> DEFINE c == Cardinality(is)
             t == Reports!Sum(m)
  <2>6. c \in Nat \ {0} /\ P \in Nat /\ t = P /\ 0 * t + 1 * c <= 1 * t + 0 * c
    BY <1>9, <2>2, <2>4, <2>5
  <2> HIDE DEF P, c, t
  <2> QED
    BY <2>6
<1>11. A \in Nat
  <2> HIDE DEF lv, is
  <2> QED
    BY <1>2, <1>3, SumOver
<1> HIDE DEF A, P, Q, is, table, lv, mx, Columns
<1>12. Reports!Tenths(A, P) = Reports!Rounded(1000 * A, P) /\ Reports!Tenths(A, Q) = Reports!Rounded(1000 * A, Q)
  BY <1>9, <1>10 DEF Reports!Tenths
<1>13. Reports!Rounded(1000 * A, P) >= Reports!Rounded(1000 * A, Q)
  <2>1. 1000 * A \in Nat /\ P \in Nat \ {0} /\ Q \in Nat \ {0} /\ P <= Q
    BY <1>9, <1>10, <1>11
  <2> QED
    BY <2>1, RoundedFalls
<1>14. /\ Reports!ReportCard(l).percentage = Reports!Rounded(1000 * A, P)
       /\ DOMAIN Reports!ReportCard(l).rows = is
  BY <1>5, <1>6, <1>12
<1> QED
  BY <1>7, <1>8, <1>12, <1>13, <1>14

-----------------------------------------------------------------------------
(* Totals.                                                                 *)

\* How many of X belong to s.
Belonging(X, of, s) == Cardinality({x \in X : of[x] = s})
PartSizes(X, of, S) == [s \in S |-> Belonging(X, of, s)]

\* A set is as large as the sum of its parts.
LEMMA PartsSum ==
  ASSUME NEW X, IsFiniteSet(X), NEW S, IsFiniteSet(S), NEW of \in [X -> S]
  PROVE  Reports!Sum(PartSizes(X, of, S)) = Cardinality(X)
<1> DEFINE f == [s \in S |-> Belonging(X, of, s)]
           Of(T) == {x \in X : of[x] \in T}
           good == {T \in SUBSET S : Size(f, T) = Cardinality(Of(T))}
<1>1. f \in [S -> Nat] /\ \A s \in S : f[s] = Cardinality(Of({s}))
  <2>1. \A s \in S : {x \in X : of[x] = s} = Of({s})
    OBVIOUS
  <2>2. \A T : Of(T) \in SUBSET X
    OBVIOUS
  <2>3. \A T : Cardinality(Of(T)) \in Nat
    <3> HIDE DEF Of
    <3> QED
      BY <2>2, FS_Subset, FS_CardinalityType
  <2>4. \A s \in S : f[s] = Cardinality(Of({s}))
    BY <2>1 DEF Belonging
  <2> HIDE DEF Of
  <2> QED
    BY <2>3, <2>4
<1>2. {} \in good
  <2>1. Of({}) = {}
    OBVIOUS
  <2> HIDE DEF f, Of
  <2> QED
    BY <1>1, <2>1, SizeSteps, FS_EmptySet
<1>3. ASSUME NEW T \in SUBSET S, T # {}, \A x \in T : T \ {x} \in good PROVE T \in good
  <2>1. PICK s \in T : TRUE
    BY <1>3
  <2> DEFINE A == Of({s})
             B == Of(T \ {s})
  <2>2. Size(f, T \ {s}) = Cardinality(B)
    BY <1>3, <2>1
  <2>3. A \cap B = {} /\ A \cup B = Of(T) /\ A \subseteq X /\ B \subseteq X
    OBVIOUS
  <2>4. f[s] = Cardinality(A)
    BY <1>1
  <2> HIDE DEF f, Of, A, B
  <2>5. IsFiniteSet(A) /\ IsFiniteSet(B)
    BY <2>3, FS_Subset
  <2>6. Cardinality(Of(T)) = Cardinality(A) + Cardinality(B)
    BY <2>3, <2>5, DisjointSizes
  <2>7. Size(f, T) = f[s] + Size(f, T \ {s})
    BY <1>1, <2>1, SizeSteps
  <2> QED
    BY <2>2, <2>4, <2>6, <2>7
<1>4. S \in good
  <2> HIDE DEF good
  <2>1. \A T \in SUBSET S : T # {} /\ (\A x \in T : T \ {x} \in good) => T \in good
    BY <1>3
  <2>2. \A T \in SUBSET S : T \in good
    BY <1>2, <2>1, SubsetsIn
  <2> QED
    BY <2>2
<1>5. Of(S) = X
  OBVIOUS
<1>6. Reports!Sum(f) = Size(f, S)
  <2> HIDE DEF f
  <2> QED
    BY <1>1, SumOver
<1> HIDE DEF f, Of
<1>7. Reports!Sum(f) = Cardinality(X)
  BY <1>4, <1>5, <1>6
<1> QED
  BY <1>7 DEF f, PartSizes

\* Sums and cardinalities of the records are those of the reports.
LEMMA RecordsSums == \A f : Records!Sum(f) = Reports!Sum(f)
BY DEF Records!Sum, Records!MapThenSumSet, Records!MapThenFoldSet,
       Reports!Sum, Reports!MapThenSumSet, Reports!MapThenFoldSet

\* The instance counts sets as we do.
LEMMA RecordsCards == \A S : Records!Cardinality(S) = Cardinality(S)
BY DEF Records!Cardinality, Cardinality

\* The rows of a table that are counted, each of a school.
LEMMA RowsSum ==
  ASSUME NEW table, IsFiniteSet(DOMAIN table), IsFiniteSet(Schools),
         \A x \in DOMAIN table : table[x].school \in Schools,
         NEW X \in SUBSET DOMAIN table
  PROVE  Cardinality(X) = Reports!Sum([s \in Schools |-> Cardinality({x \in X : table[x].school = s})])
<1> DEFINE of == [x \in X |-> table[x].school]
<1>1. of \in [X -> Schools] /\ IsFiniteSet(X)
  BY FS_Subset
<1>2. \A s : {x \in X : of[x] = s} = {x \in X : table[x].school = s}
  OBVIOUS
<1>3. PartSizes(X, of, Schools) = [s \in Schools |-> Cardinality({x \in X : table[x].school = s})]
  BY <1>2 DEF Belonging, PartSizes
<1> HIDE DEF of
<1>4. Reports!Sum(PartSizes(X, of, Schools)) = Cardinality(X)
  BY <1>1, PartsSum
<1> QED
  BY <1>3, <1>4

\* The totals agree.
LEMMA TotalsAgree == SchoolInv => Records!TotalsAgree
<1> SUFFICES ASSUME SchoolInv PROVE Records!TotalsAgree
  OBVIOUS
<1> DEFINE stats == Records!SystemStats
           of(s) == Records!SchoolStats(s)
           T == Records!ListUsers(Records!Teacher)
           L == Records!ListAllLearners
           C == {c \in DOMAIN classes : ~classes[c].gone}
<1>1. /\ \A u \in T : users[u].school \in Schools
      /\ \A l \in DOMAIN learners : learners[l].school \in Schools
      /\ \A c \in DOMAIN classes : classes[c].school \in Schools
  BY DEF SchoolInv, UsersInv, RecordsInv, Records!ListUsers, Records!User
<1>2. IsFiniteSet(DOMAIN learners) /\ IsFiniteSet(DOMAIN classes) /\ IsFiniteSet(T) /\ IsFiniteSet(Schools)
  <2>1. T \subseteq Users
    BY DEF Records!ListUsers
  <2> QED
    BY <2>1, RecordsAssumed, FS_Subset DEF SchoolInv, RecordsInv
<1>3. /\ stats = [teachers |-> Cardinality(T), learners |-> Cardinality(L), classes |-> Cardinality(C)]
      /\ \A s : of(s) = [teachers |-> Cardinality(Records!ListTeachers(s)), learners |-> Cardinality(Records!ListLearners(s)),
                         classes |-> Cardinality(Records!ListSchoolClasses(s))]
  BY RecordsCards DEF Records!SystemStats, Records!SchoolStats
<1>4. Cardinality(T) = Reports!Sum([s \in Schools |-> Cardinality(Records!ListTeachers(s))])
  <2> DEFINE table == [u \in T |-> users[u]]
  <2>1. DOMAIN table = T /\ T \in SUBSET DOMAIN table /\ \A u \in T : table[u] = users[u]
    OBVIOUS
  <2>2. \A s : {u \in T : table[u].school = s} = Records!ListTeachers(s)
    BY DEF Records!ListTeachers, Records!ListUsers
  <2> HIDE DEF table, T
  <2>3. Cardinality(T) = Reports!Sum([s \in Schools |-> Cardinality({u \in T : table[u].school = s})])
    BY <1>1, <1>2, <2>1, RowsSum
  <2>4. [s \in Schools |-> Cardinality({u \in T : table[u].school = s})] = [s \in Schools |-> Cardinality(Records!ListTeachers(s))]
    BY <2>2
  <2> QED
    BY <2>3, <2>4
<1>5. Cardinality(L) = Reports!Sum([s \in Schools |-> Cardinality(Records!ListLearners(s))])
  <2>1. L \in SUBSET DOMAIN learners /\ \A s : {l \in L : learners[l].school = s} = Records!ListLearners(s)
    BY DEF Records!ListAllLearners, Records!ListLearners
  <2> HIDE DEF L
  <2>2. Cardinality(L) = Reports!Sum([s \in Schools |-> Cardinality({l \in L : learners[l].school = s})])
    BY <1>1, <1>2, <2>1, RowsSum
  <2>3. [s \in Schools |-> Cardinality({l \in L : learners[l].school = s})] = [s \in Schools |-> Cardinality(Records!ListLearners(s))]
    BY <2>1
  <2> QED
    BY <2>2, <2>3
<1>6. Cardinality(C) = Reports!Sum([s \in Schools |-> Cardinality(Records!ListSchoolClasses(s))])
  <2>1. C \in SUBSET DOMAIN classes /\ \A s : {c \in C : classes[c].school = s} = Records!ListSchoolClasses(s)
    BY DEF Records!ListSchoolClasses
  <2> HIDE DEF C
  <2>2. Cardinality(C) = Reports!Sum([s \in Schools |-> Cardinality({c \in C : classes[c].school = s})])
    BY <1>1, <1>2, <2>1, RowsSum
  <2>3. [s \in Schools |-> Cardinality({c \in C : classes[c].school = s})] = [s \in Schools |-> Cardinality(Records!ListSchoolClasses(s))]
    BY <2>1
  <2> QED
    BY <2>2, <2>3
<1>7. DOMAIN stats = {"teachers", "learners", "classes"}
  BY <1>3
<1>8. /\ stats.teachers = Reports!Sum([s \in Schools |-> of(s).teachers])
      /\ stats.learners = Reports!Sum([s \in Schools |-> of(s).learners])
      /\ stats.classes = Reports!Sum([s \in Schools |-> of(s).classes])
  <2>1. \A s : /\ of(s).teachers = Cardinality(Records!ListTeachers(s))
               /\ of(s).learners = Cardinality(Records!ListLearners(s))
               /\ of(s).classes = Cardinality(Records!ListSchoolClasses(s))
    BY <1>3
  <2>2. stats.teachers = Cardinality(T) /\ stats.learners = Cardinality(L) /\ stats.classes = Cardinality(C)
    BY <1>3
  <2> HIDE DEF stats, of, T, L, C
  <2> QED
    BY <1>4, <1>5, <1>6, <2>1, <2>2
<1>9. \A k \in DOMAIN stats : stats[k] = Records!Sum([s \in Schools |-> of(s)[k]])
  <2> HIDE DEF stats, of
  <2>1. ASSUME NEW k \in DOMAIN stats PROVE stats[k] = Reports!Sum([s \in Schools |-> of(s)[k]])
    BY <1>7, <1>8
  <2> QED
    BY <2>1, RecordsSums
<1>10. \A s \in Schools : Records!Dashboard(s).learners = of(s).learners /\ Records!Dashboard(s).classes = of(s).classes
  <2> SUFFICES ASSUME NEW s \in Schools
               PROVE  Records!Dashboard(s).learners = of(s).learners /\ Records!Dashboard(s).classes = of(s).classes
    OBVIOUS
  <2>1. /\ {l \in Records!InSchool(learners, s) : ~learners[l].gone} = Records!ListLearners(s)
        /\ {c \in Records!InSchool(classes, s) : ~classes[c].gone} = Records!ListSchoolClasses(s)
    BY DEF Records!InSchool, Records!ListLearners, Records!ListSchoolClasses
  <2> QED
    BY <2>1 DEF Records!Dashboard, Records!SchoolStats
<1>11. \A u \in Users : users[u] # None /\ users[u].role \in Records!Admins =>
         Records!Dashboard(users[u].school).runs = Records!Cardinality(Records!ListRuns(u))
  <2> SUFFICES ASSUME NEW u \in Users, users[u].role \in Records!Admins
               PROVE  Records!Dashboard(users[u].school).runs = Records!Cardinality(Records!ListRuns(u))
    OBVIOUS
  <2>1. {w \in Records!InSchool(works, users[u].school) : works[w].kind = "run"} = Records!ListRuns(u)
    BY DEF Records!InSchool, Records!ListRuns, Records!Reaches
  <2> QED
    BY <2>1 DEF Records!Dashboard
<1> QED
  BY <1>9, <1>10, <1>11 DEF Records!TotalsAgree

\* Reports change no rows.
LEMMA RowsInvariance == PlatformSpec => [](part = "reports" => ReportsRows)
<1>1. PlatformInit => (part = "reports" => ReportsRows)
  BY ReportsInitRows DEF PlatformInit
<1>2. (part = "reports" => ReportsRows) /\ [PlatformNext]_allVars => (part = "reports" => ReportsRows)'
  <2>1. part = "reports" /\ [PlatformNext]_allVars => UNCHANGED <<max, marks, items, levels>>
    BY DEF PlatformNext, Only, allVars, Reports!Next, Reports!vars
  <2>2. ASSUME ReportsRows, UNCHANGED <<max, marks, items, levels>> PROVE ReportsRows'
    BY <2>2 DEF ReportsRows, Reports!Everyone
  <2> QED
    BY <2>1, <2>2, PartStays
<1> QED
  BY <1>1, <1>2, PTL DEF PlatformSpec

\* The reports and the totals of the pages agree with each other
\* (learner_sba_report_card, class_analytics, the builders of exports.py,
\* system_stats, school_stats, admin_dashboard).
THEOREM ReportsStayTogether == PlatformSpec => []ReportsAgree
<1>1. ReportsRows => Reports!ReportsAgree
  BY SheetIsNear, CardsAreBetween, RankingIsOfCards, CardsAreAbove DEF Reports!ReportsAgree
<1>2. (part = "reports" => ReportsRows) /\ (part = "records" => SchoolInv) => ReportsAgree
  BY <1>1, TotalsAgree DEF ReportsAgree
<1> QED
  BY <1>2, RowsInvariance, SchoolInvariance, PTL

-----------------------------------------------------------------------------
(* The schedule of a scheme of work.                                       *)

\* Counting up to n.
LEMMA CountUp ==
  ASSUME NEW n \in Nat, NEW good, 0 \in good, \A k \in 0 .. n : k \in good /\ k < n => k + 1 \in good
  PROVE  n \in good
<1> DEFINE bad == Nat \ (good \cup {k \in Nat : k > n})
<1> SUFFICES ASSUME n \notin good PROVE FALSE
  OBVIOUS
<1>1. bad # {} /\ bad \subseteq Nat
  OBVIOUS
<1>2. PICK k \in bad : \A y \in bad : <<y, k>> \notin OpToRel(<, Nat)
  <2> HIDE DEF bad
  <2> QED
    BY <1>1, NatLessThanWellFounded, WFMin
<1>3. k # 0 /\ k \in Nat /\ k <= n
  OBVIOUS
<1>4. k - 1 \in Nat /\ <<k - 1, k>> \in OpToRel(<, Nat)
  BY <1>3 DEF OpToRel
<1>5. k - 1 \notin bad
  <2> HIDE DEF bad
  <2> QED
    BY <1>2, <1>4
<1>6. k - 1 \in good /\ k - 1 \in 0 .. n /\ k - 1 < n
  <2>1. k - 1 \in 0 .. n /\ k - 1 < n
    BY <1>3
  <2> DEFINE m == k - 1
  <2>2. m \notin bad
    BY <1>5
  <2>3. m \in Nat /\ m <= n
    BY <2>1
  <2> HIDE DEF m
  <2>4. m \in good
    BY <2>2, <2>3
  <2> QED
    BY <2>1, <2>4 DEF m
<1>7. (k - 1) + 1 \in good
  <2> DEFINE m == k - 1
  <2> HIDE DEF m
  <2>1. m \in 0 .. n /\ m \in good /\ m < n
    BY <1>6 DEF m
  <2>2. m + 1 \in good
    BY <2>1
  <2> QED
    BY <2>2 DEF m
<1>8. (k - 1) + 1 = k
  BY <1>3
<1> QED
  BY <1>2, <1>7, <1>8

\* Sequences of a week each are joined one by one.
Joins(seqs, n, f) == f = [i \in 1 .. n |-> IF i = 1 THEN seqs[i] ELSE f[i - 1] \o seqs[i]]

\* They are joined up to any number of weeks.
LEMMA Joined == ASSUME NEW n \in Nat, NEW seqs PROVE \E f : Joins(seqs, n, f)
<1> DEFINE good == {k \in Nat : \E f : Joins(seqs, k, f)}
<1>1. 0 \in good
  <2>1. Joins(seqs, 0, [i \in {} |-> 0])
    BY DEF Joins
  <2> QED
    BY <2>1
<1>2. ASSUME NEW k \in 0 .. n, k \in good PROVE k + 1 \in good
  <2>1. PICK f : Joins(seqs, k, f)
    BY <1>2
  <2> DEFINE next == IF k = 0 THEN seqs[1] ELSE f[k] \o seqs[k + 1]
             g == [i \in 1 .. k + 1 |-> IF i = k + 1 THEN next ELSE f[i]]
  <2>2. \A i \in 1 .. k : f[i] = IF i = 1 THEN seqs[i] ELSE f[i - 1] \o seqs[i]
    BY <2>1 DEF Joins
  <2> HIDE DEF next
  <2>3. \A i \in 1 .. k + 1 : g[i] = IF i = 1 THEN seqs[i] ELSE g[i - 1] \o seqs[i]
    <3> SUFFICES ASSUME NEW i \in 1 .. k + 1 PROVE g[i] = IF i = 1 THEN seqs[i] ELSE g[i - 1] \o seqs[i]
      OBVIOUS
    <3>1. CASE i = k + 1
      <4>1. g[i] = next /\ (i # 1 => g[i - 1] = f[k])
        BY <3>1
      <4> QED
        BY <3>1, <4>1 DEF next
    <3>2. CASE i # k + 1
      <4>1. i \in 1 .. k /\ g[i] = f[i] /\ (i # 1 => g[i - 1] = f[i - 1])
        BY <3>2
      <4> QED
        BY <2>2, <4>1
    <3> QED
      BY <3>1, <3>2
  <2>4. Joins(seqs, k + 1, g)
    <3>1. DOMAIN g = 1 .. k + 1 /\ g = [i \in DOMAIN g |-> g[i]]
      OBVIOUS
    <3> HIDE DEF g
    <3> QED
      BY <2>3, <3>1 DEF Joins
  <2> HIDE DEF g
  <2> QED
    BY <2>4
<1>3. n \in good
  <2> HIDE DEF good
  <2> QED
    BY <1>1, <1>2, CountUp
<1> QED
  BY <1>3

\* So FlattenSeq joins them.
LEMMA Flattened ==
  ASSUME NEW seqs, Len(seqs) \in Nat \ {0}
  PROVE  \E f : Joins(seqs, Len(seqs), f) /\ SchemesOfWork!FlattenSeq(seqs) = f[Len(seqs)]
<1> DEFINE f == CHOOSE g : g = [i \in 1 .. Len(seqs) |-> IF i = 1 THEN seqs[i] ELSE g[i - 1] \o seqs[i]]
<1>1. Joins(seqs, Len(seqs), f)
  <2>1. \E g : g = [i \in 1 .. Len(seqs) |-> IF i = 1 THEN seqs[i] ELSE g[i - 1] \o seqs[i]]
    BY Joined DEF Joins
  <2>2. f = [i \in 1 .. Len(seqs) |-> IF i = 1 THEN seqs[i] ELSE f[i - 1] \o seqs[i]]
    BY <2>1, Zenon
  <2> HIDE DEF f
  <2> QED
    BY <2>2 DEF Joins
<1>2. SchemesOfWork!FlattenSeq(seqs) = f[Len(seqs)]
  BY Zenon DEF SchemesOfWork!FlattenSeq
<1> HIDE DEF f
<1> QED
  BY <1>1, <1>2

\* Cells of a calendar, by week and then by lesson.
Less(c, d) == c[1] < d[1] \/ (c[1] = d[1] /\ c[2] < d[2])
InOrder(q) == q \in Seq(Nat \X Nat) /\ \A i, j \in 1 .. Len(q) : i < j => Less(q[i], q[j])
Holds(q) == {q[i] : i \in 1 .. Len(q)}
WeekCells(s, w) == IF w \in s.breaks THEN {<<w, 0>>} ELSE {w} \X (1 .. s.perWeek)
WeekOf(s, w) == IF w \in s.breaks THEN << <<w, 0>> >> ELSE [l \in 1 .. s.perWeek |-> <<w, l>>]

\* Those of a week are in order.
LEMMA WeekInOrder ==
  ASSUME NEW s, s.perWeek \in Nat, NEW w \in Nat
  PROVE  InOrder(WeekOf(s, w)) /\ Holds(WeekOf(s, w)) = WeekCells(s, w)
<1>1. CASE w \in s.breaks
  <2>1. WeekOf(s, w) = << <<w, 0>> >>
    BY <1>1 DEF WeekOf
  <2> QED
    BY <1>1, <2>1 DEF InOrder, Holds, WeekCells
<1>2. CASE w \notin s.breaks
  <2> DEFINE q == WeekOf(s, w)
             p == s.perWeek
  <2>1. q = [l \in 1 .. p |-> <<w, l>>]
    BY <1>2 DEF WeekOf
  <2> HIDE DEF q, p
  <2>2. p \in Nat
    BY DEF p
  <2>3. q \in Seq(Nat \X Nat) /\ Len(q) = p
    BY <2>1, <2>2
  <2>4. \A i \in 1 .. p : q[i] = <<w, i>>
    BY <2>1
  <2>5. InOrder(q)
    <3>1. \A i, j \in 1 .. p : i < j => Less(<<w, i>>, <<w, j>>)
      BY <2>2 DEF Less
    <3> QED
      BY <2>3, <2>4, <3>1 DEF InOrder
  <2>6. Holds(q) = {w} \X (1 .. p)
    <3>1. \A i \in 1 .. p : q[i] \in {w} \X (1 .. p)
      BY <2>4
    <3>2. \A c \in {w} \X (1 .. p) : c[2] \in 1 .. p /\ q[c[2]] = c
      BY <2>4
    <3> QED
      BY <2>3, <3>1, <3>2 DEF Holds
  <2> QED
    BY <1>2, <2>5, <2>6 DEF q, p, WeekCells
<1> QED
  BY <1>1, <1>2

\* What comes later is appended.
LEMMA StaysInOrder ==
  ASSUME NEW q, NEW r, InOrder(q), InOrder(r), \A c \in Holds(q), d \in Holds(r) : Less(c, d)
  PROVE  InOrder(q \o r) /\ Holds(q \o r) = Holds(q) \cup Holds(r)
<1> DEFINE t == q \o r
           m == Len(q)
           n == Len(r)
<1>1. /\ q \in Seq(Nat \X Nat) /\ r \in Seq(Nat \X Nat) /\ m \in Nat /\ n \in Nat
      /\ t \in Seq(Nat \X Nat) /\ Len(t) = m + n
  BY DEF InOrder
<1>2. /\ \A i \in 1 .. m : t[i] = q[i]
      /\ \A i \in m + 1 .. m + n : t[i] = r[i - m]
  BY <1>1
<1>3. \A i \in m + 1 .. m + n : i - m \in 1 .. n
  BY <1>1
<1>4. /\ \A i, j \in 1 .. m : i < j => Less(q[i], q[j])
      /\ \A i, j \in 1 .. n : i < j => Less(r[i], r[j])
      /\ \A i \in 1 .. m, j \in 1 .. n : Less(q[i], r[j])
  BY DEF InOrder, Holds
<1> HIDE DEF t, m, n
<1>5. ASSUME NEW i \in 1 .. m + n, NEW j \in 1 .. m + n, i < j PROVE Less(t[i], t[j])
  <2>1. CASE j <= m
    <3>1. i \in 1 .. m /\ j \in 1 .. m
      BY <1>1, <1>5, <2>1
    <3> QED
      BY <1>2, <1>4, <1>5, <3>1
  <2>2. CASE i <= m /\ j > m
    <3>1. i \in 1 .. m /\ j \in m + 1 .. m + n
      BY <1>1, <2>2
    <3> QED
      BY <1>2, <1>3, <1>4, <3>1
  <2>3. CASE i > m
    <3>1. i \in m + 1 .. m + n /\ j \in m + 1 .. m + n /\ i - m < j - m
      BY <1>1, <1>5, <2>3
    <3> QED
      BY <1>2, <1>3, <1>4, <3>1
  <2> QED
    BY <1>1, <2>1, <2>2, <2>3
<1>6. InOrder(t)
  BY <1>1, <1>5 DEF InOrder
<1>7. Holds(t) = {q[i] : i \in 1 .. m} \cup {r[i] : i \in 1 .. n}
  <2>1. ASSUME NEW i \in 1 .. m PROVE q[i] \in Holds(t)
    BY <1>1, <1>2 DEF Holds
  <2>2. ASSUME NEW i \in 1 .. n PROVE r[i] \in Holds(t)
    <3>1. i + m \in m + 1 .. m + n /\ i + m \in 1 .. Len(t) /\ (i + m) - m = i
      BY <1>1
    <3>2. t[i + m] = r[i]
      BY <1>2, <3>1
    <3> QED
      BY <3>1, <3>2 DEF Holds
  <2>3. ASSUME NEW i \in 1 .. Len(t) PROVE t[i] \in {q[k] : k \in 1 .. m} \cup {r[k] : k \in 1 .. n}
    <3>1. i \in 1 .. m \/ i \in m + 1 .. m + n
      BY <1>1
    <3> QED
      BY <1>2, <1>3, <3>1
  <2> QED
    BY <2>1, <2>2, <2>3 DEF Holds
<1> QED
  BY <1>6, <1>7 DEF t, m, n, Holds

\* The cells of the first k weeks.
CellsUpTo(s, k) == UNION {WeekCells(s, w) : w \in 1 .. k}

\* The calendar holds the cells of all weeks, in order.
LEMMA CalendarInOrder ==
  ASSUME NEW s, s.weeks \in Nat \ {0}, s.perWeek \in Nat
  PROVE  /\ InOrder(SchemesOfWork!Calendar(s))
         /\ Holds(SchemesOfWork!Calendar(s)) = CellsUpTo(s, s.weeks)
<1> DEFINE n == s.weeks
           seqs == [w \in 1 .. n |-> WeekOf(s, w)]
<1>1. SchemesOfWork!Calendar(s) = SchemesOfWork!FlattenSeq(seqs)
  BY DEF SchemesOfWork!Calendar, WeekOf
<1>2. \A w \in 1 .. n : seqs[w] = WeekOf(s, w)
  OBVIOUS
<1>3. Len(seqs) = n
  OBVIOUS
<1>4. n \in Nat \ {0}
  OBVIOUS
<1> HIDE DEF seqs, n
<1>5. PICK f : Joins(seqs, n, f) /\ SchemesOfWork!FlattenSeq(seqs) = f[n]
  BY <1>3, <1>4, Flattened
<1> DEFINE Fine(k) == InOrder(f[k]) /\ Holds(f[k]) = CellsUpTo(s, k)
           good == {k \in 0 .. n : k = 0 \/ Fine(k)}
<1>6. \A i \in 1 .. n : f[i] = IF i = 1 THEN WeekOf(s, i) ELSE f[i - 1] \o WeekOf(s, i)
  BY <1>2, <1>5 DEF Joins
<1>7. ASSUME NEW k \in 0 .. n, k \in good, k < n PROVE k + 1 \in good
  <2> DEFINE w == k + 1
  <2>1. w \in 1 .. n /\ w \in Nat /\ 1 .. w = (1 .. k) \cup {w}
    BY <1>4, <1>7
  <2>2. CellsUpTo(s, w) = CellsUpTo(s, k) \cup WeekCells(s, w)
    <3> HIDE DEF w
    <3> QED
      BY <2>1 DEF CellsUpTo
  <2>3. InOrder(WeekOf(s, w)) /\ Holds(WeekOf(s, w)) = WeekCells(s, w)
    <3> HIDE DEF w
    <3> QED
      BY <2>1, WeekInOrder
  <2>4. CASE k = 0
    <3>1. CellsUpTo(s, 0) = {}
      BY DEF CellsUpTo
    <3>2. f[w] = WeekOf(s, w)
      BY <1>6, <2>1, <2>4
    <3> QED
      BY <2>1, <2>2, <2>3, <2>4, <3>1, <3>2
  <2>5. CASE k # 0
    <3>1. f[w] = f[k] \o WeekOf(s, w)
      <4>1. w # 1 /\ w - 1 = k
        BY <1>7, <2>5
      <4> HIDE DEF w
      <4> QED
        BY <1>6, <2>1, <4>1
    <3>2. Fine(k)
      BY <1>7, <2>5
    <3>3. \A c \in CellsUpTo(s, k) : c[1] \in 1 .. k
      <4>1. \A v \in 1 .. k : \A c \in WeekCells(s, v) : c[1] = v
        BY DEF WeekCells
      <4> QED
        BY <4>1 DEF CellsUpTo
    <3>4. \A d \in WeekCells(s, w) : d[1] = w
      BY DEF WeekCells
    <3>5. \A c \in CellsUpTo(s, k), d \in WeekCells(s, w) : Less(c, d)
      BY <1>7, <3>3, <3>4 DEF Less
    <3> HIDE DEF w
    <3>6. Fine(w)
      BY <2>2, <2>3, <3>1, <3>2, <3>5, StaysInOrder
    <3> QED
      BY <2>1, <3>6 DEF w
  <2> QED
    BY <2>4, <2>5
<1>8. 0 \in good
  BY <1>4
<1> HIDE DEF good
<1>9. n \in good
  BY <1>4, <1>7, <1>8, CountUp
<1>10. Fine(n)
  BY <1>4, <1>9 DEF good
<1> QED
  BY <1>1, <1>5, <1>10 DEF n

\* The lessons up to a cell are those before it and its own.
LEMMA LessonsBefore ==
  ASSUME NEW q, InOrder(q), NEW i \in 1 .. Len(q), q[i][2] # 0
  PROVE  LET k == Cardinality({d \in Holds(q) : d[2] # 0 /\ Less(d, q[i])})
         IN  k \in Nat /\ SchemesOfWork!Slots(q, i) = k + 1
<1> DEFINE A == {j \in 1 .. i : q[j][2] # 0}
           B == A \ {i}
           D == {d \in Holds(q) : d[2] # 0 /\ Less(d, q[i])}
           h == [j \in B |-> q[j]]
<1>1. i \in Nat /\ Len(q) \in Nat /\ \A j \in 1 .. Len(q) : q[j] \in Nat \X Nat
  BY DEF InOrder
<1>2. \A j, m \in 1 .. Len(q) : j < m => Less(q[j], q[m]) /\ ~Less(q[m], q[j]) /\ q[j] # q[m]
  <2>1. \A c, d \in Nat \X Nat : Less(c, d) => ~Less(d, c) /\ c # d
    BY DEF Less
  <2> QED
    BY <1>1, <2>1 DEF InOrder
<1>3. \A c \in Nat \X Nat : ~Less(c, c)
  BY DEF Less
<1>4. \A j \in B : j \in 1 .. Len(q) /\ j < i
  BY <1>1
<1>5. \A j \in B : q[j] \in D
  <2>1. \A j \in B : Less(q[j], q[i]) /\ q[j] \in Holds(q) /\ q[j][2] # 0
    BY <1>2, <1>4 DEF Holds
  <2> QED
    BY <2>1
<1>6. \A j, m \in B : q[j] = q[m] => j = m
  BY <1>1, <1>2, <1>4
<1>7. \A d \in D : \E j \in B : q[j] = d
  <2> SUFFICES ASSUME NEW d \in D PROVE \E j \in B : q[j] = d
    OBVIOUS
  <2>1. PICK j \in 1 .. Len(q) : q[j] = d
    BY DEF Holds
  <2>2. Less(q[j], q[i]) /\ q[j][2] # 0
    BY <2>1
  <2>3. j # i /\ ~(i < j)
    BY <1>1, <1>2, <1>3, <2>2
  <2>4. j \in B
    BY <1>1, <2>1, <2>2, <2>3
  <2> QED
    BY <2>1, <2>4
<1>8. h \in Bijection(B, D)
  <2> HIDE DEF B, D
  <2> QED
    BY <1>5, <1>6, <1>7 DEF Bijection, Injection, Surjection, IsInjective
<1>9. i \in A /\ IsFiniteSet(A) /\ IsFiniteSet(B)
  <2>1. A \subseteq 1 .. i /\ i \in A /\ B \subseteq A
    BY <1>1
  <2>2. IsFiniteSet(1 .. i)
    BY <1>1, FS_Interval
  <2> QED
    BY <2>1, <2>2, FS_Subset
<1> HIDE DEF h, D
<1>10. Cardinality(D) = Cardinality(B)
  <2> HIDE DEF B
  <2> QED
    BY <1>8, <1>9, FS_Bijection DEF ExistsBijection
<1>11. Cardinality(B) \in Nat /\ Cardinality(A) = Cardinality(B) + 1
  <2> HIDE DEF A
  <2>1. Cardinality(B) = Cardinality(A) - 1 /\ Cardinality(A) \in Nat /\ Cardinality(B) \in Nat
    BY <1>9, FS_RemoveElement, FS_CardinalityType
  <2> QED
    BY <2>1
<1>12. SchemesOfWork!Slots(q, i) = Cardinality(A)
  BY DEF SchemesOfWork!Slots, SchemesOfWork!Cardinality, Cardinality
<1> QED
  BY <1>10, <1>11, <1>12 DEF D

\* The blocks are a sequence, <<>> when there are none.
LEMMA BlocksCounted ==
  ASSUME IsFiniteSet(DOMAIN bank)
  PROVE  /\ Len(SchemesOfWork!Blocks) \in Nat
         /\ Len(SchemesOfWork!Blocks) = 0 => SchemesOfWork!Blocks = <<>>
<1> DEFINE here == {c \in DOMAIN bank : bank[c].here}
           n == SchemesOfWork!Cardinality(here)
<1>1. n \in Nat
  <2>1. here \subseteq DOMAIN bank
    OBVIOUS
  <2> HIDE DEF here
  <2>2. Cardinality(here) \in Nat
    BY <2>1, FS_Subset, FS_CardinalityType
  <2> QED
    BY <2>2 DEF SchemesOfWork!Cardinality, Cardinality
<1>2. PICK f : SchemesOfWork!Blocks = [i \in 1 .. n |-> f[i]]
  <2> DEFINE g(i) == CHOOSE c \in here :
                       SchemesOfWork!Cardinality({d \in here : bank[d].order < bank[c].order}) = i - 1
             f == [i \in 1 .. n |-> g(i)]
  <2>1. SchemesOfWork!Blocks = f
    BY DEF SchemesOfWork!Blocks
  <2> HIDE DEF g
  <2>2. f = [i \in 1 .. n |-> f[i]]
    OBVIOUS
  <2> HIDE DEF f
  <2> QED
    BY <2>1, <2>2
<1> HIDE DEF n
<1> QED
  BY <1>1, <1>2

\* A lesson gets the block of its place.
LEMMA ScheduleIsSound ==
  ASSUME SchemeInv, IsFiniteSet(DOMAIN bank)
  PROVE  SchemesOfWork!ScheduleSound
<1> DEFINE blocks == SchemesOfWork!Blocks
           n == Len(blocks)
           calendar == SchemesOfWork!Calendar(scheme)
           plan == SchemesOfWork!Schedule(scheme, blocks)
           before(c) == Cardinality({d \in Holds(calendar) : d[2] # 0 /\ Less(d, c)})
<1>1. scheme.weeks \in Nat \ {0} /\ scheme.perWeek \in Nat
  BY PlatformAssumption DEF SchemeInv, PlatformAssumption, SchemesOfWork!SchemesAssumption
<1>2. InOrder(calendar) /\ Holds(calendar) = CellsUpTo(scheme, scheme.weeks)
  BY <1>1, CalendarInOrder
<1>3. n \in Nat
  BY BlocksCounted
<1>4. DOMAIN calendar = 1 .. Len(calendar)
  BY <1>2 DEF InOrder
<1>5. DOMAIN plan = Holds(calendar)
  BY <1>4, ScheduleFills DEF Grid, Holds, SchemesOfWork!Range
<1>6. \A c \in DOMAIN plan : c[2] # 0 /\ n > 0 => plan[c] = IF before(c) < n THEN blocks[before(c) + 1] ELSE blocks[n]
  <2> SUFFICES ASSUME NEW c \in DOMAIN plan, c[2] # 0, n > 0
               PROVE  plan[c] = IF before(c) < n THEN blocks[before(c) + 1] ELSE blocks[n]
    OBVIOUS
  <2> DEFINE at == [i \in DOMAIN calendar |->
                     IF calendar[i][2] = 0 \/ blocks = <<>> THEN 0 ELSE blocks[SchemesOfWork!BlockOf(calendar, n, i)]]
             j == CHOOSE i \in DOMAIN calendar : calendar[i] = c
  <2>1. plan[c] = at[j]
    BY <1>5, ScheduleFills DEF SchemesOfWork!Schedule, Grid
  <2>2. j \in 1 .. Len(calendar) /\ calendar[j] = c
    <3>1. \E i \in DOMAIN calendar : calendar[i] = c
      BY <1>4, <1>5 DEF Holds
    <3> HIDE DEF calendar
    <3> QED
      BY <1>4, <3>1
  <2>3. blocks # <<>>
    OBVIOUS
  <2> HIDE DEF blocks, n, calendar, plan, j
  <2>4. plan[c] = blocks[SchemesOfWork!BlockOf(calendar, n, j)]
    BY <1>4, <2>1, <2>2, <2>3
  <2> DEFINE k == before(c)
  <2>5. k \in Nat /\ SchemesOfWork!Slots(calendar, j) = k + 1
    BY <1>2, <2>2, LessonsBefore
  <2> HIDE DEF k
  <2>6. SchemesOfWork!BlockOf(calendar, n, j) = IF k < n THEN k + 1 ELSE n
    BY <1>3, <2>5 DEF SchemesOfWork!BlockOf
  <2>7. plan[c] = IF k < n THEN blocks[k + 1] ELSE blocks[n]
    BY <2>4, <2>6
  <2> QED
    BY <2>7 DEF k
<1>7. DOMAIN plan = UNION {IF w \in scheme.breaks THEN {<<w, 0>>} ELSE {w} \X (1 .. scheme.perWeek) : w \in 1 .. scheme.weeks}
  BY <1>2, <1>5 DEF CellsUpTo, WeekCells
<1>8. \A c : SchemesOfWork!Cardinality({d \in DOMAIN plan : d[2] # 0 /\ (d[1] < c[1] \/ (d[1] = c[1] /\ d[2] < c[2]))}) = before(c)
  <2> HIDE DEF plan, calendar
  <2> QED
    BY <1>5 DEF Less, SchemesOfWork!Cardinality, Cardinality
<1> QED
  <2> HIDE DEF before
  <2> QED
    BY <1>6, <1>7, <1>8 DEF SchemesOfWork!ScheduleSound

\* Lessons get the blocks in their order, whatever the breaks
\* (_build_calendar, schedule_lessons).
THEOREM SchedulesAreSound == PlatformSpec => []ScheduleSound
<1> DEFINE Inv == SchemeInv /\ DOMAIN bank \subseteq Contents
<1>1. PlatformInit => (part = "schemes" => Inv)
  <2> SUFFICES ASSUME PlatformInit, part = "schemes" PROVE Inv
    OBVIOUS
  <2>1. SchemesOfWork!Init
    BY DEF PlatformInit
  <2>2. SchemeInv
    BY <2>1, SchemeInitInv
  <2> QED
    BY <2>1, <2>2 DEF SchemesOfWork!Init
<1>2. (part = "schemes" => Inv) /\ [PlatformNext]_allVars => (part = "schemes" => Inv)'
  <2>1. ASSUME Inv, UNCHANGED <<bank, scheme, cells, draft, making, writes>> PROVE Inv'
    BY <2>1 DEF SchemeInv
  <2>2. ASSUME Inv, SchemesOfWork!Next PROVE Inv'
    <3>1. DOMAIN bank' \subseteq Contents
      BY <2>2 DEF SchemesOfWork!Next, SchemesOfWork!Create, SchemesOfWork!GenerateReads, SchemesOfWork!GenerateWrites,
        SchemesOfWork!Stop, SchemesOfWork!DeleteScheme, SchemesOfWork!UpdateLessonCell, SchemesOfWork!DeleteContent,
        SchemesOfWork!PutContent
    <3> QED
      BY <2>2, <3>1, SchemeNextInv
  <2>3. part = "schemes" /\ [PlatformNext]_allVars =>
          SchemesOfWork!Next \/ UNCHANGED <<bank, scheme, cells, draft, making, writes>>
    BY DEF PlatformNext, Only, allVars
  <2> QED
    BY <2>1, <2>2, <2>3, PartStays
<1>3. (part = "schemes" => Inv) => ScheduleSound
  <2>1. IsFiniteSet(Contents)
    BY PlatformAssumption
       DEF PlatformAssumption, SchemesOfWork!SchemesAssumption, SchemesOfWork!IsFiniteSet, IsFiniteSet
  <2> QED
    BY <2>1, FS_Subset, ScheduleIsSound DEF ScheduleSound
<1> QED
  BY <1>1, <1>2, <1>3, PTL DEF PlatformSpec
=============================================================================
