---------------------------- MODULE SchoolRecords ---------------------------
(***************************************************************************)
(* Who may put which record where: users, classes, learners, runs and term *)
(* exams of several schools (api/app/routers/classes.py, learners.py,      *)
(* runs.py, school_admin.py, super_admin.py, the create and delete of      *)
(* term_exams.py, services/admin.py, core/deps.py).  Every row names its   *)
(* school; handlers filter by the school, by the class's teacher, or by    *)
(* nothing.  Names and other payload are left out, and with them the       *)
(* teachers' update_learner.                                               *)
(*                                                                         *)
(* A request loads its user's row first (Arrive) and goes by that row      *)
(* until it ends, though the row may have changed since.                   *)
(***************************************************************************)
EXTENDS Integers, FiniteSets, FiniteSetsExt

CONSTANTS
  Schools, Users, Classes, Learners, Works,   \* Works: runs and term exams
  NoRow,
  Root, Admin, Home,   \* who is there at first: a super admin, a school admin, their school
  MaxChanges,          \* bound: changes to users' rows
  MaxRequests          \* bound: requests at work at the same time

Teacher == "teacher"
Admins == {"school_admin", "super_admin"}
Roles == Admins \cup {Teacher}
User == [school : Schools, role : Roles, active : BOOLEAN]

\* Ids are UUIDs, of which there are finitely many: a learner's is no run's
\* and no exam's.
SchoolRecordsAssumption ==
  /\ IsFiniteSet(Schools) /\ IsFiniteSet(Users) /\ IsFiniteSet(Classes) /\ IsFiniteSet(Learners)
  /\ {Root, Admin} \subseteq Users /\ Root # Admin /\ Home \in Schools
  /\ Learners \cap Works = {} /\ NoRow \notin User
  /\ MaxChanges \in Nat /\ MaxRequests \in Nat

VARIABLES
  users,      \* the users rows, NoRow for one that has not signed up
  classes, learners, works,   \* rows by id
  seen,       \* the row a user's request has loaded, NoRow without a request
  changes,    \* changes made to users' rows
  strays,     \* history: records put outside the school of their class by
              \* an operation that allows it
  moved,      \* history: users whose school was changed
  demoted     \* history: update_user took a super admin away, or one was
              \* deactivated by a request whose sender was no super admin any more

vars == <<users, classes, learners, works, seen, changes, strays, moved, demoted>>

Init ==
  /\ users = [u \in Users |->
       IF u = Root THEN [school |-> Home, role |-> "super_admin", active |-> TRUE]
       ELSE IF u = Admin THEN [school |-> Home, role |-> "school_admin", active |-> TRUE]
       ELSE NoRow]
  /\ classes = <<>> /\ learners = <<>> /\ works = <<>>
  /\ seen = [u \in Users |-> NoRow]
  /\ changes = 0 /\ strays = {} /\ moved = {} /\ demoted = FALSE

\* get_current_user
Arrive(u) ==
  /\ users[u] # NoRow /\ seen[u] = NoRow /\ users[u].active
  /\ Cardinality({v \in Users : seen[v] # NoRow}) < MaxRequests
  /\ seen' = [seen EXCEPT ![u] = users[u]]
  /\ UNCHANGED <<users, classes, learners, works, changes, strays, moved, demoted>>

\* A handler for these roles answers u (require_role and its kin).
By(u, roles) ==
  /\ seen[u] # NoRow /\ seen[u].role \in roles
  /\ seen' = [seen EXCEPT ![u] = NoRow]

\* _class_owned and _resolve_class, for a user's row: admins by school,
\* teachers by class.  A class that is deleted still counts.
Owns(u, row, c) ==
  /\ c \in DOMAIN classes
  /\ IF row.role \in Admins THEN classes[c].school = row.school ELSE classes[c].teacher = u

\* Note a record in `school` that belongs to class c.
Stray(id, school, c) ==
  strays' = IF classes[c].school = school THEN strays \ {id} ELSE strays \cup {id}

With(rows, id, row) == [x \in DOMAIN rows \cup {id} |-> IF x = id THEN row ELSE rows[x]]

PutLearner(l, school, c) == learners' = With(learners, l, [school |-> school, class |-> c, gone |-> FALSE])
\* services' update_learner: the school too where one is given.
PatchLearner(l, school, c) == learners' = [learners EXCEPT ![l].class = c, ![l].school = school]
PutClass(c, school, t) == classes' = With(classes, c, [school |-> school, teacher |-> t, gone |-> FALSE])

UsersOnly == UNCHANGED <<classes, learners, works, strays>>
RecordsOnly == UNCHANGED <<users, changes, moved, demoted>>

-----------------------------------------------------------------------------
(* Teachers, and admins where they act as teachers.                        *)

CreateClass(u, c) ==
  /\ By(u, Roles) /\ c \notin DOMAIN classes
  /\ PutClass(c, seen[u].school, u)
  /\ UNCHANGED <<learners, works, strays>> /\ RecordsOnly

\* add_learner; bulk_add adds its lines in one commit.  The learner gets the
\* school of the user, the class may be one kept from another school.
AddLearner(u, l, c) ==
  /\ By(u, Roles) /\ l \notin DOMAIN learners /\ Owns(u, seen[u], c)
  /\ PutLearner(l, seen[u].school, c)
  /\ Stray(l, seen[u].school, c)
  /\ UNCHANGED <<classes, works>> /\ RecordsOnly

\* learners.delete_learner and the one of school_admin: by the school.
DeleteLearner(u, l) ==
  /\ By(u, Roles) /\ l \in DOMAIN learners
  /\ learners[l].school = seen[u].school /\ ~learners[l].gone
  /\ learners' = [learners EXCEPT ![l].gone = TRUE]
  /\ UNCHANGED <<classes, works, strays>> /\ RecordsOnly

StartRun(u, w, c) ==
  /\ By(u, Roles) /\ w \notin DOMAIN works /\ Owns(u, seen[u], c)
  /\ works' = With(works, w, [kind |-> "run", school |-> seen[u].school, class |-> c, closed |-> FALSE])
  /\ Stray(w, seen[u].school, c)
  /\ UNCHANGED <<classes, learners>> /\ RecordsOnly

\* get_run's filter: the school, and the class's teacher unless an admin.
Reaches(u, row, w) ==
  /\ works[w].school = row.school
  /\ row.role \in Admins \/ classes[works[w].class].teacher = u

CloseRun(u, w) ==
  /\ By(u, Roles) /\ w \in DOMAIN works /\ works[w].kind = "run"
  /\ Reaches(u, seen[u], w) /\ ~works[w].closed
  /\ works' = [works EXCEPT ![w].closed = TRUE]
  /\ UNCHANGED <<classes, learners, strays>> /\ RecordsOnly

\* create_term_exam: the school is the user's unless the payload names one.
CreateTermExam(u, w, c, s) ==
  /\ By(u, Roles) /\ w \notin DOMAIN works /\ Owns(u, seen[u], c)
  /\ works' = With(works, w, [kind |-> "exam", school |-> s, class |-> c, closed |-> FALSE])
  /\ Stray(w, s, c)
  /\ UNCHANGED <<classes, learners>> /\ RecordsOnly

DeleteTermExam(u, w) ==
  /\ By(u, Roles) /\ w \in DOMAIN works /\ works[w].kind = "exam"
  /\ works[w].school = seen[u].school
  /\ works' = [x \in DOMAIN works \ {w} |-> works[x]]
  /\ strays' = strays \ {w}
  /\ UNCHANGED <<classes, learners>> /\ RecordsOnly

-----------------------------------------------------------------------------
(* School admins.                                                          *)

\* Variant: the class is not validated.
ClassInSchool_any(c, s) == c \in DOMAIN classes

\* validate_class_in_school: deleted classes count.
ClassInSchool(c, s) == c \in DOMAIN classes /\ classes[c].school = s

\* create_learner, bulk_create_learners: the bulk commits line by line.
AdminCreateLearner(a, l, c) ==
  /\ By(a, Admins) /\ l \notin DOMAIN learners /\ ClassInSchool(c, seen[a].school)
  /\ PutLearner(l, seen[a].school, c)
  /\ UNCHANGED <<classes, works, strays>> /\ RecordsOnly

\* update_learner: the class is taken as it comes.
AdminUpdateLearner(a, l, c) ==
  /\ By(a, Admins) /\ l \in DOMAIN learners /\ c \in DOMAIN classes
  /\ learners[l].school = seen[a].school /\ ~learners[l].gone
  /\ PatchLearner(l, learners[l].school, c)
  /\ Stray(l, learners[l].school, c)
  /\ UNCHANGED <<classes, works>> /\ RecordsOnly

TeacherInSchool(t, s) == users[t] # NoRow /\ users[t].school = s

AdminCreateClass(a, c, t) ==
  /\ By(a, Admins) /\ c \notin DOMAIN classes /\ TeacherInSchool(t, seen[a].school)
  /\ PutClass(c, seen[a].school, t)
  /\ UNCHANGED <<learners, works, strays>> /\ RecordsOnly

AdminUpdateClass(a, c, t) ==
  /\ By(a, Admins) /\ c \in DOMAIN classes /\ TeacherInSchool(t, seen[a].school)
  /\ classes[c].school = seen[a].school /\ ~classes[c].gone
  /\ classes' = [classes EXCEPT ![c].teacher = t]
  /\ UNCHANGED <<learners, works, strays>> /\ RecordsOnly

AdminDeleteClass(a, c) ==
  /\ By(a, Admins) /\ c \in DOMAIN classes
  /\ classes[c].school = seen[a].school /\ ~classes[c].gone
  /\ classes' = [classes EXCEPT ![c].gone = TRUE]
  /\ UNCHANGED <<learners, works, strays>> /\ RecordsOnly

-----------------------------------------------------------------------------
(* Users' rows.                                                            *)

NewUser(u, s, role) ==
  /\ users[u] = NoRow
  /\ users' = [users EXCEPT ![u] = [school |-> s, role |-> role, active |-> TRUE]]
  /\ UNCHANGED <<changes, moved, demoted>> /\ UsersOnly

Signup(u, s) == NewUser(u, s, Teacher) /\ UNCHANGED seen
AdminCreateTeacher(a, u) == By(a, Admins) /\ NewUser(u, seen[a].school, Teacher)
SuperCreateUser(a, u, s, role) == By(a, {"super_admin"}) /\ NewUser(u, s, role)

Change(u, row) ==
  /\ changes < MaxChanges /\ changes' = changes + 1
  /\ users' = [users EXCEPT ![u] = row]
  /\ moved' = IF row.school = users[u].school THEN moved ELSE moved \cup {u}
  /\ UsersOnly

\* change_school_code: its classes stay where they are.
ChangeSchool(u, s) ==
  /\ By(u, Roles) /\ Change(u, [users[u] EXCEPT !.school = s])
  /\ UNCHANGED demoted

\* update_teacher and deactivate_teacher
AdminSetActive(a, u, active) ==
  /\ By(a, Admins) /\ TeacherInSchool(u, seen[a].school) /\ users[u].role = Teacher
  /\ Change(u, [users[u] EXCEPT !.active = active])
  /\ UNCHANGED demoted

IsSuper(row) == row # NoRow /\ row.active /\ row.role = "super_admin"

\* Bound: an update changes one field; two of them do what one of two does.
Updates(row) ==
  {[row EXCEPT !.school = s] : s \in Schools} \cup {[row EXCEPT !.role = r] : r \in Roles}
    \cup {[row EXCEPT !.active = b] : b \in BOOLEAN}

SuperUpdateUser(a, u, row) ==
  /\ By(a, {"super_admin"}) /\ Change(u, row)
  /\ demoted' = (demoted \/ (IsSuper(users[u]) /\ ~IsSuper(row)))

\* Variant: one may deactivate oneself.
NotOneself_any(a, u) == TRUE
NotOneself(a, u) == a # u

SuperDeactivate(a, u) ==
  /\ By(a, {"super_admin"}) /\ users[u] # NoRow /\ NotOneself(a, u)
  /\ Change(u, [users[u] EXCEPT !.active = FALSE])
  /\ demoted' = (demoted \/ ~IsSuper(users[a]))

-----------------------------------------------------------------------------
(* Learners, for a super admin: any school.                                *)

SuperCreateLearner(a, l, c, s) ==
  /\ By(a, {"super_admin"}) /\ l \notin DOMAIN learners /\ ClassInSchool(c, s)
  /\ PutLearner(l, s, c)
  /\ UNCHANGED <<classes, works, strays>> /\ RecordsOnly

SuperUpdateLearner(a, l, c, s) ==
  /\ By(a, {"super_admin"}) /\ l \in DOMAIN learners /\ c \in DOMAIN classes /\ ~learners[l].gone
  /\ PatchLearner(l, s, c)
  /\ Stray(l, s, c)
  /\ UNCHANGED <<classes, works>> /\ RecordsOnly

SuperDeleteLearner(a, l) ==
  /\ By(a, {"super_admin"}) /\ l \in DOMAIN learners /\ ~learners[l].gone
  /\ learners' = [learners EXCEPT ![l].gone = TRUE]
  /\ UNCHANGED <<classes, works, strays>> /\ RecordsOnly

-----------------------------------------------------------------------------
TeacherActs(u) ==
  \/ \E c \in Classes :
       \/ CreateClass(u, c)
       \/ \E l \in Learners : AddLearner(u, l, c)
       \/ \E w \in Works : StartRun(u, w, c) \/ \E s \in Schools : CreateTermExam(u, w, c, s)
  \/ \E l \in Learners : DeleteLearner(u, l)
  \/ \E w \in Works : CloseRun(u, w) \/ DeleteTermExam(u, w)
  \/ \E s \in Schools : ChangeSchool(u, s)

AdminActs(a) ==
  \/ \E c \in Classes :
       \/ AdminDeleteClass(a, c)
       \/ \E l \in Learners : AdminCreateLearner(a, l, c) \/ AdminUpdateLearner(a, l, c)
       \/ \E t \in Users : AdminCreateClass(a, c, t) \/ AdminUpdateClass(a, c, t)
  \/ \E u \in Users : AdminCreateTeacher(a, u) \/ \E b \in BOOLEAN : AdminSetActive(a, u, b)

SuperActs(a) ==
  \/ \E u \in Users :
       \/ SuperDeactivate(a, u)
       \/ users[u] # NoRow /\ \E row \in Updates(users[u]) : SuperUpdateUser(a, u, row)
       \/ \E s \in Schools, role \in Roles : SuperCreateUser(a, u, s, role)
  \/ \E l \in Learners :
       \/ SuperDeleteLearner(a, l)
       \/ \E c \in Classes, s \in Schools : SuperCreateLearner(a, l, c, s) \/ SuperUpdateLearner(a, l, c, s)

Next ==
  \E u \in Users :
    \/ Arrive(u) \/ \E s \in Schools : Signup(u, s)
    \/ seen[u] # NoRow /\ (TeacherActs(u) \/ AdminActs(u) \/ SuperActs(u))

Spec == Init /\ [][Next]_vars

-----------------------------------------------------------------------------
(* What a user is shown.                                                   *)

ListClasses(u) ==
  {c \in DOMAIN classes : Owns(u, users[u], c) /\ ~classes[c].gone}
ListForClass(u, c) ==
  {l \in DOMAIN learners : Owns(u, users[u], c) /\ learners[l].class = c /\ ~learners[l].gone}
ListRuns(u) ==
  {w \in DOMAIN works : works[w].kind = "run" /\ Reaches(u, users[u], w)}
\* get_learner and get_term_exam: by the school, whoever teaches the class.
GetLearner(u, l) ==
  l \in DOMAIN learners /\ learners[l].school = users[u].school /\ ~learners[l].gone
GetTermExam(u, w) ==
  w \in DOMAIN works /\ works[w].kind = "exam" /\ works[w].school = users[u].school

\* The list is of the school too; its class names are of any school.
ListTermExams(u) == {w \in DOMAIN works : GetTermExam(u, w)}

\* The learners on the mark sheet of an exam: those of its class in the
\* user's school.
ListExamScores(u, w) ==
  {l \in DOMAIN learners : /\ GetTermExam(u, w) /\ learners[l].class = works[w].class
                           /\ learners[l].school = users[u].school /\ ~learners[l].gone}

\* A class's page, and its learners on it: not when the class is deleted.
GetClass(u, c) == c \in ListClasses(u)
ListClassLearners(u, c) ==
  {l \in DOMAIN learners : GetClass(u, c) /\ learners[l].class = c /\ ~learners[l].gone}

\* What the school admin is shown, and counts.
\* Variant: learners of classes that are not deleted.
ListLearners_ofClasses(s) ==
  {l \in DOMAIN learners : learners[l].school = s /\ ~learners[l].gone /\ ~classes[learners[l].class].gone}

ListLearners(s) == {l \in DOMAIN learners : learners[l].school = s /\ ~learners[l].gone}
ListTeachers(s) == {u \in Users : users[u] # NoRow /\ users[u].school = s /\ users[u].role = Teacher}
ListSchoolClasses(s) == {c \in DOMAIN classes : classes[c].school = s /\ ~classes[c].gone}
SchoolStats(s) ==
  [teachers |-> Cardinality(ListTeachers(s)), learners |-> Cardinality(ListLearners(s)),
   classes |-> Cardinality(ListSchoolClasses(s))]

\* admin_dashboard: counts of its own.
InSchool(rows, s) == {x \in DOMAIN rows : rows[x].school = s}
Dashboard(s) ==
  [learners |-> Cardinality({l \in InSchool(learners, s) : ~learners[l].gone}),
   classes |-> Cardinality({c \in InSchool(classes, s) : ~classes[c].gone}),
   runs |-> Cardinality({w \in InSchool(works, s) : works[w].kind = "run"})]

\* What the super admin is: of all schools.
ListAllLearners == {l \in DOMAIN learners : ~learners[l].gone}
ListUsers(role) == {u \in Users : users[u] # NoRow /\ users[u].role = role}
SystemStats ==
  [teachers |-> Cardinality(ListUsers(Teacher)), learners |-> Cardinality(ListAllLearners),
   classes |-> Cardinality({c \in DOMAIN classes : ~classes[c].gone})]

-----------------------------------------------------------------------------
TypeOK ==
  /\ users \in [Users -> User \cup {NoRow}] /\ seen \in [Users -> User \cup {NoRow}]
  /\ \A c \in DOMAIN classes : classes[c] \in [school : Schools, teacher : Users, gone : BOOLEAN]
  /\ \A l \in DOMAIN learners :
       learners[l] \in [school : Schools, class : DOMAIN classes, gone : BOOLEAN]
  /\ \A w \in DOMAIN works :
       works[w] \in [kind : {"run", "exam"}, school : Schools, class : DOMAIN classes, closed : BOOLEAN]
  /\ moved \subseteq Users /\ demoted \in BOOLEAN /\ changes \in 0 .. MaxChanges
  /\ strays \subseteq DOMAIN learners \cup DOMAIN works

\* Every record is in the school of its class, whoever made it through which
\* of the four ways; it leaves that school only through a class that a teacher
\* kept on moving away, a class or school assigned by an admin's update, or
\* the school a term exam is given by name.
SchoolsAgree ==
  /\ \A l \in DOMAIN learners \ strays : learners[l].school = classes[learners[l].class].school
  /\ \A w \in DOMAIN works \ strays : works[w].school = classes[works[w].class].school

\* What teachers and school admins are shown of classes and learners is of
\* their own school, also where the query asks only for the class's teacher
\* or the class: strays, and users who moved and kept their classes, apart.
SeesOwnSchool ==
  \A u \in {v \in Users \ moved : users[v] # NoRow} :
    /\ \A c \in ListClasses(u) : classes[c].school = users[u].school
    /\ \A c \in Classes : \A l \in ListForClass(u, c) \ strays : learners[l].school = users[u].school
    /\ \A w \in ListRuns(u) \ strays : Owns(u, users[u], works[w].class)

\* What a teacher is shown of a class, the school admin is shown as well: no
\* learner is where only the teacher finds it, in a deleted class neither;
\* strays, and teachers who moved and kept their classes, apart.
AdminSeesAll ==
  \A u \in {v \in Users \ moved : users[v] # NoRow} :
    /\ ListClasses(u) \subseteq ListSchoolClasses(users[u].school)
    /\ \A c \in Classes :
         (ListForClass(u, c) \cup ListClassLearners(u, c)) \ strays \subseteq ListLearners(users[u].school)

\* What a page lists, the page behind it shows: each learner of a class can
\* be opened, and is on the mark sheet of every exam of the class, whoever
\* set it; strays, and users who moved and kept their classes, apart.
PagesLead ==
  \A u \in {v \in Users \ moved : users[v] # NoRow} :
    /\ \A c \in Classes : \A l \in ListForClass(u, c) \ strays : GetLearner(u, l)
    /\ \A w \in ListTermExams(u) \ strays :
         ListForClass(u, works[w].class) \ strays \subseteq ListExamScores(u, w)

Sum(f) == MapThenSumSet(LAMBDA x : f[x], DOMAIN f)

\* The numbers of the platform are the sums of those of its schools, those of
\* a school the same on either page of its admin, and the runs counted are
\* those that are listed, though each handler filters by itself.
TotalsAgree ==
  /\ \A k \in DOMAIN SystemStats : SystemStats[k] = Sum([s \in Schools |-> SchoolStats(s)[k]])
  /\ \A s \in Schools :
       Dashboard(s).learners = SchoolStats(s).learners /\ Dashboard(s).classes = SchoolStats(s).classes
  /\ \A u \in Users : users[u] # NoRow /\ users[u].role \in Admins =>
       Dashboard(users[u].school).runs = Cardinality(ListRuns(u))

\* There is always a super admin who can sign in: deactivating takes another
\* one's account, so the sender is left, unless update_user took the last one
\* away or two of them deactivated each other at the same time.
AdminRemains == demoted \/ \E u \in Users : IsSuper(users[u])

\* The views agree with each other: each user is shown what is theirs, and
\* the admin all of it.
ViewsAgree == SeesOwnSchool /\ AdminSeesAll /\ PagesLead
=============================================================================
