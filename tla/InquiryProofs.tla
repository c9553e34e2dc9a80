---------------------------- MODULE InquiryProofs ----------------------------
(***************************************************************************)
(* Proofs about Inquiry for any users, admins, ids, and any number of      *)
(* handlers at work at the same time.                                      *)
(*                                                                         *)
(* Each place of a handler comes with the local variables that its next    *)
(* step uses (JobsInv), each form with the data that its buttons use       *)
(* (FormsInv).  A handler that is going to set a state of a form is there  *)
(* only while the form has its id, or the form counts as overtaken         *)
(* (DraftInv).  A closed row is never written again, so what a handler     *)
(* has recorded it may tell at any time later (TellsTruth is inductive).   *)
(***************************************************************************)
EXTENDS Inquiry, FiniteSetTheorems, TLAPS

Job == [pc : Places, actor : Actor \cup {None}, id : Id \cup {None},
        action : Action \cup {None}, next : Filling \cup {None}]

Form == [state : Filling \cup {"none", "dialogue"}, id : Id \cup {None},
         text : SUBSET {"subject", "message"}, action : Action \cup {None}, submit : BOOLEAN]

Row == [status : Status, user : User \cup {None}, by : Actor \cup {None}]

\* A handler has what its next step uses.
Sound(j) ==
    /\ j.pc \in {"started", "texted", "listing", "creating", "finishing"} => j.actor \in User
    /\ j.pc \in {"cancelling", "checking", "updating", "telling"} => j.actor \in Actor
    /\ j.pc \in {"listing", "creating", "finishing", "checking", "updating"} => j.id \in Id
    /\ j.pc \in {"checking", "updating"} => j.action \in Action
    /\ j.pc = "telling" /\ j.action = "close" => j.id \in Id
    /\ j.pc = "texted" => j.next \in Filling

\* A form has what its buttons and messages use.
Fit(f) ==
    /\ f.state = "dialogue" => f.id \in Id /\ f.action \in Action
    /\ f.submit => f.id \in Id

JobsInv == \A h \in Handler : Sound(job[h])

FormsInv == \A p \in Actor : Fit(form[p])

\* A user who has a form, or is about to get one, has an id, unless overtaken.
DraftInv ==
    \A u \in User \ overtaken :
        form[u].state \in Filling \/ StepUnderWay(u) => form[u].id # None

\* Two open inquiries of a user are one.
OneOpen ==
    \A x, y \in Id :
        rows[x].status \in Open /\ rows[y].status \in Open /\ rows[x].user = rows[y].user => x = y

LocalInv == TypeOK /\ JobsInv /\ FormsInv

IInv == LocalInv /\ DraftInv /\ OneOpen /\ TellsTruth

-----------------------------------------------------------------------------
(* Handlers, forms and rows one at a time.                                 *)

LEMMA NoJobSound == NoJob \in Job /\ Sound(NoJob) /\ NoForm \in Form /\ Fit(NoForm)
BY InquiryAssumption DEF NoJob, Job, Sound, Places, NoForm, Form, Fit, Filling

\* A step replaces one handler's record and one form, at most.
LEMMA OneAtATime ==
    ASSUME LocalInv,
           \/ job' = job
           \/ \E h \in Handler, j \in Job : Sound(j) /\ job' = [job EXCEPT ![h] = j],
           \/ form' = form
           \/ \E p \in Actor, f \in Form : Fit(f) /\ form' = [form EXCEPT ![p] = f],
           \/ rows' = rows /\ readable' = readable
           \/ \E x \in Id, row \in Row : row.status # "absent" /\ SetRow(x, row),
           overtaken' \subseteq User
    PROVE  LocalInv'
<1>1. job \in [Handler -> Job] /\ form \in [Actor -> Form]
  BY DEF LocalInv, TypeOK, Job, Form
<1>2. job' \in [Handler -> Job] /\ JobsInv'
  <2>1. CASE job' = job
    BY <1>1, <2>1 DEF LocalInv, JobsInv
  <2>2. CASE \E h \in Handler, j \in Job : Sound(j) /\ job' = [job EXCEPT ![h] = j]
    <3>1. PICK h \in Handler, j \in Job : Sound(j) /\ job' = [job EXCEPT ![h] = j]
      BY <2>2
    <3>2. \A k \in Handler : job'[k] = IF k = h THEN j ELSE job[k]
      BY <1>1, <3>1
    <3>3. \A k \in Handler : Sound(job'[k])
      BY <3>1, <3>2 DEF LocalInv, JobsInv
    <3> QED BY <1>1, <3>1, <3>3 DEF JobsInv
  <2> QED BY <2>1, <2>2
<1>3. form' \in [Actor -> Form] /\ FormsInv'
  <2>1. CASE form' = form
    BY <1>1, <2>1 DEF LocalInv, FormsInv
  <2>2. CASE \E p \in Actor, f \in Form : Fit(f) /\ form' = [form EXCEPT ![p] = f]
    <3>1. PICK p \in Actor, f \in Form : Fit(f) /\ form' = [form EXCEPT ![p] = f]
      BY <2>2
    <3>2. \A q \in Actor : form'[q] = IF q = p THEN f ELSE form[q]
      BY <1>1, <3>1
    <3>3. \A q \in Actor : Fit(form'[q])
      BY <3>1, <3>2 DEF LocalInv, FormsInv
    <3> QED BY <1>1, <3>1, <3>3 DEF FormsInv
  <2> QED BY <2>1, <2>2
<1>4. rows' \in [Id -> Row] /\ readable' \in [Id -> SUBSET (Status \ {"absent"})]
  <2>1. rows \in [Id -> Row] /\ readable \in [Id -> SUBSET (Status \ {"absent"})]
    BY DEF LocalInv, TypeOK, Row
  <2>2. ASSUME NEW x \in Id, NEW row \in Row, row.status # "absent", SetRow(x, row)
        PROVE  rows' \in [Id -> Row] /\ readable' \in [Id -> SUBSET (Status \ {"absent"})]
    <3>1. row.status \in Status \ {"absent"}
      BY <2>2 DEF Row
    <3> QED BY <2>1, <2>2, <3>1 DEF SetRow
  <2> QED BY <2>1, <2>2
<1>5. TypeOK'
  BY <1>2, <1>3, <1>4 DEF TypeOK, Job, Form, Row
<1> QED BY <1>2, <1>3, <1>5 DEF LocalInv

\* Who is overtaken is a user, as a step of a form is a user's; nobody else changes.
LEMMA OvertakesUsers ==
    ASSUME LocalInv, NEW p \in Actor, Overtakes(p)
    PROVE  /\ overtaken' \subseteq User
           /\ \A u \in User \ {p} : u \in overtaken' <=> u \in overtaken
           /\ StepUnderWay(p) => p \in overtaken'
<1>1. StepUnderWay(p) => p \in User
  BY DEF StepUnderWay, LocalInv, JobsInv, Sound
<1>2. overtaken \subseteq User
  BY DEF LocalInv, TypeOK
<1> QED BY <1>1, <1>2 DEF Overtakes

LEMMA LocalInit == Init => LocalInv
<1> SUFFICES ASSUME Init PROVE LocalInv
  OBVIOUS
<1>1. TypeOK
  BY NoJobSound DEF Init, TypeOK, NoRow, Status, Job, Form
<1>2. JobsInv /\ FormsInv
  BY NoJobSound DEF Init, JobsInv, FormsInv
<1> QED BY <1>1, <1>2 DEF LocalInv

\* The records at hand.
LEMMA AtHand ==
    ASSUME LocalInv
    PROVE  /\ \A h \in Handler : job[h] \in Job /\ Sound(job[h])
           /\ \A p \in Actor : form[p] \in Form /\ Fit(form[p])
           /\ \A x \in Id : rows[x] \in Row
           /\ overtaken \subseteq User
<1>1. job \in [Handler -> Job] /\ form \in [Actor -> Form] /\ rows \in [Id -> Row]
  BY DEF LocalInv, TypeOK, Job, Form, Row
<1> QED BY <1>1 DEF LocalInv, JobsInv, FormsInv, TypeOK

LEMMA LocalEvent == ASSUME LocalInv, NEW h \in Handler, Event(h) PROVE LocalInv'
<1> USE DEF Job, Form, Sound, Fit, NoJob, Places, Actor, Filling, Begin
<1>0. /\ \A p \in Actor : form[p] \in Form /\ Fit(form[p])
      /\ \A x \in Id : rows[x] \in Row
      /\ NoJob \in Job /\ overtaken \subseteq User
  BY AtHand, NoJobSound
<1>1. ASSUME NEW u \in User, GetText(h, u) PROVE LocalInv'
  <2> DEFINE f == [form[u] EXCEPT !.text = @ \cup ({form[u].state} \cap {"subject", "message"})]
             j == [NoJob EXCEPT !.pc = "texted", !.actor = u, !.next = Following(form[u].state)]
  <2>1. Following(form[u].state) \in Filling
    BY <1>1 DEF GetText, Following
  <2>2. j \in Job /\ Sound(j)
    BY <1>0, <2>1
  <2>3. f \in Form /\ Fit(f) /\ form' = [form EXCEPT ![u] = f]
    BY <1>0, <1>1 DEF GetText
  <2>4. job' = job \/ job' = [job EXCEPT ![h] = j]
    BY <1>1 DEF GetText
  <2>5. rows' = rows /\ readable' = readable /\ overtaken' = overtaken
    BY <1>1 DEF GetText
  <2>6. u \in Actor
    OBVIOUS
  <2> HIDE DEF f, j, Job, Form, Sound, Fit, NoJob, Places, Actor, Filling, Begin
  <2> QED BY ONLY <1>0, <2>2, <2>3, <2>4, <2>5, <2>6, LocalInv, h \in Handler, OneAtATime
<1>2. ASSUME NEW u \in User, Submit(h, u) PROVE LocalInv'
  <2> DEFINE j == [NoJob EXCEPT !.pc = "listing", !.actor = u, !.id = form[u].id]
  <2>1. j \in Job /\ Sound(j)
    BY <1>0, <1>2 DEF Submit
  <2>2. job' = [job EXCEPT ![h] = j]
    BY <1>2 DEF Submit
  <2>3. form' = form /\ rows' = rows /\ readable' = readable /\ overtaken' = overtaken
    BY <1>2 DEF Submit
  <2> QED BY ONLY <1>0, <2>1, <2>2, <2>3, LocalInv, h \in Handler, OneAtATime
<1>3. ASSUME NEW u \in User, NEW x \in Id, StartInquiry(h, u, x) PROVE LocalInv'
  <2> DEFINE f == [form[u] EXCEPT !.id = x, !.submit = FALSE]
             j == [NoJob EXCEPT !.pc = "started", !.actor = u]
  <2>1. j \in Job /\ Sound(j)
    BY <1>0
  <2>2. f \in Form /\ Fit(f)
    BY <1>0
  <2>3. form' = [form EXCEPT ![u] = f] /\ job' = [job EXCEPT ![h] = j]
    <3>1. form \in [Actor -> Form]
      BY DEF LocalInv, TypeOK
    <3> QED BY <1>3, <3>1 DEF StartInquiry
  <2>4. rows' = rows /\ readable' = readable /\ overtaken' = overtaken
    BY <1>3 DEF StartInquiry
  <2>5. u \in Actor
    OBVIOUS
  <2> QED BY ONLY <1>0, <2>1, <2>2, <2>3, <2>4, <2>5, LocalInv, h \in Handler, OneAtATime
<1>4. ASSUME NEW p \in Actor, Cancel(h, p) PROVE LocalInv'
  <2> DEFINE j == [NoJob EXCEPT !.pc = "cancelling", !.actor = p]
  <2>1. j \in Job /\ Sound(j)
    BY <1>0
  <2>2. job' = [job EXCEPT ![h] = j]
    BY <1>4 DEF Cancel
  <2>3. form' = form /\ rows' = rows /\ readable' = readable /\ overtaken' = overtaken
    BY <1>4 DEF Cancel
  <2> QED BY ONLY <1>0, <2>1, <2>2, <2>3, LocalInv, h \in Handler, OneAtATime
<1>5. ASSUME NEW p \in Actor, GetReply(h, p) PROVE LocalInv'
  <2> DEFINE j == [NoJob EXCEPT !.pc = "telling", !.actor = p, !.action = "reply"]
  <2>1. j \in Job /\ Sound(j)
    BY <1>0, <1>5 DEF GetReply
  <2>2. job' = [job EXCEPT ![h] = j]
    BY <1>5 DEF GetReply
  <2>3. form' = form /\ rows' = rows /\ readable' = readable /\ overtaken' = overtaken
    BY <1>5 DEF GetReply
  <2> QED BY ONLY <1>0, <2>1, <2>2, <2>3, LocalInv, h \in Handler, OneAtATime
<1>6. ASSUME NEW p \in Actor, GetUpdate(h, p) PROVE LocalInv'
  <2> DEFINE j == [NoJob EXCEPT !.pc = "updating", !.actor = p, !.id = form[p].id,
                                !.action = form[p].action]
  <2>1. j \in Job /\ Sound(j)
    BY <1>0, <1>6 DEF GetUpdate
  <2>2. job' = [job EXCEPT ![h] = j]
    BY <1>6 DEF GetUpdate
  <2>3. form' = form /\ rows' = rows /\ readable' = readable /\ overtaken' = overtaken
    BY <1>6 DEF GetUpdate
  <2> QED BY ONLY <1>0, <2>1, <2>2, <2>3, LocalInv, h \in Handler, OneAtATime
<1>7. ASSUME NEW p \in Actor, NEW x \in Id, NEW action \in Action, ReplyInquiry(h, p, x, action)
      PROVE  LocalInv'
  <2> DEFINE j == [NoJob EXCEPT !.pc = "checking", !.actor = p, !.id = x, !.action = action]
  <2>1. j \in Job /\ Sound(j)
    BY <1>0
  <2>2. job' = [job EXCEPT ![h] = j]
    BY <1>7 DEF ReplyInquiry
  <2>3. form' = form /\ rows' = rows /\ readable' = readable /\ overtaken' = overtaken
    BY <1>7 DEF ReplyInquiry
  <2> QED BY ONLY <1>0, <2>1, <2>2, <2>3, LocalInv, h \in Handler, OneAtATime
<1> QED BY <1>1, <1>2, <1>3, <1>4, <1>5, <1>6, <1>7 DEF Event

\* What clears a form, or sets its state, keeps the rest as it should be.
LEMMA LocalStep == ASSUME LocalInv, NEW h \in Handler, Step(h) PROVE LocalInv'
<1> DEFINE p == job[h].actor
           x == job[h].id
<1>0. /\ job[h] \in Job /\ Sound(job[h])
      /\ \A q \in Actor : form[q] \in Form /\ Fit(form[q])
      /\ \A y \in Id : rows[y] \in Row
      /\ overtaken \subseteq User
      /\ NoJob \in Job /\ Sound(NoJob) /\ NoForm \in Form /\ Fit(NoForm)
      /\ form \in [Actor -> Form] /\ job \in [Handler -> Job]
      /\ User \subseteq Actor
  BY AtHand, NoJobSound DEF Actor, LocalInv, TypeOK, Form, Job
<1>1. CASE Started(h) \/ Texted(h)
  <2>1. PICK s \in Filling : form' = [form EXCEPT ![p].state = s]
    BY <1>0, <1>1 DEF Started, Texted, Sound, Filling
  <2> DEFINE f == [form[p] EXCEPT !.state = s]
  <2>2. p \in Actor
    BY <1>0, <1>1 DEF Started, Texted, Sound
  <2>3. f \in Form /\ Fit(f) /\ form' = [form EXCEPT ![p] = f]
    BY <1>0, <2>1, <2>2 DEF Form, Fit, Filling
  <2>4. /\ job' = [job EXCEPT ![h] = NoJob]
        /\ rows' = rows /\ readable' = readable /\ overtaken' = overtaken
    BY <1>1 DEF Started, Texted, End
  <2> QED BY ONLY <1>0, <2>2, <2>3, <2>4, LocalInv, h \in Handler, OneAtATime
<1>2. CASE Cancelled(h) \/ Finish(h) \/ Tell(h)
  <2>1. p \in Actor /\ Clear(p) /\ job' = [job EXCEPT ![h] = NoJob]
        /\ rows' = rows /\ readable' = readable
    BY <1>0, <1>2 DEF Cancelled, Finish, Tell, End, Sound
  <2>2. form' = [form EXCEPT ![p] = NoForm] /\ overtaken' \subseteq User
    BY <2>1, OvertakesUsers DEF Clear, Cleared
  <2> QED BY ONLY <1>0, <2>1, <2>2, LocalInv, h \in Handler, OneAtATime
<1>3. CASE Listed(h)
  <2> DEFINE j == [job[h] EXCEPT !.pc = "creating"]
  <2>1. j \in Job /\ Sound(j)
    BY <1>0, <1>3 DEF Listed, Job, Sound, Places
  <2>2. /\ job' = [job EXCEPT ![h] = j] \/ job' = [job EXCEPT ![h] = NoJob]
        /\ form' = form /\ rows' = rows /\ readable' = readable /\ overtaken' = overtaken
    BY <1>3 DEF Listed, End, Goto
  <2> HIDE DEF j
  <2> QED BY ONLY <1>0, <2>1, <2>2, LocalInv, h \in Handler, OneAtATime
<1>4. CASE Created(h)
  <2> DEFINE j == [job[h] EXCEPT !.pc = "finishing"]
             row == [status |-> "open", user |-> p, by |-> None]
  <2>1. j \in Job /\ Sound(j)
    BY <1>0, <1>4 DEF Created, Job, Sound, Places
  <2>2. row \in Row /\ row.status # "absent" /\ x \in Id
    BY <1>0, <1>4 DEF Created, Job, Sound, Row, Status, Open
  <2>3. /\ job' = [job EXCEPT ![h] = j] \/ job' = [job EXCEPT ![h] = NoJob]
        /\ SetRow(x, row) \/ (rows' = rows /\ readable' = readable)
        /\ form' = form /\ overtaken' = overtaken
    BY <1>4 DEF Created, End, Goto
  <2> HIDE DEF j, row, x
  <2> QED BY ONLY <1>0, <2>1, <2>2, <2>3, LocalInv, h \in Handler, OneAtATime
<1>5. CASE Checked(h)
  <2> DEFINE f == [NoForm EXCEPT !.state = "dialogue", !.id = x, !.action = job[h].action]
  <2>1. p \in Actor /\ f \in Form /\ Fit(f)
    BY <1>0, <1>5 DEF Checked, Sound, NoForm, Form, Fit
  <2>2. job' = [job EXCEPT ![h] = NoJob] /\ rows' = rows /\ readable' = readable
    BY <1>5 DEF Checked, End
  <2>3. \/ form' = [form EXCEPT ![p] = f] /\ Overtakes(p)
        \/ form' = form /\ overtaken' = overtaken
    BY <1>5 DEF Checked
  <2>4. overtaken' \subseteq User
    BY <1>0, <2>1, <2>3, OvertakesUsers
  <2> HIDE DEF f, p
  <2> QED BY ONLY <1>0, <2>1, <2>2, <2>3, <2>4, LocalInv, h \in Handler, OneAtATime
<1>6. CASE Update(h)
  <2> DEFINE j == [job[h] EXCEPT !.pc = "telling"]
             row == IF job[h].action = "close"
                    THEN [rows[x] EXCEPT !.status = "closed", !.by = p]
                    ELSE [rows[x] EXCEPT !.status = "blocked"]
  <2>1. j \in Job /\ Sound(j)
    BY <1>0, <1>6 DEF Update, Job, Sound, Places
  <2>2. x \in Id /\ p \in Actor
    BY <1>0, <1>6 DEF Update, Sound
  <2>3. row \in Row /\ row.status # "absent"
    BY <1>0, <2>2 DEF Row, Status, Open
  <2>4. /\ job' = [job EXCEPT ![h] = j] \/ job' = [job EXCEPT ![h] = NoJob]
        /\ SetRow(x, row) \/ (rows' = rows /\ readable' = readable)
        /\ form' = form /\ overtaken' = overtaken
    BY <1>6 DEF Update, End, Goto
  <2> HIDE DEF j, row, x
  <2> QED BY ONLY <1>0, <2>1, <2>2, <2>3, <2>4, LocalInv, h \in Handler, OneAtATime
<1>7. CASE Abort(h)
  <2>1. /\ job' = [job EXCEPT ![h] = NoJob]
        /\ form' = form /\ rows' = rows /\ readable' = readable /\ overtaken' = overtaken
    BY <1>7 DEF Abort, End
  <2> QED BY ONLY <1>0, <2>1, LocalInv, h \in Handler, OneAtATime
<1> QED BY <1>1, <1>2, <1>3, <1>4, <1>5, <1>6, <1>7 DEF Step

LEMMA LocalNext == LocalInv /\ [Next]_vars => LocalInv'
<1> SUFFICES ASSUME LocalInv, [Next]_vars PROVE LocalInv'
  OBVIOUS
<1>1. ASSUME NEW h \in Handler, Event(h) \/ Step(h) PROVE LocalInv'
  BY <1>1, LocalEvent, LocalStep
<1>2. ASSUME NEW u \in User, NextScreenshot(u) PROVE LocalInv'
  <2> DEFINE f == [form[u] EXCEPT !.submit = TRUE]
  <2>1. /\ u \in Actor /\ form[u] \in Form /\ Fit(form[u]) /\ overtaken \subseteq User
        /\ form \in [Actor -> Form]
    BY AtHand DEF Actor, LocalInv, TypeOK, Form
  <2>2. f \in Form /\ Fit(f) /\ form' = [form EXCEPT ![u] = f]
    BY <1>2, <2>1 DEF NextScreenshot, Form, Fit
  <2>3. job' = job /\ rows' = rows /\ readable' = readable /\ overtaken' = overtaken
    BY <1>2 DEF NextScreenshot
  <2> QED BY ONLY <2>1, <2>2, <2>3, LocalInv, OneAtATime
<1>3. CASE Restart
  <2>1. TypeOK'
    BY <1>3, NoJobSound DEF Restart, LocalInv, TypeOK, Job, Form
  <2>2. JobsInv' /\ FormsInv'
    BY <1>3, NoJobSound DEF Restart, JobsInv, FormsInv
  <2> QED BY <2>1, <2>2 DEF LocalInv
<1>4. CASE UNCHANGED vars
  BY <1>4 DEF vars, LocalInv, TypeOK, JobsInv, FormsInv
<1> QED BY <1>1, <1>2, <1>3, <1>4 DEF Next

-----------------------------------------------------------------------------
(* Rows.                                                                   *)

\* Rows change where one is created or updated: a row that is not there becomes the
\* only open one of its user, or an open row gets another status.
LEMMA RowChange ==
    ASSUME LocalInv, [Next]_vars
    PROVE  \/ rows' = rows
           \/ \E h \in Handler :
                /\ Created(h) /\ job[h].id \in Id /\ job' = [job EXCEPT ![h].pc = "finishing"]
                /\ Unique(job[h].actor, job[h].id)
                /\ rows' = [rows EXCEPT ![job[h].id] =
                                [status |-> "open", user |-> job[h].actor, by |-> None]]
           \/ \E h \in Handler :
                /\ Update(h) /\ job[h].id \in Id /\ job' = [job EXCEPT ![h].pc = "telling"]
                /\ Updatable(job[h].actor, job[h].id)
                /\ rows' = [rows EXCEPT ![job[h].id] =
                                IF job[h].action = "close"
                                THEN [rows[job[h].id] EXCEPT !.status = "closed", !.by = job[h].actor]
                                ELSE [rows[job[h].id] EXCEPT !.status = "blocked"]]
<1>1. ASSUME NEW h \in Handler, Event(h) PROVE rows' = rows
  BY <1>1 DEF Event, GetText, Submit, StartInquiry, Cancel, GetReply, GetUpdate, ReplyInquiry
<1>2. ASSUME NEW h \in Handler, Created(h)
      PROVE  \/ rows' = rows
             \/ /\ job[h].id \in Id /\ job' = [job EXCEPT ![h].pc = "finishing"]
                /\ Unique(job[h].actor, job[h].id)
                /\ rows' = [rows EXCEPT ![job[h].id] =
                                [status |-> "open", user |-> job[h].actor, by |-> None]]
  BY <1>2, AtHand DEF Created, Goto, SetRow, Sound
<1>3. ASSUME NEW h \in Handler, Update(h)
      PROVE  \/ rows' = rows
             \/ /\ job[h].id \in Id /\ job' = [job EXCEPT ![h].pc = "telling"]
                /\ Updatable(job[h].actor, job[h].id)
                /\ rows' = [rows EXCEPT ![job[h].id] =
                                IF job[h].action = "close"
                                THEN [rows[job[h].id] EXCEPT !.status = "closed", !.by = job[h].actor]
                                ELSE [rows[job[h].id] EXCEPT !.status = "blocked"]]
  BY <1>3, AtHand DEF Update, Goto, SetRow, Sound
<1>4. ASSUME NEW h \in Handler, Step(h), ~ Created(h), ~ Update(h) PROVE rows' = rows
  BY <1>4 DEF Step, Started, Texted, Cancelled, Listed, Finish, Checked, Tell, Abort
<1>5. CASE \E u \in User : NextScreenshot(u)
  BY <1>5 DEF NextScreenshot
<1>6. CASE Restart \/ UNCHANGED vars
  BY <1>6 DEF Restart, vars
<1> QED BY <1>1, <1>2, <1>3, <1>4, <1>5, <1>6 DEF Next

LEMMA OneOpenNext == LocalInv /\ OneOpen /\ [Next]_vars => OneOpen'
<1> SUFFICES ASSUME LocalInv, OneOpen, [Next]_vars PROVE OneOpen'
  OBVIOUS
<1>0. rows \in [Id -> Row] /\ \A x \in Id : rows[x] \in Row
  BY AtHand DEF LocalInv, TypeOK, Row
<1>1. CASE rows' = rows
  BY <1>1 DEF OneOpen
<1>2. ASSUME NEW h \in Handler, job[h].id \in Id, Unique(job[h].actor, job[h].id),
             rows' = [rows EXCEPT ![job[h].id] =
                        [status |-> "open", user |-> job[h].actor, by |-> None]]
      PROVE  OneOpen'
  <2> DEFINE x == job[h].id
             u == job[h].actor
  <2>1. \A y \in Id : rows[y].status \in Open => rows[y].user # u
    BY <1>2 DEF Unique, HasOpen
  <2>2. rows'[x].user = u /\ \A y \in Id \ {x} : rows'[y] = rows[y]
    BY <1>0, <1>2
  <2> QED BY <1>2, <2>1, <2>2 DEF OneOpen
<1>3. ASSUME NEW h \in Handler, job[h].id \in Id, Updatable(job[h].actor, job[h].id),
             rows' = [rows EXCEPT ![job[h].id] =
                        IF job[h].action = "close"
                        THEN [rows[job[h].id] EXCEPT !.status = "closed", !.by = job[h].actor]
                        ELSE [rows[job[h].id] EXCEPT !.status = "blocked"]]
      PROVE  OneOpen'
  <2> DEFINE x == job[h].id
  <2>1. rows[x].status \in Open /\ rows'[x].user = rows[x].user /\ \A y \in Id \ {x} : rows'[y] = rows[y]
    BY <1>0, <1>3 DEF Updatable, Row
  <2>2. ASSUME NEW y \in Id, rows'[y].status \in Open
        PROVE  rows[y].status \in Open /\ rows'[y].user = rows[y].user
    BY <2>1, <2>2
  <2> QED BY <2>2 DEF OneOpen
<1> QED BY <1>1, <1>2, <1>3, RowChange

\* A closed row stays as it is.
LEMMA ClosedStays ==
    ASSUME LocalInv, [Next]_vars, NEW y \in Id, rows[y].status = "closed"
    PROVE  rows'[y] = rows[y]
<1>0. rows \in [Id -> Row]
  BY DEF LocalInv, TypeOK, Row
<1> QED BY <1>0, RowChange DEF Unique, Updatable, Open

\* A handler comes to tell of a closing by closing the row itself.
LEMMA TellsNext == LocalInv /\ TellsTruth /\ [Next]_vars => TellsTruth'
<1> SUFFICES ASSUME LocalInv, TellsTruth, [Next]_vars,
                    NEW k \in Handler, job'[k].pc = "telling", job'[k].action = "close"
             PROVE  rows'[job'[k].id].status = "closed" /\ rows'[job'[k].id].by = job'[k].actor
  BY DEF TellsTruth
<1>0. /\ job \in [Handler -> Job] /\ rows \in [Id -> Row]
      /\ \A h \in Handler : job[h] \in Job /\ Sound(job[h])
      /\ NoJob.pc # "telling"
  BY AtHand DEF LocalInv, TypeOK, Row, Job, NoJob
<1>1. CASE job'[k] = job[k]
  <2>1. job[k].id \in Id /\ rows[job[k].id].status = "closed" /\ rows[job[k].id].by = job[k].actor
    BY <1>0, <1>1 DEF TellsTruth, Sound
  <2>2. rows'[job[k].id] = rows[job[k].id]
    BY <2>1, ClosedStays
  <2> QED BY <1>1, <2>1, <2>2
<1>2. CASE job'[k] # job[k]
  <2>1. ASSUME NEW h \in Handler, Event(h) PROVE FALSE
    <3>1. ASSUME NEW u \in User, GetText(h, u) PROVE FALSE
      BY <1>0, <1>2, <3>1 DEF GetText, Begin, NoJob
    <3>2. ASSUME NEW u \in User, Submit(h, u) PROVE FALSE
      BY <1>0, <1>2, <3>2 DEF Submit, Begin, NoJob
    <3>3. ASSUME NEW u \in User, NEW x \in Id, StartInquiry(h, u, x) PROVE FALSE
      BY <1>0, <1>2, <3>3 DEF StartInquiry, Begin, NoJob
    <3>4. ASSUME NEW p \in Actor, Cancel(h, p) \/ GetReply(h, p) PROVE FALSE
      BY <1>0, <1>2, <3>4 DEF Cancel, GetReply, Begin, NoJob
    <3>5. ASSUME NEW p \in Actor, GetUpdate(h, p) PROVE FALSE
      BY <1>0, <1>2, <3>5 DEF GetUpdate, Begin, NoJob
    <3>6. ASSUME NEW p \in Actor, NEW x \in Id, NEW action \in Action, ReplyInquiry(h, p, x, action)
          PROVE  FALSE
      BY <1>0, <1>2, <3>6 DEF ReplyInquiry, Begin, NoJob
    <3> QED BY <2>1, <3>1, <3>2, <3>3, <3>4, <3>5, <3>6 DEF Event
  <2>2. ASSUME NEW h \in Handler, Step(h), ~ Update(h) PROVE FALSE
    <3>1. \/ job' = [job EXCEPT ![h] = NoJob]
          \/ job' = [job EXCEPT ![h].pc = "creating"] \/ job' = [job EXCEPT ![h].pc = "finishing"]
      BY <2>2 DEF Step, Started, Texted, Cancelled, Listed, Created, Finish, Checked, Tell, Abort,
                  End, Goto
    <3> QED BY <1>0, <1>2, <3>1 DEF Job
  <2>3. ASSUME NEW h \in Handler, Update(h)
        PROVE  rows'[job'[k].id].status = "closed" /\ rows'[job'[k].id].by = job'[k].actor
    <3>1. h = k /\ job' = [job EXCEPT ![h].pc = "telling"]
      BY <1>0, <1>2, <2>3 DEF Update, Goto, End
    <3>2. /\ job[k].id \in Id /\ job[k].action = "close"
          /\ job'[k].id = job[k].id /\ job'[k].actor = job[k].actor
      BY <1>0, <2>3, <3>1 DEF Update, Sound, Job
    <3>3. rows' = [rows EXCEPT ![job[k].id] =
                        [rows[job[k].id] EXCEPT !.status = "closed", !.by = job[k].actor]]
      <4>1. job'[k].pc = "telling" /\ NoJob.pc = "idle"
        BY DEF NoJob
      <4> QED BY <1>0, <2>3, <3>1, <3>2, <4>1 DEF Update, SetRow, End
    <3> QED BY <1>0, <3>2, <3>3 DEF Row
  <2>4. CASE (\E u \in User : NextScreenshot(u)) \/ UNCHANGED vars
    BY <1>2, <2>4 DEF NextScreenshot, vars
  <2>5. CASE Restart
    BY <1>0, <2>5 DEF Restart
  <2> QED BY <2>1, <2>2, <2>3, <2>4, <2>5 DEF Next
<1> QED BY <1>1, <1>2

-----------------------------------------------------------------------------
(* Drafts.                                                                 *)

Draft(u) == form[u].state \in Filling \/ StepUnderWay(u) => form[u].id # None

\* A step that is under way afterwards was so before, or is the one that begins.
LEMMA StepsOf ==
    ASSUME LocalInv, NEW h \in Handler, NEW j, job' = [job EXCEPT ![h] = j],
           NEW u \in User, StepUnderWay(u)'
    PROVE  StepUnderWay(u) \/ (j.actor = u /\ j.pc \in {"started", "texted"})
<1>1. PICK k \in Handler : job'[k].actor = u /\ job'[k].pc \in {"started", "texted"}
  BY DEF StepUnderWay
<1>2. job \in [Handler -> Job]
  BY DEF LocalInv, TypeOK, Job
<1> QED BY <1>1, <1>2 DEF StepUnderWay

\* Where the form keeps its id, and no step begins or sets a state without one.
LEMMA DraftKept ==
    ASSUME LocalInv, NEW u \in User, Draft(u), form'[u] = form[u],
           \/ job' = job
           \/ \E h \in Handler, j \in Job :
                job' = [job EXCEPT ![h] = j] /\ j.pc \notin {"started", "texted"}
    PROVE  Draft(u)'
<1>1. StepUnderWay(u)' => StepUnderWay(u)
  <2>1. CASE job' = job
    BY <2>1 DEF StepUnderWay
  <2>2. CASE \E h \in Handler, j \in Job :
                job' = [job EXCEPT ![h] = j] /\ j.pc \notin {"started", "texted"}
    BY <2>2, StepsOf
  <2> QED BY <2>1, <2>2
<1>2. Draft(u)' <=> (form'[u].state \in Filling \/ StepUnderWay(u)' => form'[u].id # None)
  BY DEF Draft, StepUnderWay
<1> QED BY <1>1, <1>2 DEF Draft

LEMMA DraftEvent ==
    ASSUME LocalInv, NEW h \in Handler, Event(h), NEW u \in User, Draft(u)
    PROVE  Draft(u)'
<1>0. /\ \A p \in Actor : form[p] \in Form /\ Fit(form[p])
      /\ form \in [Actor -> Form] /\ job \in [Handler -> Job] /\ NoJob \in Job
      /\ u \in Actor /\ \A x \in Id : x # None
  BY AtHand, NoJobSound, InquiryAssumption DEF Actor, LocalInv, TypeOK, Form, Job
<1>1. ASSUME NEW v \in User, GetText(h, v) PROVE Draft(u)'
  <2>1. form'[u].id = form[u].id /\ form'[u].state = form[u].state
    BY <1>0, <1>1 DEF GetText, Form, Actor
  <2>2. CASE job' = job
    BY <2>1, <2>2 DEF Draft, StepUnderWay
  <2>3. CASE job' # job
    <3> DEFINE j == [NoJob EXCEPT !.pc = "texted", !.actor = v, !.next = Following(form[v].state)]
    <3>1. form[v].id # None /\ job' = [job EXCEPT ![h] = j] /\ j.actor = v
      BY <1>1, <2>3 DEF GetText, Begin, NoJob
    <3>2. StepUnderWay(u)' => StepUnderWay(u) \/ v = u
      <4> HIDE DEF j
      <4> QED BY <3>1, StepsOf
    <3>3. Draft(u)' <=> (form'[u].state \in Filling \/ StepUnderWay(u)' => form'[u].id # None)
      BY DEF Draft, StepUnderWay
    <3> QED BY <2>1, <3>1, <3>2, <3>3 DEF Draft
  <2> QED BY <2>2, <2>3
<1>2. ASSUME NEW v \in User, NEW x \in Id, StartInquiry(h, v, x) PROVE Draft(u)'
  <2> DEFINE j == [NoJob EXCEPT !.pc = "started", !.actor = v]
  <2>1. job' = [job EXCEPT ![h] = j] /\ j.actor = v
    BY <1>2 DEF StartInquiry, Begin, NoJob
  <2>2. CASE v = u
    <3>1. form'[u].id = x
      BY <1>0, <1>2, <2>2 DEF StartInquiry, Form
    <3> QED BY <1>0, <3>1 DEF Draft
  <2>3. CASE v # u
    <3>1. form'[u] = form[u]
      BY <1>0, <1>2, <2>3 DEF StartInquiry, Actor
    <3>2. StepUnderWay(u)' => StepUnderWay(u)
      <4> HIDE DEF j
      <4> QED BY <2>1, <2>3, StepsOf
    <3>3. Draft(u)' <=> (form'[u].state \in Filling \/ StepUnderWay(u)' => form'[u].id # None)
      BY DEF Draft, StepUnderWay
    <3> QED BY <3>1, <3>2, <3>3 DEF Draft
  <2> QED BY <2>2, <2>3
<1>3. ASSUME NEW v \in User, Submit(h, v) PROVE Draft(u)'
  <2> DEFINE j == [NoJob EXCEPT !.pc = "listing", !.actor = v, !.id = form[v].id]
  <2>1. j \in Job /\ j.pc \notin {"started", "texted"}
    BY <1>0, <1>3 DEF Submit, NoJob, Job, Places, Form, Actor
  <2>2. job' = [job EXCEPT ![h] = j] /\ form' = form
    BY <1>3 DEF Submit, Begin
  <2> QED BY <2>1, <2>2, DraftKept
<1>4. ASSUME NEW p \in Actor, Cancel(h, p) PROVE Draft(u)'
  <2> DEFINE j == [NoJob EXCEPT !.pc = "cancelling", !.actor = p]
  <2>1. j \in Job /\ j.pc \notin {"started", "texted"}
    BY <1>0 DEF NoJob, Job, Places
  <2>2. job' = [job EXCEPT ![h] = j] /\ form' = form
    BY <1>4 DEF Cancel, Begin
  <2> QED BY <2>1, <2>2, DraftKept
<1>5. ASSUME NEW p \in Actor, GetReply(h, p) PROVE Draft(u)'
  <2> DEFINE j == [NoJob EXCEPT !.pc = "telling", !.actor = p, !.action = "reply"]
  <2>1. j \in Job /\ j.pc \notin {"started", "texted"}
    BY <1>0, <1>5 DEF GetReply, NoJob, Job, Places, Form
  <2>2. job' = [job EXCEPT ![h] = j] /\ form' = form
    BY <1>5 DEF GetReply, Begin
  <2> QED BY <2>1, <2>2, DraftKept
<1>6. ASSUME NEW p \in Actor, GetUpdate(h, p) PROVE Draft(u)'
  <2> DEFINE j == [NoJob EXCEPT !.pc = "updating", !.actor = p, !.id = form[p].id,
                                !.action = form[p].action]
  <2>1. j \in Job /\ j.pc \notin {"started", "texted"}
    BY <1>0, <1>6 DEF NoJob, Job, Places, Form
  <2>2. job' = [job EXCEPT ![h] = j] /\ form' = form
    BY <1>6 DEF GetUpdate, Begin
  <2> QED BY <2>1, <2>2, DraftKept
<1>7. ASSUME NEW p \in Actor, NEW x \in Id, NEW action \in Action, ReplyInquiry(h, p, x, action)
      PROVE  Draft(u)'
  <2> DEFINE j == [NoJob EXCEPT !.pc = "checking", !.actor = p, !.id = x, !.action = action]
  <2>1. j \in Job /\ j.pc \notin {"started", "texted"}
    BY <1>0 DEF NoJob, Job, Places
  <2>2. job' = [job EXCEPT ![h] = j] /\ form' = form
    BY <1>7 DEF ReplyInquiry, Begin
  <2> QED BY <2>1, <2>2, DraftKept
<1> QED BY <1>1, <1>2, <1>3, <1>4, <1>5, <1>6, <1>7 DEF Event

\* Where a form is cleared or replaced while a step of it is under way, its user counts
\* as overtaken; otherwise no step is left that could set a state.
LEMMA DraftReplaced ==
    ASSUME LocalInv, NEW h \in Handler, NEW p \in Actor, NEW f \in Form, f.state \notin Filling,
           form' = [form EXCEPT ![p] = f], Overtakes(p), job' = [job EXCEPT ![h] = NoJob],
           NEW u \in User, u \notin overtaken', u \notin overtaken => Draft(u)
    PROVE  Draft(u)'
<1>1. form \in [Actor -> Form] /\ u \in Actor
  BY DEF LocalInv, TypeOK, Form, Actor
<1>2. NoJob \in Job /\ NoJob.pc \notin {"started", "texted"}
  BY NoJobSound DEF NoJob
<1>3. CASE p = u
  <2>1. ~ StepUnderWay(u) /\ form'[u].state \notin Filling
    BY <1>1, <1>3, OvertakesUsers
  <2>2. ~ StepUnderWay(u)'
    BY <1>2, <2>1, StepsOf
  <2>3. Draft(u)' <=> (form'[u].state \in Filling \/ StepUnderWay(u)' => form'[u].id # None)
    BY DEF Draft, StepUnderWay
  <2> QED BY <2>1, <2>2, <2>3
<1>4. CASE p # u
  <2>1. u \notin overtaken /\ form'[u] = form[u]
    BY <1>1, <1>4, OvertakesUsers
  <2> QED BY <1>2, <2>1, DraftKept
<1> QED BY <1>3, <1>4

LEMMA DraftStep ==
    ASSUME LocalInv, NEW h \in Handler, Step(h), NEW u \in User, u \notin overtaken',
           u \notin overtaken => Draft(u)
    PROVE  Draft(u)'
<1> DEFINE p == job[h].actor
<1>0. /\ job[h] \in Job /\ Sound(job[h])
      /\ form \in [Actor -> Form] /\ job \in [Handler -> Job]
      /\ NoJob \in Job /\ NoJob.pc \notin {"started", "texted"}
      /\ NoForm \in Form /\ NoForm.state \notin Filling
      /\ User \subseteq Actor
  BY AtHand, NoJobSound DEF Actor, LocalInv, TypeOK, Form, Job, NoJob, NoForm, Filling
<1>1. CASE Started(h) \/ Texted(h)
  <2>1. /\ p \in User /\ overtaken' = overtaken /\ job' = [job EXCEPT ![h] = NoJob]
        /\ job[h].pc \in {"started", "texted"}
    BY <1>0, <1>1 DEF Started, Texted, End, Sound
  <2>2. Draft(u)
    BY <2>1
  <2>3. CASE p = u
    <3>1. form[u].id # None
      BY <2>1, <2>2, <2>3 DEF Draft, StepUnderWay
    <3>2. PICK s \in Filling : form' = [form EXCEPT ![p].state = s]
      BY <1>0, <1>1 DEF Started, Texted, Sound, Filling
    <3>3. form'[u].id = form[u].id
      BY <1>0, <2>3, <3>2 DEF Form
    <3> QED BY <3>1, <3>3 DEF Draft
  <2>4. CASE p # u
    <3>1. form'[u] = form[u]
      BY <1>0, <1>1, <2>4 DEF Started, Texted
    <3> QED BY <1>0, <2>1, <2>2, <3>1, DraftKept
  <2> QED BY <2>3, <2>4
<1>2. CASE Cancelled(h) \/ Finish(h) \/ Tell(h)
  <2>1. /\ p \in Actor /\ job' = [job EXCEPT ![h] = NoJob]
        /\ form' = [form EXCEPT ![p] = NoForm] /\ Overtakes(p)
    BY <1>0, <1>2 DEF Cancelled, Finish, Tell, Clear, Cleared, End, Sound
  <2> QED BY ONLY <1>0, <2>1, LocalInv, h \in Handler, u \in User, u \notin overtaken',
                  u \notin overtaken => Draft(u), DraftReplaced
<1>3. CASE Checked(h)
  <2> DEFINE f == [NoForm EXCEPT !.state = "dialogue", !.id = job[h].id, !.action = job[h].action]
  <2>1. p \in Actor /\ f \in Form /\ f.state \notin Filling
    BY <1>0, <1>3 DEF Checked, Sound, NoForm, Form, Filling
  <2>2. job' = [job EXCEPT ![h] = NoJob]
    BY <1>3 DEF Checked, End
  <2>3. \/ form' = [form EXCEPT ![p] = f] /\ Overtakes(p)
        \/ form' = form /\ overtaken' = overtaken
    BY <1>3 DEF Checked
  <2> HIDE DEF f, p
  <2>4. CASE form' = [form EXCEPT ![p] = f] /\ Overtakes(p)
    BY ONLY <2>1, <2>2, <2>4, LocalInv, h \in Handler, u \in User, u \notin overtaken',
            u \notin overtaken => Draft(u), DraftReplaced
  <2>5. CASE form' = form /\ overtaken' = overtaken
    BY <1>0, <2>2, <2>5, DraftKept
  <2> QED BY <2>3, <2>4, <2>5
<1>4. CASE Listed(h) \/ Created(h) \/ Update(h) \/ Abort(h)
  <2>1. /\ form' = form /\ overtaken' = overtaken
        /\ \/ job' = [job EXCEPT ![h] = NoJob]
           \/ \E to \in {"creating", "finishing", "telling"} : job' = [job EXCEPT ![h].pc = to]
    BY <1>4 DEF Listed, Created, Update, Abort, End, Goto
  <2>2. Draft(u)
    BY <2>1
  <2>3. CASE job' = [job EXCEPT ![h] = NoJob]
    BY <1>0, <2>1, <2>2, <2>3, DraftKept
  <2>4. ASSUME NEW to \in {"creating", "finishing", "telling"}, job' = [job EXCEPT ![h].pc = to]
        PROVE  Draft(u)'
    <3> DEFINE j == [job[h] EXCEPT !.pc = to]
    <3>1. j \in Job /\ j.pc \notin {"started", "texted"} /\ job' = [job EXCEPT ![h] = j]
      BY <1>0, <2>4 DEF Job, Places
    <3> QED BY <2>1, <2>2, <3>1, DraftKept
  <2> QED BY <2>1, <2>3, <2>4
<1> QED BY <1>1, <1>2, <1>3, <1>4 DEF Step

LEMMA DraftNext == LocalInv /\ DraftInv /\ [Next]_vars => DraftInv'
<1> SUFFICES ASSUME LocalInv, DraftInv, [Next]_vars, NEW u \in User, u \notin overtaken'
             PROVE  Draft(u)'
  BY DEF DraftInv, Draft, StepUnderWay
<1>1. u \notin overtaken => Draft(u)
  BY DEF DraftInv, Draft
<1>2. ASSUME NEW h \in Handler, Event(h) PROVE Draft(u)'
  <2>1. overtaken' = overtaken
    BY <1>2 DEF Event, GetText, Submit, StartInquiry, Cancel, GetReply, GetUpdate, ReplyInquiry
  <2> QED BY <1>1, <1>2, <2>1, DraftEvent
<1>3. ASSUME NEW h \in Handler, Step(h) PROVE Draft(u)'
  BY <1>1, <1>3, DraftStep
<1>4. ASSUME NEW v \in User, NextScreenshot(v) PROVE Draft(u)'
  <2>1. form \in [Actor -> Form] /\ u \in Actor /\ v \in Actor
    BY DEF LocalInv, TypeOK, Form, Actor
  <2>2. form'[u].id = form[u].id /\ form'[u].state = form[u].state /\ job' = job
        /\ overtaken' = overtaken
    BY <1>4, <2>1 DEF NextScreenshot, Form
  <2> QED BY <1>1, <2>2 DEF Draft, StepUnderWay
<1>5. CASE Restart
  <2>1. form'[u].state = "none" /\ ~ StepUnderWay(u)'
    BY <1>5 DEF Restart, StepUnderWay, NoForm, NoJob, Actor
  <2> QED BY <2>1 DEF Draft, StepUnderWay, Filling
<1>6. CASE UNCHANGED vars
  BY <1>1, <1>6 DEF vars, Draft, StepUnderWay
<1> QED BY <1>2, <1>3, <1>4, <1>5, <1>6 DEF Next

-----------------------------------------------------------------------------
(* The theorems.                                                           *)

LEMMA InitIInv == Init => IInv
<1> SUFFICES ASSUME Init PROVE IInv
  OBVIOUS
<1>1. DraftInv
  BY DEF Init, DraftInv, StepUnderWay, NoForm, NoJob, Actor, Filling
<1>2. OneOpen /\ TellsTruth
  BY DEF Init, OneOpen, TellsTruth, NoRow, NoJob, Open
<1> QED BY <1>1, <1>2, LocalInit DEF IInv

\* The invariant of all behaviours, from which the theorems follow.
LEMMA Invariance == Spec => []IInv
<1>1. IInv /\ [Next]_vars => IInv'
  BY LocalNext, DraftNext, OneOpenNext, TellsNext DEF IInv
<1> QED BY <1>1, InitIInv, PTL DEF Spec

\* Every variable keeps its type.
THEOREM Typing == Spec => []TypeOK
<1>1. IInv => TypeOK
  BY DEF IInv, LocalInv
<1> QED BY <1>1, Invariance, PTL

\* A user never has two open inquiries, however many submissions are under way at once
\* and whatever their checks have returned: the unique constraint sees to it.
THEOREM NeverTwoOpen == Spec => []OneOpenInquiry
<1>1. IInv => OneOpenInquiry
  <2> SUFFICES ASSUME OneOpen, NEW u \in User
               PROVE  Cardinality({x \in Id : rows[x].user = u /\ rows[x].status \in Open}) <= 1
    BY DEF IInv, OneOpenInquiry
  <2> DEFINE mine == {x \in Id : rows[x].user = u /\ rows[x].status \in Open}
  <2>1. \A x, y \in mine : x = y
    BY DEF OneOpen
  <2> HIDE DEF mine
  <2>2. ASSUME mine = {} PROVE Cardinality(mine) <= 1
    BY <2>2, FS_EmptySet
  <2>3. ASSUME mine # {} PROVE Cardinality(mine) <= 1
    <3>1. PICK x : mine = {x}
      BY <2>1, <2>3
    <3>2. Cardinality({x}) = 1
      BY FS_Singleton
    <3> QED BY <3>1, <3>2
  <2>4. Cardinality(mine) <= 1
    BY <2>2, <2>3
  <2> QED BY <2>4 DEF mine
<1> QED BY <1>1, Invariance, PTL

\* Whoever tells the other side of a closing is the one whose closing the row has: of
\* any number of users and admins who close an inquiry at once only one tells.
THEOREM ClosingToldTruly == Spec => []TellsTruth
<1>1. IInv => TellsTruth
  BY DEF IInv
<1> QED BY <1>1, Invariance, PTL

\* A form that is being filled has the id that its buttons need, unless a step of it was
\* overtaken: whatever the handlers of a chat do at the same time, that is the only way.
THEOREM DraftsKept == Spec => []FormHasDraft
<1>1. IInv => FormHasDraft
  BY DEF IInv, DraftInv, FormHasDraft
<1> QED BY <1>1, Invariance, PTL
=============================================================================
