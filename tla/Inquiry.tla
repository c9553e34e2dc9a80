------------------------------- MODULE Inquiry -------------------------------
(***************************************************************************)
(* Inquiries to the bot's admins (src/NFTorrent/bot/handlers/inquiry.py,   *)
(* the inquiries of bot/backend.py, table user_inquiry of dbmodels.py).    *)
(*                                                                         *)
(* A user fills a form step by step and submits it; the inquiry becomes a  *)
(* row, and the user and the admins reply, close or block it by dialogues  *)
(* of a button and a message.  Every event has a handler of its own, and   *)
(* the handlers of one chat run concurrently: what a handler has read of   *)
(* the form may be gone when its call to Telegram or the database returns. *)
(***************************************************************************)
EXTENDS Naturals, FiniteSets

CONSTANTS
    User, Admin,   \* each with a form of their own
    Id,            \* bound: random inquiry ids
    Handler,       \* bound: events being handled at a time
    Action,        \* bound: kinds of dialogue, of "reply", "close", "block"
    None

ASSUME InquiryAssumption ==
    /\ User \cap Admin = {}
    /\ Action \subseteq {"reply", "close", "block"}
    /\ None \notin User \cup Admin \cup Id

Actor == User \cup Admin

VARIABLES
    form,          \* form[p]: FSMContext: state, data, and whether there is a
                   \* Submit button for the id in the data
    rows,          \* user_inquiry
    readable,      \* readable[x]: the statuses x has had; inquiry_get may return any of
                   \* them, as it is cached and a block ends by itself
    job,           \* job[h]: a handler's place and local variables
    overtaken      \* history: whose form was cleared while a step of it was under way

vars == <<form, rows, readable, job, overtaken>>

Filling == {"subject", "message", "nft_address", "screenshot"}
Open == {"open", "blocked"}
Status == Open \cup {"absent", "closed"}

Places == {"idle", "started", "texted", "cancelling", "listing", "creating", "finishing",
           "checking", "updating", "telling"}

NoForm == [state |-> "none", id |-> None, text |-> {}, action |-> None, submit |-> FALSE]
NoJob == [pc |-> "idle", actor |-> None, id |-> None, action |-> None, next |-> None]
NoRow == [status |-> "absent", user |-> None, by |-> None]

TypeOK ==
    /\ form \in [Actor -> [state : Filling \cup {"none", "dialogue"}, id : Id \cup {None},
                           text : SUBSET {"subject", "message"}, action : Action \cup {None},
                           submit : BOOLEAN]]
    /\ rows \in [Id -> [status : Status, user : User \cup {None}, by : Actor \cup {None}]]
    /\ readable \in [Id -> SUBSET (Status \ {"absent"})]
    /\ job \in [Handler -> [pc : Places, actor : Actor \cup {None}, id : Id \cup {None},
                            action : Action \cup {None}, next : Filling \cup {None}]]
    /\ overtaken \subseteq User

Init ==
    /\ form = [p \in Actor |-> NoForm]
    /\ rows = [x \in Id |-> NoRow]
    /\ readable = [x \in Id |-> {}]
    /\ job = [h \in Handler |-> NoJob]
    /\ overtaken = {}

-----------------------------------------------------------------------------
\* Helpers.

Goto(h, pc) == job' = [job EXCEPT ![h].pc = pc]
End(h) == job' = [job EXCEPT ![h] = NoJob]
Begin(h, record) == job[h] = NoJob /\ job' = [job EXCEPT ![h] = record]

\* Slip: the data go, the state stays.
ClearData(p) == [NoForm EXCEPT !.state = form[p].state]

\* state.clear()
Cleared(p) == NoForm

\* A step of p's form waits for Telegram and is going to set a state.
StepUnderWay(p) == \E h \in Handler : job[h].actor = p /\ job[h].pc \in {"started", "texted"}
Overtakes(p) == overtaken' = IF StepUnderWay(p) THEN overtaken \cup {p} ELSE overtaken \ {p}

Clear(p) == form' = [form EXCEPT ![p] = Cleared(p)] /\ Overtakes(p)

\* The row changes; the cache may return the old one still.
SetRow(x, row) ==
    /\ rows' = [rows EXCEPT ![x] = row]
    /\ readable' = [readable EXCEPT ![x] = @ \cup {row.status}]

-----------------------------------------------------------------------------
\* The form: start_inquiry, get_subject, get_message, get_address, next_address,
\* next_screenshot, cancel_inquiry.

\* random_inquiry_id: an id without a row that nobody refers to is as good as new.
Fresh(x) ==
    /\ rows[x].status = "absent"
    /\ \A p \in Actor : form[p].id # x
    /\ \A h \in Handler : job[h].id # x

\* /inquiry without a form: a new id, while other data stay; the answer is sent.
StartInquiry(h, u, x) ==
    /\ form[u].state \notin Filling
    /\ Fresh(x)
    /\ form' = [form EXCEPT ![u].id = x, ![u].submit = FALSE]
    /\ Begin(h, [NoJob EXCEPT !.pc = "started", !.actor = u])
    /\ UNCHANGED <<rows, readable, overtaken>>

Started(h) ==
    /\ job[h].pc = "started"
    /\ form' = [form EXCEPT ![job[h].actor].state = "subject"]
    /\ End(h)
    /\ UNCHANGED <<rows, readable, overtaken>>

Following(s) ==
    CASE s = "subject" -> "message" [] s = "message" -> "nft_address" [] OTHER -> "screenshot"

\* A text, an address or the Next button takes the form a step further.  Without
\* an id in the data the keyboard fails with KeyError.
GetText(h, u) ==
    LET f == form[u] IN
        /\ f.state \in {"subject", "message", "nft_address"}
        /\ form' = [form EXCEPT ![u].text = @ \cup ({f.state} \cap {"subject", "message"})]
        /\ IF f.id = None
           THEN /\ f.state \notin f.text
                /\ UNCHANGED job
           ELSE Begin(h, [NoJob EXCEPT !.pc = "texted", !.actor = u, !.next = Following(f.state)])
        /\ UNCHANGED <<rows, readable, overtaken>>

\* The answer is sent and the next state is set.
Texted(h) ==
    /\ job[h].pc = "texted"
    /\ form' = [form EXCEPT ![job[h].actor].state = job[h].next]
    /\ End(h)
    /\ UNCHANGED <<rows, readable, overtaken>>

\* The Next button of the last step sends a Submit button.
NextScreenshot(u) ==
    /\ form[u].state = "screenshot"
    /\ "subject" \in form[u].text /\ form[u].id # None /\ ~form[u].submit
    /\ form' = [form EXCEPT ![u].submit = TRUE]
    /\ UNCHANGED <<rows, readable, job, overtaken>>

\* A Cancel button of the form or of a reply that fits the data; the answer is sent.
Cancel(h, p) ==
    /\ form[p].id # None
    /\ Begin(h, [NoJob EXCEPT !.pc = "cancelling", !.actor = p])
    /\ UNCHANGED <<form, rows, readable, overtaken>>

Cancelled(h) ==
    /\ job[h].pc = "cancelling"
    /\ Clear(job[h].actor)
    /\ End(h)
    /\ UNCHANGED <<rows, readable>>

-----------------------------------------------------------------------------
\* submit_inquiry

\* The Submit button fits the data, which have a subject and a message.
Submit(h, u) ==
    /\ form[u].submit
    /\ form[u].text = {"subject", "message"}
    /\ Begin(h, [NoJob EXCEPT !.pc = "listing", !.actor = u, !.id = form[u].id])
    /\ UNCHANGED <<form, rows, readable, overtaken>>

HasOpen(u) == \E x \in Id : rows[x].user = u /\ rows[x].status \in Open

\* inquiry_list returns; with an open inquiry nothing is created.
Listed(h) ==
    /\ job[h].pc = "listing"
    /\ IF HasOpen(job[h].actor) THEN End(h) ELSE Goto(h, "creating")
    /\ UNCHANGED <<form, rows, readable, overtaken>>

\* Slip: only inquiry_id is unique.
UniqueId(u, x) == rows[x].status = "absent"

\* The unique constraints of user_inquiry: inquiry_id; user_id and state.
Unique(u, x) == rows[x].status = "absent" /\ ~HasOpen(u)

\* inquiry_create commits or fails.
Created(h) ==
    LET x == job[h].id
        u == job[h].actor
    IN
        /\ job[h].pc = "creating"
        /\ IF Unique(u, x)
           THEN SetRow(x, [status |-> "open", user |-> u, by |-> None]) /\ Goto(h, "finishing")
           ELSE End(h) /\ UNCHANGED <<rows, readable>>
        /\ UNCHANGED <<form, overtaken>>

\* The admins have been told, the Submit button has been replaced, and the form
\* is cleared, whatever it holds by now.
Finish(h) ==
    /\ job[h].pc = "finishing"
    /\ Clear(job[h].actor)
    /\ End(h)
    /\ UNCHANGED <<rows, readable>>

-----------------------------------------------------------------------------
\* Dialogues: user_reply_inquiry, user_get_reply, admin_reply_inquiry,
\* admin_get_reply.

\* A button of an inquiry's message: an own one of the user, any one of an admin.
ReplyInquiry(h, p, x, action) ==
    /\ rows[x].status # "absent" /\ (p \in User => rows[x].user = p)
    /\ action = "block" => p \in Admin
    /\ Begin(h, [NoJob EXCEPT !.pc = "checking", !.actor = p, !.id = x, !.action = action])
    /\ UNCHANGED <<form, rows, readable, overtaken>>

\* callback_validate_inquiry
Valid(p, status) == status = "open" \/ (p \in Admin /\ status = "blocked")

\* inquiry_get returns; a valid inquiry replaces the form by a dialogue.
Checked(h) ==
    LET p == job[h].actor IN
        /\ job[h].pc = "checking"
        /\ \E status \in readable[job[h].id] :
               IF Valid(p, status)
               THEN /\ form' = [form EXCEPT ![p] = [NoForm EXCEPT !.state = "dialogue",
                                                    !.id = job[h].id, !.action = job[h].action]]
                    /\ Overtakes(p)
               ELSE UNCHANGED <<form, overtaken>>
        /\ End(h)
        /\ UNCHANGED <<rows, readable>>

\* The message of a reply: inquiry_get finds the inquiry, whatever its status is.
GetReply(h, p) ==
    /\ form[p].state = "dialogue" /\ form[p].action = "reply"
    /\ rows[form[p].id].status # "absent"
    /\ Begin(h, [NoJob EXCEPT !.pc = "telling", !.actor = p, !.action = "reply"])
    /\ UNCHANGED <<form, rows, readable, overtaken>>

\* The message of another dialogue: inquiry_close or inquiry_block is called.
GetUpdate(h, p) ==
    /\ form[p].state = "dialogue" /\ form[p].action # "reply"
    /\ Begin(h, [NoJob EXCEPT !.pc = "updating", !.actor = p, !.id = form[p].id,
                              !.action = form[p].action])
    /\ UNCHANGED <<form, rows, readable, overtaken>>

\* Slip: a closed inquiry is closed or blocked again.
AnyRow(p, x) == rows[x].status # "absent" /\ (p \in User => rows[x].user = p)

\* The row is found, it is the user's own, and it is not closed.
Updatable(p, x) == rows[x].status \in Open /\ (p \in User => rows[x].user = p)

\* inquiry_close or inquiry_block commits under the row's lock, or raises; the
\* dialogue stays then.
Update(h) ==
    LET p == job[h].actor
        x == job[h].id
    IN
        /\ job[h].pc = "updating"
        /\ IF Updatable(p, x)
           THEN /\ SetRow(x, IF job[h].action = "close"
                             THEN [rows[x] EXCEPT !.status = "closed", !.by = p]
                             ELSE [rows[x] EXCEPT !.status = "blocked"])
                /\ Goto(h, "telling")
           ELSE End(h) /\ UNCHANGED <<rows, readable>>
        /\ UNCHANGED <<form, overtaken>>

\* The other side has been told, or could not be; the form is cleared.
Tell(h) ==
    /\ job[h].pc = "telling"
    /\ Clear(job[h].actor)
    /\ End(h)
    /\ UNCHANGED <<rows, readable>>

-----------------------------------------------------------------------------
\* Failures and the surroundings.

\* A call to Telegram or the database raises.
Abort(h) ==
    /\ job[h] # NoJob
    /\ End(h)
    /\ UNCHANGED <<form, rows, readable, overtaken>>

\* The process starts again; MemoryStorage is empty.
Restart ==
    /\ form' = [p \in Actor |-> NoForm]
    /\ job' = [h \in Handler |-> NoJob]
    /\ overtaken' = {}
    /\ form' # form \/ job' # job
    /\ UNCHANGED <<rows, readable>>

Event(h) ==
    \/ \E u \in User : GetText(h, u) \/ Submit(h, u) \/ \E x \in Id : StartInquiry(h, u, x)
    \/ \E p \in Actor : Cancel(h, p) \/ GetReply(h, p) \/ GetUpdate(h, p)
    \/ \E p \in Actor, x \in Id, action \in Action : ReplyInquiry(h, p, x, action)

Step(h) ==
    \/ Started(h) \/ Texted(h) \/ Cancelled(h)
    \/ Listed(h) \/ Created(h) \/ Finish(h)
    \/ Checked(h) \/ Update(h) \/ Tell(h)
    \/ Abort(h)

Next ==
    \/ \E h \in Handler : Event(h) \/ Step(h)
    \/ \E u \in User : NextScreenshot(u)
    \/ Restart

Spec == Init /\ [][Next]_vars

-----------------------------------------------------------------------------
\* A user has at most one open inquiry, although the check by inquiry_list and
\* inquiry_create are two calls and several submissions may be under way.
OneOpenInquiry ==
    \A u \in User : Cardinality({x \in Id : rows[x].user = u /\ rows[x].status \in Open}) <= 1

\* Who tells the other side that an inquiry has been closed is the one whose
\* closing the row records: of a user and admins who close at the same time one
\* succeeds, and nothing that comes later is told as another closing.
TellsTruth ==
    \A h \in Handler :
        job[h].pc = "telling" /\ job[h].action = "close" =>
            rows[job[h].id].status = "closed" /\ rows[job[h].id].by = job[h].actor

\* A form that is being filled has the id its Cancel and Submit buttons need,
\* unless it was cleared while one of its steps waited for Telegram: then
\* /inquiry refuses to start over and no Cancel button fits.
FormHasDraft ==
    \A u \in User \ overtaken : form[u].state \in Filling => form[u].id # None
=============================================================================
