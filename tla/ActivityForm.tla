---------------------------- MODULE ActivityForm ----------------------------
(***************************************************************************)
(* Sales activities and the requests for them (app/activity,               *)
(* sales-activity-backend.ts, sales-activity-request-backend.ts).          *)
(*                                                                         *)
(* A request asks a colleague for an activity; the activity registered for *)
(* it is linked to it once. The new page registers an activity, for the    *)
(* request its address names or one picked there. The edit page shows the  *)
(* row of the list until the activity itself is read, and saves every      *)
(* field, touched or not. The server answers a purpose by its description  *)
(* and the attendees by name; the pages turn both back.                    *)
(***************************************************************************)
EXTENDS Integers, Sequences, FiniteSets

CONSTANTS
    Firms,          \* customers
    Deals,          \* opportunities
    FirmOf,         \* FirmOf[o]: the customer of an opportunity
    Colleagues,     \* users, in the order they are listed
    CalledAs,       \* CalledAs[u]: the name of a user
    OpenRequests,   \* requests there are to begin with: the customer of each
    Purposes,       \* purposes the instance uses, codes of the server
    MaxActivities,  \* bound: activities ever registered from the page
    MaxRequests,    \* bound: requests ever registered
    MaxTouched,     \* bound: fields typed in while a page is open
    MaxActRuns      \* bound: pages opened, others' registrations, reads that fail

ActivityIds == 1..MaxActivities
RequestIds == 1..MaxRequests
Attendable == {Colleagues[k] : k \in 1..Len(Colleagues)}

\* "none" is no customer; whoever uses the pages is a colleague.
ASSUME ActivityAssumption ==
    /\ FirmOf \in [Deals -> Firms] /\ CalledAs \in [Attendable -> STRING] /\ "none" \notin Firms
    /\ Colleagues \in Seq(Attendable) /\ Colleagues # << >>
    /\ OpenRequests \in Seq(Firms) /\ Len(OpenRequests) <= MaxRequests
    /\ Purposes \subseteq {"CONSULTING", "DEMO", "ETC"}
    /\ {MaxActivities, MaxRequests, MaxTouched, MaxActRuns} \subseteq Nat /\ MaxActivities > 0

VARIABLES
    activity,  \* activity[i]: the rows of the server
    request,   \* request[r]: the rows of the server
    actPage,   \* the page that is open
    actRuns    \* how many times, and what happened that a property excepts

activityVars == <<activity, request, actPage, actRuns>>

-----------------------------------------------------------------------------
(* Purposes. The options of the pages are not quite the descriptions the   *)
(* server answers.                                                         *)

\* ACTIVITY_PURPOSE_LABELS, the options.
Option == [CONSULTING |-> "counsel", DEMO |-> "demo", ETC |-> "other"]

\* ActivityPurpose.getDescription.
Description == [CONSULTING |-> "consulting", DEMO |-> "demo", ETC |-> "other"]

\* mapActivityPurposeToEnum: a text that is no option is ETC.
Code(text) == IF \E p \in DOMAIN Option : Option[p] = text
              THEN CHOOSE p \in DOMAIN Option : Option[p] = text ELSE "ETC"

\* mapActivityPurpose of what the server answered: the description itself.
PurposeShown(p) == Description[p]

-----------------------------------------------------------------------------
(* Users by name.                                                          *)

\* findUserByToken: the first user with that id, or of that name.
UsersOf(token) == {k \in 1..Len(Colleagues) : token \in {Colleagues[k], CalledAs[Colleagues[k]]}}
FirstUser(token) == Colleagues[CHOOSE k \in UsersOf(token) : \A j \in UsersOf(token) : k <= j]

NamesOf(people) == {CalledAs[u] : u \in people}

\* Mutant: only users' ids are sent.
AttendeesSent_Ids(tokens, usersHere) == tokens \intersect Attendable

\* resolveAttendeeUserIds: without the users nobody is found.
AttendeesSent(tokens, usersHere) ==
    IF usersHere THEN {FirstUser(t) : t \in {s \in tokens : UsersOf(s) # {}}} ELSE {}

SharedName(people) == \E u \in people, v \in Attendable : u # v /\ CalledAs[u] = CalledAs[v]

-----------------------------------------------------------------------------
(* The server.                                                             *)

NoActivity == [is |-> "none", deal |-> "none", purpose |-> "ETC", people |-> {}, notes |-> "", asked |-> 0]
NoRequestYet == [firm |-> "none", purpose |-> "ETC", to |-> "none", link |-> 0]

\* The activity of somebody else.
Theirs == MaxActivities + 1

FreeActivity == CHOOSE i \in ActivityIds : activity[i].is = "none" /\ \A j \in 1..(i - 1) : activity[j].is # "none"
RoomForActivity == \E i \in ActivityIds : activity[i].is = "none"

Here(r) == r \in RequestIds /\ request[r].firm # "none"

ActRun == actRuns.count < MaxActRuns /\ actRuns' = [actRuns EXCEPT !.count = @ + 1]

\* Another user registers an activity for a request nobody has taken up.
RegisteredElsewhere(r) ==
    /\ Here(r) /\ request[r].link = 0 /\ ActRun
    /\ request' = [request EXCEPT ![r].link = Theirs]
    /\ UNCHANGED <<activity, actPage>>

\* A request is registered: the colleague chosen is sent by name, the first of that name
\* gets it. Nothing is sent when the users cannot be read.
RegisterRequest(firm, u, p) ==
    /\ ActRun /\ \E r \in RequestIds :
         /\ ~Here(r) /\ \A q \in 1..(r - 1) : Here(q)
         /\ request' = [request EXCEPT ![r] =
              [firm |-> firm, purpose |-> Code(Option[p]), to |-> FirstUser(CalledAs[u]), link |-> 0]]
    /\ UNCHANGED <<activity, actPage>>

\* The detail page deletes an activity; its request stays linked to it.
DeleteActivity(i) ==
    /\ activity[i].is = "live" /\ ActRun
    /\ activity' = [activity EXCEPT ![i].is = "deleted"]
    /\ UNCHANGED <<request, actPage>>

-----------------------------------------------------------------------------
(* The new page.                                                           *)

NoLinked == [id |-> 0, link |-> 0]
NoDeals == {}

ClosedPage ==
    [on |-> "closed", id |-> 0, from |-> 0, picked |-> 0, linked |-> NoLinked, requests |-> "asked",
     firms |-> FALSE, firm |-> "none", deals |-> NoDeals, loading |-> FALSE, deal |-> "none",
     purpose |-> "", people |-> {}, notes |-> "", told |-> FALSE,
     shown |-> "nothing", touched |-> {}, calls |-> 0]

OnNew == actPage.on = "new"
Change(page) == actPage' = page /\ UNCHANGED <<activity, request, actRuns>>

\* The page, from the list or from the page of a request (r) not yet taken up.
OpenNew(r) ==
    /\ actPage.on = "closed" /\ RoomForActivity /\ ActRun
    /\ r # 0 => Here(r) /\ request[r].link = 0
    /\ actPage' = [ClosedPage EXCEPT !.on = "new", !.from = r, !.picked = r]
    /\ UNCHANGED <<activity, request>>

\* selectedActivityCustomer: known once the customers have been read.
FirmKnown(page) == page.firms /\ page.firm # "none"

\* The opportunities of the customer are asked for anew.
AskDeals(page) == [page EXCEPT !.deals = NoDeals, !.loading = FirmKnown(page)]

\* The effect that follows the request an address names: it overwrites what was typed.
FilledFromRequest(page) ==
    LET r == page.linked.id IN
    IF page.from = 0 \/ r = 0 THEN page
    ELSE AskDeals([page EXCEPT !.firm = request[r].firm, !.deal = "none",
                               !.purpose = PurposeShown(request[r].purpose)])

\* sync: the request picked, as it is now.
LinkedNow(page) ==
    [page EXCEPT !.linked = IF page.picked = 0 THEN NoLinked
                            ELSE [id |-> page.picked, link |-> request[page.picked].link]]

\* The requests arrive, or do not: then no request is linked.
RequestsArrive(ok) ==
    /\ OnNew /\ actPage.requests = "asked"
    /\ IF ok THEN /\ actPage' = FilledFromRequest([LinkedNow(actPage) EXCEPT !.requests = "here"])
                  /\ UNCHANGED actRuns
       ELSE ActRun /\ actPage' = [actPage EXCEPT !.requests = "failed", !.linked = NoLinked]
    /\ UNCHANGED <<activity, request>>

\* Another request is picked; the requests are read again before it is the linked one.
PickRequest(r) ==
    /\ OnNew /\ actPage.from = 0 /\ actPage.picked # r /\ actPage.requests = "here" /\ Here(r)
    /\ ActRun /\ actPage' = [actPage EXCEPT !.picked = r, !.requests = "asked"]
    /\ UNCHANGED <<activity, request>>

FirmsArrive ==
    /\ OnNew /\ ~actPage.firms
    /\ Change(AskDeals([actPage EXCEPT !.firms = TRUE]))

ChooseFirm(firm) ==
    /\ OnNew /\ actPage.firm # firm
    /\ Change(AskDeals([actPage EXCEPT !.firm = firm, !.deal = "none"]))

DealsOf(firm) == {o \in Deals : FirmOf[o] = firm}

\* The opportunities of the customer chosen last arrive: an earlier answer is cancelled.
DealsArrive(ok) ==
    /\ OnNew /\ actPage.loading
    /\ IF ok THEN UNCHANGED actRuns ELSE ActRun
    /\ actPage' = [actPage EXCEPT !.loading = FALSE, !.deals = IF ok THEN DealsOf(actPage.firm) ELSE NoDeals]
    /\ UNCHANGED <<activity, request>>

\* Mutant: all opportunities are suggested.
Suggested_All(page) == Deals

\* The suggestions, of the customer whether its opportunities have been read or not.
Suggested(page) == IF page.firm = "none" THEN {} ELSE DealsOf(page.firm)

ChooseDeal(o) ==
    /\ OnNew /\ o \in Suggested(actPage) /\ actPage.deal # o
    /\ Change([actPage EXCEPT !.deal = o])

\* resolveProjectOpportunityId, for a customer not known here: the one chosen, or the only
\* one of the customer.
DealSent(page) ==
    IF page.deal # "none" THEN page.deal
    ELSE IF Cardinality(DealsOf(page.firm)) = 1 THEN CHOOSE o \in DealsOf(page.firm) : TRUE
    ELSE "none"

DealFilled(page) == page.firm # "none" /\ page.purpose # "" /\ page.told

\* The request sent: the one linked, or the one of the address before it is read.
RequestSent(page) == IF page.linked.id # 0 THEN page.linked.id ELSE page.from

\* The request already has an activity: the page goes there.
GoToActivity ==
    /\ OnNew /\ DealFilled(actPage) /\ actPage.linked.link # 0
    /\ Change(ClosedPage)

\* Mutant: the activity the request has is not looked at.
DealReady_Linked(page) ==
    /\ FirmKnown(page) => ~page.loading /\ page.deal \in page.deals
    /\ DealSent(page) # "none"

\* Mutant: an opportunity is not asked for.
DealReady_NoDeal(page) ==
    /\ page.linked.link = 0
    /\ FirmKnown(page) => ~page.loading

\* What handleSubmit asks for before it sends anything.
DealReady(page) ==
    /\ page.linked.link = 0
    /\ FirmKnown(page) => ~page.loading /\ page.deal \in page.deals
    /\ DealSent(page) # "none"

\* handleSubmit: the activity is stored and its request linked to it. The page can still be
\* used until the answer comes.
SubmitNew(usersHere) ==
    LET i == FreeActivity  r == RequestSent(actPage) IN
    /\ OnNew /\ DealFilled(actPage) /\ RoomForActivity /\ DealReady(actPage)
    /\ usersHere \/ actRuns.count < MaxActRuns
    /\ activity' = [activity EXCEPT ![i] =
         [is |-> "live", deal |-> DealSent(actPage), purpose |-> Code(actPage.purpose),
          people |-> AttendeesSent(actPage.people, usersHere), notes |-> actPage.notes, asked |-> r]]
    /\ request' = IF r = 0 THEN request ELSE [request EXCEPT ![r].link = i]
    /\ actPage' = [actPage EXCEPT !.calls = @ + 1]
    /\ actRuns' = [count |-> actRuns.count + (IF usersHere THEN 0 ELSE 1),
                   overtaken |-> actRuns.overtaken \/ (r # 0 /\ request[r].link # 0 /\ actPage.linked.link = 0)]

\* The answer: the page is left, unless the customer cannot be read, which is told as a
\* failed registration.
SavedNew(ok) ==
    /\ OnNew /\ actPage.calls > 0
    /\ IF ok THEN actPage' = ClosedPage /\ UNCHANGED actRuns
       ELSE ActRun /\ actPage' = [actPage EXCEPT !.calls = @ - 1]
    /\ UNCHANGED <<activity, request>>

-----------------------------------------------------------------------------
(* The edit page.                                                          *)

OnEdit == actPage.on = "edit"

OpenEdit(i) ==
    /\ actPage.on = "closed" /\ activity[i].is = "live" /\ ActRun
    /\ actPage' = [ClosedPage EXCEPT !.on = "edit", !.id = i]
    /\ UNCHANGED <<activity, request>>

\* The form is filled from what has been read: the row of the list has no attendees and no
\* texts.
FormOf(page, from) ==
    LET a == activity[page.id] IN
    [page EXCEPT !.shown = from, !.touched = {}, !.deal = a.deal, !.firm = FirmOf[a.deal],
                 !.purpose = PurposeShown(a.purpose),
                 !.people = IF from = "detail" THEN NamesOf(a.people) ELSE {},
                 !.notes = IF from = "detail" THEN a.notes ELSE "",
                 !.told = from = "detail"]

\* The list comes first.
ListArrives ==
    /\ OnEdit /\ actPage.shown = "nothing" /\ activity[actPage.id].is = "live"
    /\ Change(FormOf(actPage, "list"))

\* The activity itself: what was typed meanwhile is lost.
DetailArrives ==
    /\ OnEdit /\ actPage.shown \in {"nothing", "list"} /\ activity[actPage.id].is = "live"
    /\ Change(FormOf(actPage, "detail"))

\* updateBackendActivityRecord: every field is sent, and the opportunity as it was read,
\* whatever is chosen. The attendees are replaced by those found.
Update(a, page, usersHere) ==
    [a EXCEPT !.purpose = Code(page.purpose), !.people = AttendeesSent(page.people, usersHere),
              !.notes = page.notes]

SaveEdit(usersHere) ==
    /\ OnEdit /\ actPage.shown # "nothing" /\ actPage.touched # {} /\ DealFilled(actPage)
    /\ activity[actPage.id].is = "live"
    /\ IF usersHere THEN UNCHANGED actRuns ELSE ActRun
    /\ activity' = [activity EXCEPT ![actPage.id] = Update(@, actPage, usersHere)]
    /\ actPage' = ClosedPage
    /\ UNCHANGED request

-----------------------------------------------------------------------------
(* The fields both pages share.                                            *)

ActEditable == actPage.on \in {"new", "edit"} /\ (OnEdit => actPage.shown # "nothing")
Touch(field, page) ==
    /\ Cardinality(actPage.touched \union {field}) <= MaxTouched
    /\ Change([page EXCEPT !.touched = @ \union {field}])

ChoosePurpose(p) ==
    /\ ActEditable /\ actPage.purpose # Option[p]
    /\ Touch("purpose", [actPage EXCEPT !.purpose = Option[p]])

AddAttendee(u) ==
    /\ ActEditable /\ actPage.people \intersect {u, CalledAs[u]} = {}
    /\ Touch("people", [actPage EXCEPT !.people = @ \union {u}])

TypeNotes ==
    /\ ActEditable /\ actPage.notes = ""
    /\ Touch("notes", [actPage EXCEPT !.notes = "note"])

TypeContent ==
    /\ ActEditable /\ ~actPage.told
    /\ Touch("content", [actPage EXCEPT !.told = TRUE])

Leave == actPage.on # "closed" /\ Change(ClosedPage)

-----------------------------------------------------------------------------

\* An activity and requests there are already; the activity may be that of the first one.
ActivityInit ==
    \E p \in Purposes, o \in Deals, asked \in {0} \union 1..Len(OpenRequests) :
      /\ activity = [i \in ActivityIds |-> IF i > 1 THEN NoActivity ELSE
            [is |-> "live", deal |-> o, purpose |-> p, people |-> {FirstUser(Colleagues[1])},
             notes |-> "note", asked |-> asked]]
      /\ request = [r \in RequestIds |->
            IF r > Len(OpenRequests) THEN NoRequestYet
            ELSE [NoRequestYet EXCEPT !.firm = OpenRequests[r], !.purpose = p, !.link = IF r = asked THEN 1 ELSE 0]]
      /\ asked # 0 => OpenRequests[asked] = FirmOf[o]
      /\ actPage = ClosedPage
      /\ actRuns = [count |-> 0, overtaken |-> FALSE]

ActivityNext ==
    \/ FirmsArrive \/ GoToActivity \/ ListArrives \/ DetailArrives
    \/ TypeNotes \/ TypeContent \/ Leave
    \/ OpenNew(0)
    \/ \E r \in RequestIds : RegisteredElsewhere(r) \/ OpenNew(r) \/ PickRequest(r)
    \/ \E i \in ActivityIds : DeleteActivity(i) \/ OpenEdit(i)
    \/ \E ok \in BOOLEAN :
         RequestsArrive(ok) \/ DealsArrive(ok) \/ SubmitNew(ok) \/ SavedNew(ok) \/ SaveEdit(ok)
    \/ \E firm \in Firms : ChooseFirm(firm)
    \/ \E o \in Deals : ChooseDeal(o)
    \/ \E p \in Purposes : ChoosePurpose(p)
    \/ \E u \in Attendable : AddAttendee(u)
    \/ \E firm \in Firms, u \in Attendable, p \in Purposes : RegisterRequest(firm, u, p)

-----------------------------------------------------------------------------
(* Properties.                                                             *)

\* Every variable keeps its type, and a stored activity has an opportunity.
ActivityTypeOK ==
    /\ \A i \in ActivityIds : activity[i].is # "none" =>
         activity[i].deal \in Deals /\ activity[i].people \subseteq Attendable
    /\ \A r \in RequestIds : request[r].link \in 0..Theirs /\ (request[r].link # 0 => Here(r))
    /\ actPage.calls \in 0..MaxActivities

\* A request is taken up once: the activity registered for it stays the one it leads to,
\* unless its page did not yet know of another one.
RequestKeepsActivity ==
    ~actRuns.overtaken =>
      \A i \in ActivityIds : activity[i].asked # 0 => request[activity[i].asked].link = i

\* An activity is linked to the request the page shows, once the requests have been read,
\* and belongs to the customer shown.
RegisteredAsShown ==
    [][\A i \in ActivityIds : activity[i].is = "none" /\ activity'[i].is = "live" =>
         /\ actPage.requests = "here" => activity'[i].asked = actPage.picked
         /\ FirmOf[activity'[i].deal] = actPage.firm]_activityVars

\* A save of the activity as it was read keeps its opportunity and the texts and, with the
\* users at hand and no two of them sharing a name, the attendees that were not touched.
EditKeepsUntouched ==
    [][\A i \in ActivityIds :
         (OnEdit /\ actPage'.on = "closed" /\ actPage.id = i /\ actPage.shown = "detail" /\ activity'[i] # activity[i]) =>
           /\ "notes" \notin actPage.touched => activity'[i].notes = activity[i].notes
           /\ ("people" \notin actPage.touched /\ actRuns' = actRuns /\ ~SharedName(Attendable)) =>
                activity'[i].people = activity[i].people
           /\ activity'[i].deal = activity[i].deal]_activityVars

=============================================================================
