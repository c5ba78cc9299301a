---------------------------- MODULE ConfigPages ----------------------------
(***************************************************************************)
(* Two browser pages that edit one configuration: static/curves.html,      *)
(* which collects edits until Save, and static/fanconfig.html, which posts *)
(* every edit at once.  Each sends the whole document it has; the service  *)
(* checks it (validate_config) and stores it in one step (ConfigStore).    *)
(* While a request is under way the user goes on working, and requests and *)
(* answers overtake each other or get lost.                                *)
(***************************************************************************)
CONSTANTS
  CurveNames, Fans,
  Points,          \* point lists a user may draw
  GoodPoints,      \* those validate_config accepts
  NewPoints,       \* the points of a curve that createCurve makes
  CurveRequests, FanRequests,  \* bound: requests of a page under way at one time
  None

ASSUME PointsAssumption ==
  GoodPoints \subseteq Points /\ NewPoints \in GoodPoints /\ None \notin Points \cup CurveNames

(* curves[n] is None when there is no curve n, curve_name[f] when f has no entry. *)
Doc == [ curves     : [CurveNames -> Points \cup {None}],
         curve_name : [Fans -> CurveNames \cup {None}] ]

RequestIds == CurveRequests \cup FanRequests

VARIABLES
  server,     \* the configuration of the service
  working,    \* curves.html: workingConfig
  saved,      \* curves.html: savedConfig
  isDirty,    \* curves.html: isDirty
  config,     \* fanconfig.html: config
  modal,      \* fanconfig.html: the curves its open dialog offers, {} if closed
  requests,   \* requests under way
  unresolved  \* history: fans whose curve was missing when curves.html was loaded

curvesPage == <<working, saved, isDirty>>
fansPage == <<config, modal>>
vars == <<server, curvesPage, fansPage, requests, unresolved>>

(* What the fan page has sent when it saves an entry, and when it removes one. *)
FanEdits == {"entry", "removal"}

Request ==
  { q \in [ page   : {"curves", "closed"} \cup FanEdits,
            doc    : Doc \cup {None},
            answer : {"none", "ok", "error", "reload"} ] :
      q.answer # "error" => q.doc \in Doc }

TypeOK ==
  /\ server \in Doc /\ working \in Doc /\ saved \in Doc /\ config \in Doc
  /\ isDirty \in BOOLEAN
  /\ modal \in SUBSET CurveNames
  /\ requests \in [RequestIds -> Request \cup {None}]
  /\ unresolved \in SUBSET Fans

(* The fans whose entry names a curve that the document does not have. *)
Dangling(d) ==
  { f \in Fans : d.curve_name[f] # None /\ d.curves[d.curve_name[f]] = None }

Accepted(d) ==
  /\ Dangling(d) = {}
  /\ \A n \in CurveNames : d.curves[n] \in GoodPoints \cup {None}

(* The service may have started from a file that was edited by hand, which *)
(* load_config does not check; both pages have just been opened.           *)
Init ==
  /\ server \in Doc
  /\ working = server /\ saved = server /\ isDirty = FALSE
  /\ config = server /\ modal = {}
  /\ requests = [id \in RequestIds |-> None]
  /\ unresolved = Dangling(server)

(* api('POST', '/config', d): the body is a copy of the page's document. *)
Send(page, d) ==
  \E id \in IF page = "curves" THEN CurveRequests ELSE FanRequests :
    /\ requests[id] = None
    /\ requests' = [requests EXCEPT ![id] =
                       [page |-> page, doc |-> d, answer |-> "none"]]

(* Reloading a page forgets its requests; the service still gets them, but *)
(* nobody waits for the answers.                                           *)
Closed(pages) ==
  [id \in RequestIds |->
     LET q == requests[id] IN
       IF q = None \/ q.page \notin pages THEN q
       ELSE IF q.answer = "none" THEN [q EXCEPT !.page = "closed"]
       ELSE None]

----------------------------------------------------------------------------
(* curves.html *)

LoadCurves ==
  /\ working' = server /\ saved' = server /\ isDirty' = FALSE
  /\ unresolved' = Dangling(server)
  /\ requests' = Closed({"curves"})
  /\ UNCHANGED <<server, fansPage>>

Edited(d) ==
  /\ working' = d /\ isDirty' = TRUE
  /\ UNCHANGED <<server, saved, fansPage, requests, unresolved>>

EditPoints ==
  \E n \in CurveNames, p \in Points :
    /\ working.curves[n] # None
    /\ Edited([working EXCEPT !.curves[n] = p])

CreateCurve ==
  \E n \in CurveNames :
    /\ working.curves[n] = None
    /\ Edited([working EXCEPT !.curves[n] = NewPoints])

\* Mutation: they do not.
RenameOnly(old, new) ==
  [working EXCEPT !.curves = [@ EXCEPT ![new] = working.curves[old], ![old] = None]]

(* The fans of the old name follow. *)
Renamed(old, new) ==
  [ curves     |-> [working.curves EXCEPT ![new] = working.curves[old], ![old] = None],
    curve_name |-> [f \in Fans |-> IF working.curve_name[f] = old THEN new
                                   ELSE working.curve_name[f]] ]

RenameCurve ==
  \E old, new \in CurveNames :
    /\ working.curves[old] # None /\ working.curves[new] = None
    /\ Edited(Renamed(old, new))

\* Mutation: the fans that use it lose their entries.
CascadingDelete ==
  \E n \in CurveNames :
    /\ working.curves[n] # None
    /\ Edited([ curves     |-> [working.curves EXCEPT ![n] = None],
                curve_name |-> [f \in Fans |-> IF working.curve_name[f] = n THEN None
                                               ELSE working.curve_name[f]] ])

(* openDeleteModal offers the button only for a curve that no fan uses. *)
DeleteCurve ==
  \E n \in CurveNames :
    /\ working.curves[n] # None
    /\ \A f \in Fans : working.curve_name[f] # n
    /\ Edited([working EXCEPT !.curves[n] = None])

DiscardChanges ==
  /\ isDirty
  /\ working' = saved /\ isDirty' = FALSE
  /\ UNCHANGED <<server, saved, fansPage, requests, unresolved>>

SaveCurves ==
  /\ isDirty
  /\ Send("curves", working)
  /\ UNCHANGED <<server, curvesPage, fansPage, unresolved>>

(* saveConfig() after its await: what is in the page now counts as saved. *)
CurvesAnswered(id) ==
  /\ requests[id] # None /\ requests[id].page = "curves"
  /\ requests[id].answer # "none"
  /\ IF requests[id].answer = "ok"
     THEN saved' = working /\ isDirty' = FALSE
     ELSE UNCHANGED <<saved, isDirty>>
  /\ requests' = [requests EXCEPT ![id] = None]
  /\ UNCHANGED <<server, working, fansPage, unresolved>>

----------------------------------------------------------------------------
(* fanconfig.html *)

LoadFans ==
  /\ config' = server /\ modal' = {}
  /\ requests' = Closed(FanEdits)
  /\ UNCHANGED <<server, curvesPage, unresolved>>

(* populateModalSelects: the select is filled here, and not again while    *)
(* the dialog stays open.  Without a curve there is nothing to choose.     *)
OpenModal ==
  /\ modal' = { n \in CurveNames : config.curves[n] # None }
  /\ UNCHANGED <<server, curvesPage, config, requests, unresolved>>

CloseModal ==
  /\ modal' = {}
  /\ UNCHANGED <<server, curvesPage, config, requests, unresolved>>

(* saveEntry: the entry of g takes the place of f's, or is a new one.  The *)
(* dialog knows that place by its index only, which after a reload may be  *)
(* another fan's; and it offers what it was filled with, also curves that  *)
(* the document under it has lost.                                         *)
SaveEntry ==
  /\ \E f, g \in Fans, n \in modal :
       /\ f = g \/ config.curve_name[g] = None
       /\ config' = [config EXCEPT !.curve_name = [@ EXCEPT ![f] = None, ![g] = n]]
  /\ Send("entry", config')
  /\ UNCHANGED <<server, curvesPage, modal, unresolved>>

DeleteEntry ==
  /\ \E f \in Fans :
       /\ config.curve_name[f] # None
       /\ config' = [config EXCEPT !.curve_name[f] = None]
  /\ Send("removal", config')
  /\ UNCHANGED <<server, curvesPage, modal, unresolved>>

(* A saved entry closes the dialog, whatever it shows by then.  After an   *)
(* error it stays open, and the page asks for the configuration; doc is    *)
(* the answer to that GET, which the service gives at once.                *)
FansAnswered(id) ==
  /\ requests[id] # None /\ requests[id].page \in FanEdits
  /\ \/ /\ requests[id].answer = "ok"
        /\ requests' = [requests EXCEPT ![id] = None]
        /\ modal' = IF requests[id].page = "entry" THEN {} ELSE modal
     \/ /\ requests[id].answer = "error"
        /\ requests' = [requests EXCEPT ![id].doc = server, ![id].answer = "reload"]
        /\ UNCHANGED modal
  /\ UNCHANGED <<server, curvesPage, config, unresolved>>

(* The answer arrives, over whatever was edited meanwhile, or is lost. *)
FansReloaded(id) ==
  /\ requests[id] # None /\ requests[id].page \in FanEdits
  /\ requests[id].answer = "reload"
  /\ config' \in {config, requests[id].doc}
  /\ requests' = [requests EXCEPT ![id] = None]
  /\ UNCHANGED <<server, curvesPage, modal, unresolved>>

----------------------------------------------------------------------------
(* The service and the network. *)

(* The answer to request q; an error leaves nothing of the document. *)
Answered(q, answer) ==
  IF q.page = "closed" THEN None
  ELSE IF answer = "error" THEN [q EXCEPT !.answer = answer, !.doc = None]
  ELSE [q EXCEPT !.answer = answer]

(* POST /api/config *)
Handle(id) ==
  /\ requests[id] # None /\ requests[id].answer = "none"
  /\ \E answer \in {"ok", "error"} :
       /\ answer = "ok" <=> Accepted(requests[id].doc)
       /\ server' = IF answer = "ok" THEN requests[id].doc ELSE server
       /\ requests' = [requests EXCEPT ![id] = Answered(requests[id], answer)]
  /\ UNCHANGED <<curvesPage, fansPage, unresolved>>

(* The request, or the answer to it, is lost. *)
Lose(id) ==
  /\ requests[id] # None /\ requests[id].answer \in {"none", "ok"}
  /\ requests' = [requests EXCEPT ![id] = Answered(requests[id], "error")]
  /\ UNCHANGED <<server, curvesPage, fansPage, unresolved>>

Next ==
  \/ LoadCurves \/ EditPoints \/ CreateCurve \/ RenameCurve \/ DeleteCurve
  \/ DiscardChanges \/ SaveCurves
  \/ LoadFans \/ OpenModal \/ CloseModal \/ SaveEntry \/ DeleteEntry
  \/ \E id \in RequestIds :
       CurvesAnswered(id) \/ FansAnswered(id) \/ FansReloaded(id) \/ Handle(id) \/ Lose(id)

Spec == Init /\ [][Next]_vars
----------------------------------------------------------------------------
(* Properties.                                                             *)

(* The curves page never breaks a reference: a fan whose curve is missing  *)
(* from what the page shows, keeps for Discard, or has under way, was so   *)
(* when the page was loaded.  Over renames, deletions, failed and overlap- *)
(* ping saves, no save of it is refused on account of the page's own edits *)
(* (renameCurve, openDeleteModal; validate_config).                        *)
CurvesPageBreaksNothing ==
  /\ Dangling(working) \subseteq unresolved /\ Dangling(saved) \subseteq unresolved
  /\ \A id \in RequestIds :
       requests[id] # None /\ requests[id].page = "curves" /\ requests[id].answer # "error"
         => Dangling(requests[id].doc) \subseteq unresolved

(* The document of request id, which the curves page has sent, is stored.  *)
CurvesStored(id) ==
  /\ requests[id] # None /\ requests[id].page = "curves"
  /\ requests[id].answer = "none"
  /\ requests'[id] # None /\ requests'[id].answer = "ok"

(* As long as the curves page knows the assignments of the service, no     *)
(* save of it, however delayed or repeated, takes a fan its curve          *)
(* (renameCurve, openDeleteModal).                                         *)
CurvesKeepAssignments ==
  [][\A id \in RequestIds :
       CurvesStored(id) /\ saved.curve_name = server.curve_name =>
         \A f \in Fans :
           server.curve_name[f] # None => server'.curve_name[f] # None]_vars

(* Documented (the badge "unsaved changes" of curves.html, shown while     *)
(* isDirty): the answer to a save takes the badge away only when the page  *)
(* still shows the document that was stored.  An edit made while the save  *)
(* is under way loses its badge, and with it the Save button.              *)
UnsavedChangesAreShown ==
  [][\A id \in RequestIds :
       /\ requests[id] # None /\ requests[id].page = "curves"
       /\ requests'[id] = None
       /\ isDirty /\ ~isDirty'
       => working = requests[id].doc]_vars
----------------------------------------------------------------------------
(* The inductive invariant behind the first two properties.                *)

Assigned(d) == { f \in Fans : d.curve_name[f] # None }

(* The curves page and what it has sent have an entry for the same fans.   *)
SameAssignments ==
  /\ Assigned(working) = Assigned(saved)
  /\ \A id \in RequestIds :
       requests[id] # None /\ requests[id].page = "curves" /\ requests[id].answer # "error"
         => Assigned(requests[id].doc) = Assigned(saved)

IInv ==
  /\ TypeOK
  /\ CurvesPageBreaksNothing
  /\ SameAssignments
=============================================================================
