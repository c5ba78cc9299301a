------------------------- MODULE ConfigPagesProofs -------------------------
(***************************************************************************)
(* The two pages over one service, for any curve names, fans, points and   *)
(* number of requests under way.  The invariant IInv adds to the property  *)
(* of the curves page that all it has or has sent gives an entry to the    *)
(* same fans.                                                              *)
(***************************************************************************)
EXTENDS ConfigPages, TLAPS

USE PointsAssumption

----------------------------------------------------------------------------
(* What the edits make of a document.                                      *)

(* A rename takes the fans along. *)
LEMMA RenameKeeps ==
  ASSUME working \in Doc,
         NEW old \in CurveNames, NEW new \in CurveNames,
         working.curves[old] # None, working.curves[new] = None
  PROVE  /\ Renamed(old, new) \in Doc
         /\ Dangling(Renamed(old, new)) \subseteq Dangling(working)
         /\ Assigned(Renamed(old, new)) = Assigned(working)
<1> DEFINE d == Renamed(old, new)
<1>1. old # new
  OBVIOUS
<1>2. d \in Doc
  BY DEF Renamed, Doc
<1>3. ASSUME NEW f \in Fans
      PROVE  /\ d.curve_name[f] = IF working.curve_name[f] = old THEN new
                                  ELSE working.curve_name[f]
             /\ f \in Dangling(d) => f \in Dangling(working)
  BY <1>1, <1>3 DEF Renamed, Dangling, Doc
<1>4. Assigned(d) = Assigned(working)
  BY <1>3 DEF Assigned
<1>5. Dangling(d) \subseteq Fans
  BY DEF Dangling
<1>6. QED
  BY <1>2, <1>3, <1>4, <1>5

(* A new curve, or other points for one, leave every fan its curve. *)
LEMMA DrawingKeeps ==
  ASSUME working \in Doc, NEW n \in CurveNames, NEW p \in Points
  PROVE  LET d == [working EXCEPT !.curves[n] = p]
         IN  /\ d \in Doc /\ Dangling(d) \subseteq Dangling(working)
             /\ Assigned(d) = Assigned(working)
BY DEF Doc, Dangling, Assigned

(* A deletion takes no fan its curve. *)
LEMMA DeletionKeeps ==
  ASSUME working \in Doc,
         NEW n \in CurveNames, \A f \in Fans : working.curve_name[f] # n
  PROVE  LET d == [working EXCEPT !.curves[n] = None]
         IN  /\ d \in Doc /\ Dangling(d) \subseteq Dangling(working)
             /\ Assigned(d) = Assigned(working)
BY DEF Doc, Dangling, Assigned

----------------------------------------------------------------------------
(* The invariant holds of the requests, and keeps holding.                 *)

GoodRequest(q) ==
  \/ q = None
  \/ /\ q \in Request
     /\ q.page = "curves" /\ q.answer # "error" =>
          Dangling(q.doc) \subseteq unresolved /\ Assigned(q.doc) = Assigned(saved)

(* IInv, with what it says of each request in one place. *)
LEMMA IInvByRequest ==
  IInv <=> /\ server \in Doc /\ working \in Doc /\ saved \in Doc /\ config \in Doc
           /\ isDirty \in BOOLEAN
           /\ modal \in SUBSET CurveNames
           /\ unresolved \in SUBSET Fans
           /\ Dangling(working) \subseteq unresolved /\ Dangling(saved) \subseteq unresolved
           /\ Assigned(working) = Assigned(saved)
           /\ requests \in [RequestIds -> Request \cup {None}]
           /\ \A id \in RequestIds : GoodRequest(requests[id])
<1> HIDE DEF Request
<1>1. QED
  BY DEF IInv, TypeOK, CurvesPageBreaksNothing, SameAssignments, GoodRequest

LEMMA InitInv == Init => IInv
<1> SUFFICES ASSUME Init PROVE IInv
  OBVIOUS
<1>1. \A id \in RequestIds : GoodRequest(requests[id])
  BY DEF Init, GoodRequest
<1>2. unresolved \in SUBSET Fans
  BY DEF Init, Dangling
<1>3. QED
  BY <1>1, <1>2, IInvByRequest DEF Init

(* A step that edits the curves page and nothing else. *)
LEMMA EditStep ==
  ASSUME IInv, NEW d \in Doc, Dangling(d) \subseteq Dangling(working),
         Assigned(d) = Assigned(working), Edited(d)
  PROVE  IInv'
<1>1. \A id \in RequestIds : GoodRequest(requests[id])'
  BY IInvByRequest DEF Edited, GoodRequest, Assigned
<1>2. Dangling(working)' = Dangling(d) /\ Assigned(working)' = Assigned(d)
      /\ Dangling(saved)' = Dangling(saved) /\ Assigned(saved)' = Assigned(saved)
  BY DEF Edited, Dangling, Assigned
<1>3. QED
  BY <1>1, <1>2, IInvByRequest
     DEF Edited, fansPage, IInv, TypeOK, CurvesPageBreaksNothing, SameAssignments, GoodRequest

(* A step that gives one request another value, and what that value must be. *)
LEMMA RequestStep ==
  ASSUME IInv, NEW id \in RequestIds, NEW q \in Request \cup {None},
         requests' = [requests EXCEPT ![id] = q],
         working' = working, saved' \in {saved, working}, isDirty' \in BOOLEAN,
         server' \in Doc, config' \in Doc, modal' \in SUBSET CurveNames,
         unresolved' = unresolved,
         q # None /\ q.page = "curves" /\ q.answer # "error" =>
           Dangling(q.doc) \subseteq unresolved /\ Assigned(q.doc) = Assigned(saved)
  PROVE  IInv'
<1>1. /\ Assigned(working)' = Assigned(working)
      /\ Assigned(working) = Assigned(saved)' /\ Assigned(saved)' = Assigned(saved)
  BY DEF IInv, SameAssignments, Assigned
<1>2. Dangling(working)' \subseteq unresolved /\ Dangling(saved)' \subseteq unresolved
  BY DEF IInv, CurvesPageBreaksNothing, Dangling
<1>3. \A i \in RequestIds : GoodRequest(requests[i])'
  BY <1>1, IInvByRequest DEF GoodRequest
<1>4. requests' \in [RequestIds -> Request \cup {None}]
  BY IInvByRequest
<1>5. working' \in Doc /\ saved' \in Doc /\ unresolved' \in SUBSET Fans
  BY IInvByRequest
<1>6. QED
  BY <1>1, <1>2, <1>3, <1>4, <1>5
     DEF IInv, TypeOK, CurvesPageBreaksNothing, SameAssignments, GoodRequest

LEMMA StepInv == IInv /\ [Next]_vars => IInv'
<1> SUFFICES ASSUME IInv, [Next]_vars PROVE IInv'
  OBVIOUS
<1> USE DEF curvesPage, fansPage
<1>0. /\ server \in Doc /\ working \in Doc /\ saved \in Doc /\ config \in Doc
      /\ isDirty \in BOOLEAN
      /\ modal \in SUBSET CurveNames /\ unresolved \in SUBSET Fans
      /\ Dangling(working) \subseteq unresolved /\ Dangling(saved) \subseteq unresolved
      /\ Assigned(working) = Assigned(saved)
      /\ requests \in [RequestIds -> Request \cup {None}]
      /\ \A id \in RequestIds : GoodRequest(requests[id])
  BY IInvByRequest
<1>1. ASSUME NEW pages, requests' = Closed(pages), NEW id \in RequestIds
      PROVE  /\ requests'[id] \in Request \cup {None}
             /\ requests'[id] # None /\ requests'[id].page = "curves" =>
                  requests'[id] = requests[id] /\ "curves" \notin pages
  <2>1. requests[id] \in Request \cup {None}
    BY <1>0
  <2>2. CASE requests'[id] \in {requests[id], None}
    BY <1>1, <2>1, <2>2 DEF Closed
  <2>3. CASE requests[id] # None /\ requests'[id] = [requests[id] EXCEPT !.page = "closed"]
    BY <2>1, <2>3 DEF Request
  <2>4. QED
    BY <1>1, <2>2, <2>3 DEF Closed
<1>2. CASE LoadCurves
  <2>1. requests' = Closed({"curves"})
    BY <1>2 DEF LoadCurves
  <2>2. \A id \in RequestIds :
          GoodRequest(requests[id])' /\ requests'[id] \in Request \cup {None}
    BY <1>1, <2>1 DEF GoodRequest
  <2>3. requests' \in [RequestIds -> Request \cup {None}]
    BY <2>1, <2>2 DEF Closed
  <2>4. /\ Dangling(working)' = unresolved' /\ Dangling(saved)' = unresolved'
        /\ Assigned(working)' = Assigned(saved)' /\ unresolved' \in SUBSET Fans
    BY <1>2 DEF LoadCurves, Dangling, Assigned
  <2>5. QED
    BY <1>0, <1>2, <2>2, <2>3, <2>4
       DEF LoadCurves, IInv, TypeOK, CurvesPageBreaksNothing, SameAssignments, GoodRequest
<1>3. CASE EditPoints
  BY <1>0, <1>3, DrawingKeeps, EditStep DEF EditPoints
<1>4. CASE CreateCurve
  BY <1>0, <1>4, DrawingKeeps, EditStep DEF CreateCurve
<1>5. CASE RenameCurve
  BY <1>0, <1>5, RenameKeeps, EditStep DEF RenameCurve
<1>6. CASE DeleteCurve
  BY <1>0, <1>6, DeletionKeeps, EditStep DEF DeleteCurve
<1>7. CASE DiscardChanges
  BY <1>0, <1>7
     DEF DiscardChanges, IInv, TypeOK, CurvesPageBreaksNothing, SameAssignments,
         Dangling, Assigned
<1>8. CASE SaveCurves
  <2>1. PICK id \in RequestIds :
          requests' = [requests EXCEPT ![id] = [page |-> "curves", doc |-> working, answer |-> "none"]]
    BY <1>8 DEF SaveCurves, Send, RequestIds
  <2>2. [page |-> "curves", doc |-> working, answer |-> "none"] \in Request
    BY <1>0 DEF Request
  <2>3. QED
    BY <1>0, <1>8, <2>1, <2>2, RequestStep DEF SaveCurves
<1>9. CASE LoadFans
  <2>1. requests' = Closed(FanEdits) /\ UNCHANGED <<working, saved, unresolved>>
    BY <1>9 DEF LoadFans
  <2>2. \A id \in RequestIds :
          GoodRequest(requests[id])' /\ requests'[id] \in Request \cup {None}
    BY <1>0, <1>1, <2>1 DEF GoodRequest, Assigned
  <2>3. requests' \in [RequestIds -> Request \cup {None}]
    BY <2>1, <2>2 DEF Closed
  <2>4. /\ Dangling(working)' = Dangling(working) /\ Dangling(saved)' = Dangling(saved)
        /\ Assigned(working)' = Assigned(working) /\ Assigned(saved)' = Assigned(saved)
    BY <2>1 DEF Dangling, Assigned
  <2>5. QED
    BY <1>0, <1>9, <2>1, <2>2, <2>3, <2>4
       DEF LoadFans, IInv, TypeOK, CurvesPageBreaksNothing, SameAssignments, GoodRequest
<1>10. CASE OpenModal \/ CloseModal
  BY <1>0, <1>10
     DEF OpenModal, CloseModal, IInv, TypeOK, CurvesPageBreaksNothing, SameAssignments,
         Dangling, Assigned
<1>11. ASSUME SaveEntry \/ DeleteEntry PROVE IInv'
  <2>1. config' \in Doc
    BY <1>0, <1>11 DEF SaveEntry, DeleteEntry, Doc
  <2>2. PICK id \in RequestIds, page \in FanEdits :
          requests' = [requests EXCEPT ![id] = [page |-> page, doc |-> config', answer |-> "none"]]
    BY <1>11 DEF SaveEntry, DeleteEntry, Send, RequestIds, FanEdits
  <2>3. /\ [page |-> page, doc |-> config', answer |-> "none"] \in Request
        /\ page # "curves"
    BY <2>1 DEF Request, FanEdits
  <2>4. QED
    BY <1>0, <1>11, <2>1, <2>2, <2>3, RequestStep DEF SaveEntry, DeleteEntry
<1>12. ASSUME NEW id \in RequestIds, CurvesAnswered(id) \/ FansAnswered(id) \/ FansReloaded(id)
                                      \/ Handle(id) \/ Lose(id)
       PROVE  IInv'
  <2> DEFINE q == requests[id]
  <2>0. /\ q \in Request
        /\ q.page = "curves" /\ q.answer # "error" =>
             Dangling(q.doc) \subseteq unresolved /\ Assigned(q.doc) = Assigned(saved)
    BY <1>0, <1>12
       DEF GoodRequest, CurvesAnswered, FansAnswered, FansReloaded, Handle, Lose
  <2>1. CASE CurvesAnswered(id)
    BY <1>0, <2>1, RequestStep DEF CurvesAnswered
  <2>2. CASE FansAnswered(id)
    <3> DEFINE new == [q EXCEPT !.doc = server, !.answer = "reload"]
    <3>1. new \in Request /\ new.page = q.page /\ q.page # "curves"
      BY <1>0, <2>0, <2>2 DEF Request, FansAnswered, FanEdits
    <3>2. PICK r \in {None, new} : requests' = [requests EXCEPT ![id] = r]
      BY <2>2 DEF FansAnswered
    <3>3. modal' \in SUBSET CurveNames
      BY <1>0, <2>2 DEF FansAnswered
    <3> HIDE DEF new
    <3>4. r \in Request \cup {None} /\ (r # None => r.page # "curves")
      BY <3>1, <3>2
    <3>5. QED
      BY <1>0, <2>2, <3>2, <3>3, <3>4, RequestStep DEF FansAnswered
  <2>3. CASE FansReloaded(id)
    <3>1. config' \in Doc
      BY <1>0, <2>0, <2>3 DEF FansReloaded, Request
    <3>2. QED
      BY <1>0, <2>3, <3>1, RequestStep DEF FansReloaded
  <2>4. ASSUME NEW a \in {"ok", "error"}, q.answer # "error"
        PROVE  /\ Answered(q, a) \in Request \cup {None}
               /\ Answered(q, a) # None /\ Answered(q, a).page = "curves" /\ Answered(q, a).answer # "error" =>
                    /\ Dangling(Answered(q, a).doc) \subseteq unresolved
                    /\ Assigned(Answered(q, a).doc) = Assigned(saved)
    <3>1. CASE Answered(q, a) = None
      BY <3>1
    <3>2. CASE a = "error" /\ Answered(q, a) = [q EXCEPT !.answer = a, !.doc = None]
      BY <2>0, <3>2 DEF Request
    <3>3. CASE a = "ok" /\ Answered(q, a) = [q EXCEPT !.answer = a]
      BY <2>0, <2>4, <3>3 DEF Request
    <3>4. QED
      BY <2>4, <3>1, <3>2, <3>3 DEF Answered
  <2>5. CASE Handle(id)
    <3>1. PICK a \in {"ok", "error"} :
            /\ server' = IF a = "ok" THEN q.doc ELSE server
            /\ requests' = [requests EXCEPT ![id] = Answered(q, a)]
      BY <2>5 DEF Handle
    <3>2. q.answer = "none" /\ q.doc \in Doc
      BY <2>0, <2>5 DEF Handle, Request
    <3>3. server' \in Doc
      BY <1>0, <3>1, <3>2
    <3>4. QED
      BY <1>0, <2>4, <2>5, <3>1, <3>2, <3>3, RequestStep DEF Handle
  <2>6. CASE Lose(id)
    <3>1. q.answer # "error" /\ requests' = [requests EXCEPT ![id] = Answered(q, "error")]
      BY <2>6 DEF Lose
    <3>2. QED
      BY <1>0, <2>4, <2>6, <3>1, RequestStep DEF Lose
  <2>7. QED
    BY <1>12, <2>1, <2>2, <2>3, <2>5, <2>6
<1>13. CASE UNCHANGED vars
  BY <1>13
     DEF vars, IInv, TypeOK, CurvesPageBreaksNothing, SameAssignments, Dangling, Assigned
<1>14. QED
  BY <1>2, <1>3, <1>4, <1>5, <1>6, <1>7, <1>8, <1>9, <1>10, <1>11, <1>12, <1>13 DEF Next

(* The invariant that ties the curves page to what it has loaded and sent. *)
THEOREM PagesInvariant == Spec => []IInv
BY InitInv, StepInv, PTL DEF Spec

(* Documents, pages and requests stay well typed (curves.html, fanconfig.html). *)
THEOREM TypeCorrect == Spec => []TypeOK
<1>1. IInv => TypeOK
  BY DEF IInv
<1>2. QED
  BY <1>1, PagesInvariant, PTL

(* No edit, save, answer or discard of the curves page breaks a reference  *)
(* that resolved when the page was loaded (renameCurve, openDeleteModal).  *)
THEOREM ReferencesTheorem == Spec => []CurvesPageBreaksNothing
<1>1. IInv => CurvesPageBreaksNothing
  BY DEF IInv
<1>2. QED
  BY <1>1, PagesInvariant, PTL

(* A save of the curves page takes no fan its curve, unless the service    *)
(* has other assignments by then than the page knows.                      *)
THEOREM AssignmentTheorem == Spec => CurvesKeepAssignments
<1> DEFINE Kept == \A id \in RequestIds :
                     CurvesStored(id) /\ saved.curve_name = server.curve_name =>
                       \A f \in Fans :
                         server.curve_name[f] # None => server'.curve_name[f] # None
<1>1. IInv /\ [Next]_vars => [Kept]_vars
  <2> SUFFICES ASSUME IInv, Next, NEW id \in RequestIds, CurvesStored(id),
                      saved.curve_name = server.curve_name, NEW f \in Fans,
                      server.curve_name[f] # None
               PROVE  server'.curve_name[f] # None
    BY DEF vars, curvesPage
  <2>1. server' = requests[id].doc
    <3>1. PICK i \in RequestIds : Handle(i)
      <4>1. ASSUME NEW pages, requests' = Closed(pages) PROVE FALSE
        BY <4>1 DEF Closed, CurvesStored
      <4>2. ASSUME NEW page, NEW d, Send(page, d) PROVE FALSE
        BY <4>2 DEF Send, CurvesStored, IInv, TypeOK, RequestIds
      <4>3. ASSUME UNCHANGED requests PROVE FALSE
        BY <4>3 DEF CurvesStored
      <4>4. ASSUME NEW i \in RequestIds, NEW q, q = None \/ q.answer \in {"error", "reload"},
                   requests' = [requests EXCEPT ![i] = q]
            PROVE  FALSE
        BY <4>4 DEF CurvesStored, IInv, TypeOK
      <4>5. ASSUME NEW i \in RequestIds, CurvesAnswered(i) \/ FansReloaded(i) PROVE FALSE
        BY <4>4, <4>5 DEF CurvesAnswered, FansReloaded
      <4>6. ASSUME NEW i \in RequestIds, FansAnswered(i) \/ Lose(i) PROVE FALSE
        <5>1. requests[i] \in Request
          BY <4>6 DEF IInv, TypeOK, FansAnswered, Lose
        <5>2. [requests[i] EXCEPT !.doc = server, !.answer = "reload"].answer = "reload"
              /\ [requests[i] EXCEPT !.answer = "error", !.doc = None].answer = "error"
          BY <5>1 DEF Request
        <5>3. PICK q : /\ q = None \/ q.answer \in {"error", "reload"}
                       /\ requests' = [requests EXCEPT ![i] = q]
          BY <4>6, <5>2 DEF FansAnswered, Lose, Answered
        <5>4. QED
          BY <4>4, <5>3
      <4>7. QED
        BY <4>1, <4>2, <4>3, <4>5, <4>6
           DEF Next, LoadCurves, EditPoints, CreateCurve, RenameCurve, DeleteCurve, Edited,
               DiscardChanges, SaveCurves, LoadFans, OpenModal, CloseModal, SaveEntry, DeleteEntry
    <3>2. requests \in [RequestIds -> Request \cup {None}] /\ requests[id] \in Request
      BY DEF CurvesStored, IInv, TypeOK
    <3>3. i = id
      BY <3>1, <3>2 DEF Handle, CurvesStored
    <3>4. PICK a \in {"ok", "error"} :
            /\ server' = IF a = "ok" THEN requests[id].doc ELSE server
            /\ requests'[id] = Answered(requests[id], a)
      BY <3>1, <3>2, <3>3 DEF Handle
    <3>5. a = "ok"
      BY <3>2, <3>4 DEF Answered, CurvesStored, Request
    <3>6. QED
      BY <3>4, <3>5
  <2>2. Assigned(requests[id].doc) = Assigned(saved)
    BY DEF IInv, SameAssignments, CurvesStored
  <2>3. QED
    BY <2>1, <2>2 DEF Assigned
<1>2. QED
  BY <1>1, PagesInvariant, PTL DEF Spec, CurvesKeepAssignments
=============================================================================
