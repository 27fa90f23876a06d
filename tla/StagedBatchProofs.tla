------------------------- MODULE StagedBatchProofs -------------------------
(* Proofs about StagedBatch, for any number of rows, handlers, requests and *)
(* idempotency keys.                                                        *)
EXTENDS StagedBatch, FiniteSetTheorems, TLAPS

-----------------------------------------------------------------------------
(* What the rows, the handlers and the requests are made of.                *)

Rated(seen) == \A r \in DOMAIN seen : seen[r] \in Statuses
Noted(seen) ==
  /\ DOMAIN seen \subseteq Rows
  /\ \A r \in DOMAIN seen :
       seen[r].revision \in Nat /\ seen[r].status \in Statuses /\ seen[r].inclusion \in Inclusion

Handler(t) ==
  \/ /\ t.stage \in {"previewed", "checked"} /\ DOMAIN t.shown \subseteq Rows
     /\ t = [stage |-> t.stage, sel |-> t.sel, by |-> t.by, shown |-> t.shown]
  \/ t.stage = "confirmed" /\ Rated(t.seen) /\ DOMAIN t.seen = DOMAIN t.shown
  \/ /\ t.stage \in {"planned", "agreed"} /\ Rated(t.seen) /\ DOMAIN t.seen = DOMAIN t.shown
     /\ t = [stage |-> t.stage, sel |-> t.sel, by |-> t.by, shown |-> t.shown, seen |-> t.seen]
  \/ t.stage = "overlaid" /\ Rated(t.seen) /\ DOMAIN t.seen \subseteq Rows
  \/ /\ t.stage = "rechecking" /\ Noted(t.seen)
     /\ t \in [stage : {"rechecking"}, checked : BOOLEAN, seen : {t.seen}]
  \/ /\ t.stage \in {"clearing", "creating"}
     /\ t = [stage |-> t.stage, only |-> t.only, gone |-> t.gone, fresh |-> t.fresh]
  \/ t.stage = "reread" /\ t.rows \subseteq Rows
  \/ t.stage = "written" /\ t.rows \subseteq Rows
  \/ t.stage \in {"matched", "guided", "deleting"}

Handlers == \A w \in Workers : work[w] # None => Handler(work[w])

Publication(t) ==
  \/ t.stage = "posted" /\ t.key \in Keys
  \/ /\ t.stage = "open" /\ t.key \in Keys /\ t.rows \subseteq Rows /\ DOMAIN t.writes = t.rows
     /\ t = [stage |-> "open", key |-> t.key, doomed |-> t.doomed, rows |-> t.rows,
             writes |-> t.writes, status |-> t.status, published |-> t.published]
     /\ [status |-> t.status, published |-> t.published] \in BatchState

Publications == \A q \in Requests : request[q] # None => Publication(request[q])

Shape ==
  /\ row \in [Rows -> RowState]
  /\ decisions = [r \in Rows |-> decisions[r]]
  /\ work = [w \in Workers |-> work[w]] /\ Handlers
  /\ request = [q \in Requests |-> request[q]] /\ Publications
  /\ screen = [k \in Keys |-> screen[k]]
  /\ attempt = [k \in Keys |-> attempt[k]]

\* A publication that may still commit has a batch, and rows nobody published,
\* excluded or marked for a recheck since it was opened.
Open1(t) ==
  t.stage = "open" /\ ~t.doomed =>
    /\ batch # None
    /\ \A r \in t.rows : Pending(r) /\ ~row[r].recheck

OpenStands == \A q \in Requests : request[q] # None => Open1(request[q])

Inv == Shape /\ OpenStands /\ PublishedOnce /\ HistoryKeepsItsBatch
-----------------------------------------------------------------------------
LEMMA StatusTypes ==
  \A r, e, u, c : StatusOf(r, e, u, c) \in Statuses
BY DEF StatusOf, Statuses

LEMMA InitInv == Init => Inv
<1> SUFFICES ASSUME Init PROVE Inv
  OBVIOUS
<1>1. row \in [Rows -> RowState]
  BY DEF Init, RowState, Inclusion, Statuses
<1>2. /\ \A w \in Workers : work[w] = None
      /\ \A q \in Requests : request[q] = None
      /\ \A k \in Keys : attempt[k] = <<>>
  BY DEF Init
<1>3. Shape
  BY <1>1, <1>2 DEF Init, Shape, Handlers, Publications
<1>4. PublishedOnce
  <2>1. \A r \in Rows : row[r].attempt = None
    BY DEF Init
  <2> QED
    BY <1>2, <2>1, BatchAssumption DEF PublishedOnce, Init
<1>5. HistoryKeepsItsBatch
  BY <1>2 DEF Init, HistoryKeepsItsBatch, Used
<1> QED
  BY <1>2, <1>3, <1>4, <1>5 DEF Inv, OpenStands
-----------------------------------------------------------------------------
(* The steps of a handler.                                                  *)

\* A handler that goes on with what it may hold.
LEMMA GoesShape ==
  ASSUME Shape, NEW w \in Workers, NEW t, Handler(t) \/ t = None, Goes(w, t)
  PROVE  work' = [v \in Workers |-> work'[v]] /\ Handlers'
BY DEF Shape, Handlers, Goes

\* The steps that only look.
Looks(w) ==
  \/ Preview(w) \/ Apply(w) \/ OverlayRead(w)
  \/ StartVerify(w) \/ PlanFirmware(w) \/ Agree(w)
  \/ StartRecheck(w) \/ Reread(w) \/ EndRecheck(w)
  \/ GuideRule(w) \/ StartAutomation(w) \/ ClearRules(w) \/ CreateRules(w)
  \/ StartDelete(w) \/ Delete(w) \/ Abort(w)

LEMMA LooksShape ==
  ASSUME Inv, NEW w \in Workers, Looks(w)
  PROVE  work' = [v \in Workers |-> work'[v]] /\ Handlers'
<1> SUFFICES \E t : (Handler(t) \/ t = None) /\ Goes(w, t)
  BY GoesShape DEF Inv
<1>s. Shape /\ (work[w] # None => Handler(work[w]))
  BY DEF Inv, Shape, Handlers
<1>1. CASE Preview(w)
  <2>1. PICK sel \in Selections, c \in Corrections :
          Goes(w, [stage |-> "previewed", sel |-> sel, by |-> c, shown |-> Revisions(Selected(sel))])
    BY <1>1 DEF Preview
  <2>2. Selected(sel) \subseteq Rows
    BY BatchAssumption DEF Selected
  <2> QED
    BY <2>1, <2>2 DEF Handler, Revisions
<1>2. CASE Apply(w)
  <2>1. CASE ~TokenHolds(w)
    BY <1>2, <2>1 DEF Apply, Ends
  <2>2. CASE TokenHolds(w) /\ work[w].by.act # "MATCH"
    <3>1. Goes(w, [work[w] EXCEPT !.stage = "checked"])
      BY <1>2, <2>2 DEF Apply
    <3>2. Handler([work[w] EXCEPT !.stage = "checked"])
      BY <1>2, <1>s DEF Apply, At, Handler
    <3> QED
      BY <3>1, <3>2
  <2>3. CASE TokenHolds(w) /\ work[w].by.act = "MATCH"
    <3> DEFINE t == [stage |-> "confirmed", by |-> work[w].by, shown |-> work[w].shown,
                     seen |-> [r \in DOMAIN work[w].shown |-> Matched(r)]]
    <3>1. Goes(w, t)
      BY <1>2, <2>3 DEF Apply
    <3>2. Handler(t)
      BY StatusTypes DEF Handler, Rated, Matched
    <3> QED
      BY <3>1, <3>2
  <2> QED
    BY <2>1, <2>2, <2>3
<1>3. CASE OverlayRead(w)
  <2> DEFINE t == [stage |-> "overlaid", seen |-> [r \in work[w].rows |-> Overlaid(r)]]
  <2>1. Goes(w, t)
    BY <1>3 DEF OverlayRead
  <2>2. work[w].rows \subseteq Rows
    BY <1>3, <1>s DEF OverlayRead, At, Handler
  <2>3. Handler(t)
    BY <2>2, StatusTypes DEF Handler, Rated, Overlaid
  <2> QED
    BY <2>1, <2>3
<1>4. CASE StartVerify(w) \/ PlanFirmware(w)
  <2>1. PICK sel, act : Plan(w, sel, act)
    BY <1>4 DEF StartVerify, PlanFirmware
  <2> DEFINE t == [stage |-> "planned", sel |-> sel, by |-> [act |-> act, value |-> None],
                   shown |-> Revisions(Plannable(sel, act)),
                   seen |-> [r \in Plannable(sel, act) |-> Matched(r)]]
  <2>2. Goes(w, t)
    BY <2>1 DEF Plan
  <2>3. Handler(t)
    BY StatusTypes DEF Handler, Rated, Matched, Revisions
  <2> QED
    BY <2>2, <2>3
<1>5. CASE Agree(w)
  <2>1. Goes(w, [work[w] EXCEPT !.stage = "agreed"]) \/ Goes(w, None)
    BY <1>5 DEF Agree, Ends
  <2>2. Handler([work[w] EXCEPT !.stage = "agreed"])
    BY <1>5, <1>s DEF Agree, At, Handler
  <2> QED
    BY <2>1, <2>2
<1>6. CASE StartRecheck(w)
  BY <1>6 DEF StartRecheck, Handler
<1>7. CASE Reread(w)
  <2> DEFINE S == {r \in work[w].rows : work[w].pending => row[r].recheck}
             t == [stage |-> "rechecking", checked |-> FALSE,
                   seen |-> [r \in S |-> [revision |-> row[r].revision, status |-> Recomputed(r),
                                          inclusion |-> IF IsExcluded(r) THEN "EXCLUDED" ELSE "INCLUDED"]]]
  <2>1. Goes(w, t)
    BY <1>7 DEF Reread
  <2>2. S \subseteq Rows
    BY <1>7, <1>s DEF Reread, At, Handler
  <2>3. \A r \in S : row[r].revision \in Nat /\ Recomputed(r) \in Statuses
    BY <2>2, <1>s, StatusTypes DEF Shape, RowState, Recomputed
  <2>4. Noted(t.seen)
    BY <2>2, <2>3 DEF Noted, Inclusion
  <2>5. Handler(t)
    BY <2>4 DEF Handler
  <2> QED
    BY <2>1, <2>5
<1>8. CASE GuideRule(w) \/ StartDelete(w)
  BY <1>8 DEF GuideRule, StartDelete, Handler
<1>9. CASE StartAutomation(w)
  BY <1>9 DEF StartAutomation, Handler
<1>10. CASE ClearRules(w)
  <2>1. Goes(w, [work[w] EXCEPT !.stage = "creating"])
    BY <1>10 DEF ClearRules
  <2>2. Handler([work[w] EXCEPT !.stage = "creating"])
    BY <1>10, <1>s DEF ClearRules, At, Handler
  <2> QED
    BY <2>1, <2>2
<1>11. CASE CreateRules(w)
  BY <1>11 DEF CreateRules, Handler
<1>12. CASE EndRecheck(w) \/ Delete(w) \/ Abort(w)
  BY <1>12 DEF EndRecheck, Delete, Abort, Ends
<1> QED
  BY <1>1, <1>2, <1>3, <1>4, <1>5, <1>6, <1>7, <1>8, <1>9, <1>10, <1>11, <1>12 DEF Looks

\* What is written elsewhere dooms open publications, and does nothing else to
\* them.
LEMMA Dooms ==
  ASSUME Shape, NEW S, Wrote(S) \/ WroteBatch \/ UNCHANGED request
  PROVE  /\ request' = [q \in Requests |-> request'[q]] /\ Publications'
         /\ \A q \in Requests :
              \/ /\ request'[q] = request[q]
                 /\ Wrote(S) /\ request[q] # None /\ request[q].stage = "open" => request[q].rows \cap S = {}
                 /\ WroteBatch => request[q] = None \/ request[q].stage # "open"
              \/ /\ request[q] # None /\ request[q].stage = "open"
                 /\ request'[q].stage = "open" /\ request'[q].doomed
                 /\ request'[q].key = request[q].key
                 /\ request'[q].rows = request[q].rows /\ request'[q].writes = request[q].writes
<1>2. ASSUME NEW q \in Requests,
             request[q] # None, request[q].stage = "open",
             request'[q] = [request[q] EXCEPT !.doomed = TRUE]
      PROVE  /\ Publication(request'[q])
             /\ request'[q].stage = "open" /\ request'[q].doomed
             /\ request'[q].key = request[q].key
             /\ request'[q].rows = request[q].rows /\ request'[q].writes = request[q].writes
  <2>1. Publication(request[q])
    BY <1>2 DEF Shape, Publications
  <2> QED
    BY <1>2, <2>1 DEF Publication
<1>3. request' = [q \in Requests |-> request'[q]]
  BY DEF Wrote, WroteBatch, Shape
<1>4. \A q \in Requests :
        \/ /\ request'[q] = request[q]
           /\ Wrote(S) /\ request[q] # None /\ request[q].stage = "open" => request[q].rows \cap S = {}
           /\ WroteBatch => request[q] = None \/ request[q].stage # "open"
        \/ /\ request[q] # None /\ request[q].stage = "open"
           /\ request'[q] = [request[q] EXCEPT !.doomed = TRUE]
  <2>1. CASE UNCHANGED request
    <3>1. \A q \in Requests : Wrote(S) /\ request[q] # None /\ request[q].stage = "open"
                                /\ request[q].rows \cap S # {} => request'[q] = [request[q] EXCEPT !.doomed = TRUE]
      BY DEF Wrote
    <3>2. \A q \in Requests : WroteBatch /\ request[q] # None /\ request[q].stage = "open"
                                => request'[q] = [request[q] EXCEPT !.doomed = TRUE]
      BY DEF WroteBatch
    <3> QED
      BY <2>1, <3>1, <3>2
  <2>2. CASE Wrote(S)
    <3>1. \A q \in Requests : WroteBatch /\ request[q] # None /\ request[q].stage = "open"
                                => request'[q] = [request[q] EXCEPT !.doomed = TRUE]
      BY DEF WroteBatch
    <3> QED
      BY <2>2, <3>1 DEF Wrote
  <2>3. CASE WroteBatch
    <3>1. \A q \in Requests : Wrote(S) /\ request[q] # None /\ request[q].stage = "open"
                                /\ request[q].rows \cap S # {} => request'[q] = [request[q] EXCEPT !.doomed = TRUE]
      BY DEF Wrote
    <3> QED
      BY <2>3, <3>1 DEF WroteBatch
  <2> QED
    BY <2>1, <2>2, <2>3
<1>5. Publications'
  <2> SUFFICES ASSUME NEW q \in Requests, request'[q] # None PROVE Publication(request'[q])
    BY DEF Publications
  <2>1. CASE request'[q] = request[q]
    BY <2>1 DEF Shape, Publications
  <2>2. CASE request'[q] # request[q]
    BY <1>2, <1>4, <2>2
  <2> QED
    BY <2>1, <2>2
<1> QED
  BY <1>2, <1>3, <1>4, <1>5
-----------------------------------------------------------------------------
(* The steps of a handler that write rows.                                  *)

Writes(w) ==
  Write(w) \/ Confirm(w) \/ OverlayWrite(w) \/ WriteVerify(w) \/ (\E r \in Rows : Recheck(w, r))

LEMMA CorrectedRow ==
  ASSUME NEW old \in RowState, NEW act
  PROVE  /\ Corrected(old, act) \in RowState
         /\ Corrected(old, act).attempt = old.attempt
         /\ Corrected(old, act).revision = old.revision + 1
         /\ Corrected(old, act).inclusion = IF act = "EXCLUDE" THEN "EXCLUDED" ELSE old.inclusion
<1> DEFINE mid == IF act = "EXCLUDE"
                  THEN [old EXCEPT !.inclusion = "EXCLUDED", !.status = "EXCLUDED", !.recheck = FALSE]
                  ELSE [old EXCEPT !.status = "RECHECK_REQUIRED", !.recheck = TRUE]
<1>1. /\ mid \in RowState
      /\ mid.attempt = old.attempt /\ mid.revision = old.revision
      /\ mid.inclusion = IF act = "EXCLUDE" THEN "EXCLUDED" ELSE old.inclusion
  <2>1. CASE act = "EXCLUDE"
    BY <2>1 DEF RowState, Inclusion, Statuses
  <2>2. CASE act # "EXCLUDE"
    BY <2>2 DEF RowState, Inclusion, Statuses
  <2> QED
    BY <2>1, <2>2
<1>2. Corrected(old, act) = [mid EXCEPT !.revision = @ + 1]
  BY DEF Corrected
<1> HIDE DEF mid
<1> QED
  BY <1>1, <1>2 DEF RowState

LEMMA RevisedRow ==
  ASSUME NEW old \in RowState, NEW status \in Statuses
  PROVE  /\ Revised(old, status) \in RowState
         /\ Revised(old, status).attempt = old.attempt
         /\ Revised(old, status).revision = old.revision + 1
         /\ Revised(old, status).inclusion = old.inclusion
<1> DEFINE mid == [old EXCEPT !.revision = @ + 1]
<1>1. mid \in RowState
  BY DEF RowState
<1>2. mid.attempt = old.attempt /\ mid.revision = old.revision + 1 /\ mid.inclusion = old.inclusion
  BY DEF RowState
<1>3. Revised(old, status) = [mid EXCEPT !.status = status]
  BY DEF Revised
<1> HIDE DEF mid
<1> QED
  BY <1>1, <1>2, <1>3 DEF RowState

\* Written rows stay rows, of the same publication.
LEMMA WritesRows ==
  ASSUME Inv, NEW w \in Workers, Writes(w)
  PROVE  /\ row' \in [Rows -> RowState]
         /\ \A r \in Rows : row'[r].attempt = row[r].attempt
<1>s. Shape /\ row \in [Rows -> RowState] /\ (work[w] # None => Handler(work[w]))
  BY DEF Inv, Shape, Handlers
<1>1. CASE Write(w)
  <2>1. row' = [r \in Rows |-> IF r \in DOMAIN work[w].shown THEN Corrected(row[r], work[w].by.act) ELSE row[r]]
    BY <1>1 DEF Write
  <2> QED
    BY <2>1, <1>s, CorrectedRow
<1>2. CASE Confirm(w)
  <2>1. row' = [r \in Rows |->
          IF r \in DOMAIN work[w].shown THEN Revised(row[r], work[w].seen[r]) ELSE row[r]]
    BY <1>2 DEF Confirm
  <2>2. \A r \in DOMAIN work[w].shown : work[w].seen[r] \in Statuses
    BY <1>2, <1>s DEF Confirm, At, Handler, Rated
  <2> QED
    BY <2>1, <2>2, <1>s, RevisedRow
<1>3. CASE OverlayWrite(w)
  <2>1. row' = [r \in Rows |->
          IF r \in DOMAIN work[w].seen THEN [row[r] EXCEPT !.status = work[w].seen[r]] ELSE row[r]]
    BY <1>3 DEF OverlayWrite
  <2>2. \A r \in DOMAIN work[w].seen : work[w].seen[r] \in Statuses
    BY <1>3, <1>s DEF OverlayWrite, At, Handler, Rated
  <2> QED
    BY <2>1, <2>2, <1>s DEF RowState
<1>4. CASE WriteVerify(w)
  <2>1. row' = [r \in Rows |->
          IF r \notin DOMAIN work[w].shown THEN row[r]
          ELSE Revised(row[r], IF work[w].by.act = "MATCH" THEN work[w].seen[r] ELSE row[r].status)]
    BY <1>4 DEF WriteVerify
  <2>2. \A r \in Rows : r \in DOMAIN work[w].shown =>
          (IF work[w].by.act = "MATCH" THEN work[w].seen[r] ELSE row[r].status) \in Statuses
    BY <1>4, <1>s DEF WriteVerify, At, Handler, Rated, RowState
  <2> QED
    BY <2>1, <2>2, <1>s, RevisedRow
<1>5. ASSUME NEW r \in Rows, Recheck(w, r)
      PROVE  /\ row' \in [Rows -> RowState]
             /\ \A p \in Rows : row'[p].attempt = row[p].attempt
  <2>1. \/ row' = [row EXCEPT ![r].inclusion = work[w].seen[r].inclusion,
                              ![r].status = work[w].seen[r].status, ![r].recheck = FALSE]
        \/ row' = row
    BY <1>5 DEF Recheck
  <2>2. work[w].seen[r].inclusion \in Inclusion /\ work[w].seen[r].status \in Statuses
    BY <1>5, <1>s DEF Recheck, At, Handler, Noted
  <2> QED
    BY <2>1, <2>2, <1>s DEF RowState
<1> QED
  BY <1>1, <1>2, <1>3, <1>4, <1>5 DEF Writes
-----------------------------------------------------------------------------
(* What a handler's step does to publications.                              *)

\* A step that writes at most the rows of S, and dooms what has read them; or
\* no row, and perhaps removes the batch.
Staging(S) ==
  /\ row' \in [Rows -> RowState]
  /\ \A r \in Rows : row'[r].attempt = row[r].attempt /\ (r \notin S => row'[r] = row[r])
  /\ Wrote(S) \/ (row' = row /\ (WroteBatch \/ UNCHANGED request))
  /\ batch' = batch \/ (batch' = None /\ WroteBatch /\ \A k \in Keys : ~Used(k))
  /\ UNCHANGED <<screen, attempt>>

LEMMA StagingKeeps ==
  ASSUME Inv, NEW S, Staging(S)
  PROVE  /\ row' \in [Rows -> RowState]
         /\ request' = [q \in Requests |-> request'[q]] /\ Publications'
         /\ screen' = [k \in Keys |-> screen'[k]] /\ attempt' = [k \in Keys |-> attempt'[k]]
         /\ OpenStands' /\ PublishedOnce' /\ HistoryKeepsItsBatch'
<1>s. Shape
  BY DEF Inv
<1>w. Wrote(S) \/ WroteBatch \/ UNCHANGED request
  BY DEF Staging
<1>1. OpenStands'
  <2> SUFFICES ASSUME NEW q \in Requests, request'[q] # None, request'[q].stage = "open", ~request'[q].doomed
               PROVE  batch' # None /\ \A r \in request'[q].rows : Pending(r)' /\ ~row'[r].recheck
    BY DEF OpenStands, Open1
  <2>1. /\ request'[q] = request[q]
        /\ Wrote(S) => request[q].rows \cap S = {}
        /\ ~WroteBatch
    BY <1>s, <1>w, Dooms
  <2>2. batch # None /\ \A r \in request[q].rows : Pending(r) /\ ~row[r].recheck
    BY <2>1 DEF Inv, OpenStands, Open1
  <2>3. request[q].rows \subseteq Rows
    BY <2>1, <1>s DEF Shape, Publications, Publication
  <2>4. \A r \in request[q].rows : row'[r] = row[r]
    BY <2>1, <2>3 DEF Staging
  <2> QED
    BY <2>1, <2>2, <2>4 DEF Staging, Pending
<1>2. PublishedOnce'
  <2>1. DOMAIN row' = DOMAIN row /\ DOMAIN row = Rows
    BY <1>s DEF Staging, Shape
  <2> QED
    BY <2>1 DEF Staging, PublishedOnce, Inv
<1>3. HistoryKeepsItsBatch'
  BY <1>s DEF Staging, HistoryKeepsItsBatch, Inv, Used, Shape
<1> QED
  BY <1>s, <1>w, <1>1, <1>2, <1>3, Dooms DEF Staging, Shape

LEMMA LooksStage ==
  ASSUME Inv, NEW w \in Workers, Looks(w)
  PROVE  Staging({})
<1>1. row' = row /\ UNCHANGED <<screen, attempt>>
  BY DEF Looks, Preview, Apply, OverlayRead, StartVerify, PlanFirmware, Plan, Agree, StartRecheck,
     Reread, EndRecheck, GuideRule, StartAutomation, ClearRules, CreateRules, StartDelete, Delete,
     Abort, staged, publishing
<1>2. WroteBatch \/ UNCHANGED request
  BY DEF Looks, Preview, Apply, OverlayRead, StartVerify, PlanFirmware, Plan, Agree, StartRecheck,
     Reread, EndRecheck, GuideRule, StartAutomation, ClearRules, CreateRules, StartDelete, Delete,
     Abort, staged, publishing
<1>3. batch' = batch \/ (batch' = None /\ WroteBatch /\ \A k \in Keys : ~Used(k))
  BY DEF Looks, Preview, Apply, OverlayRead, StartVerify, PlanFirmware, Plan, Agree, StartRecheck,
     Reread, EndRecheck, GuideRule, StartAutomation, ClearRules, CreateRules, StartDelete, Delete,
     Restricts, Abort, staged, publishing
<1> QED
  BY <1>1, <1>2, <1>3 DEF Staging, Inv, Shape

LEMMA WritesStage ==
  ASSUME Inv, NEW w \in Workers, Writes(w)
  PROVE  \E S : Staging(S)
<1>s. row \in [Rows -> RowState]
  BY DEF Inv, Shape
<1>r. row' \in [Rows -> RowState] /\ \A r \in Rows : row'[r].attempt = row[r].attempt
  BY WritesRows
<1>1. CASE Write(w) \/ Confirm(w) \/ WriteVerify(w)
  <2>1. \A r \in Rows : r \notin DOMAIN work[w].shown => row'[r] = row[r]
    BY <1>1, <1>s DEF Write, Confirm, WriteVerify
  <2>2. Wrote(DOMAIN work[w].shown) /\ UNCHANGED <<batch, screen, attempt>>
    BY <1>1 DEF Write, Confirm, WriteVerify
  <2> QED
    BY <1>r, <2>1, <2>2 DEF Staging
<1>2. CASE OverlayWrite(w)
  <2>1. \A r \in Rows : r \notin DOMAIN work[w].seen => row'[r] = row[r]
    BY <1>2, <1>s DEF OverlayWrite
  <2>2. Wrote(DOMAIN work[w].seen) /\ UNCHANGED <<batch, screen, attempt>>
    BY <1>2 DEF OverlayWrite
  <2> QED
    BY <1>r, <2>1, <2>2 DEF Staging
<1>3. ASSUME NEW r \in Rows, Recheck(w, r) PROVE \E S : Staging(S)
  <2>1. UNCHANGED <<batch, screen, attempt>>
    BY <1>3 DEF Recheck
  <2>2. CASE Unrevised(w, r)
    <3>1. \A p \in Rows : p \notin {r} => row'[p] = row[p]
      BY <1>3, <2>2, <1>s DEF Recheck
    <3>2. Wrote({r})
      BY <1>3, <2>2 DEF Recheck
    <3> QED
      BY <1>r, <2>1, <3>1, <3>2 DEF Staging
  <2>3. CASE ~Unrevised(w, r)
    <3>1. row' = row /\ request' = request
      BY <1>3, <2>3 DEF Recheck
    <3> QED
      BY <1>r, <2>1, <3>1 DEF Staging
  <2> QED
    BY <2>2, <2>3
<1> QED
  BY <1>1, <1>2, <1>3 DEF Writes

LEMMA WritesShape ==
  ASSUME Inv, NEW w \in Workers, Writes(w)
  PROVE  /\ work' = [v \in Workers |-> work'[v]] /\ Handlers'
         /\ decisions' = [r \in Rows |-> decisions'[r]]
<1>s. Shape /\ (work[w] # None => Handler(work[w]))
  BY DEF Inv, Shape, Handlers
<1>d. decisions' = [r \in Rows |-> decisions'[r]]
  BY <1>s DEF Writes, Write, Confirm, WriteVerify, Decide, OverlayWrite, Recheck, Shape
<1> SUFFICES \E t : (Handler(t) \/ t = None) /\ Goes(w, t)
  BY <1>s, <1>d, GoesShape
<1>1. CASE Confirm(w)
  BY <1>1 DEF Confirm, Ends
<1>2. CASE Write(w)
  <2>1. Goes(w, [stage |-> "written", rows |-> DOMAIN work[w].shown])
    BY <1>2 DEF Write
  <2>2. DOMAIN work[w].shown \subseteq Rows
    BY <1>2, <1>s DEF Write, At, Handler
  <2> QED
    BY <2>1, <2>2 DEF Handler
<1>3. CASE OverlayWrite(w)
  <2>1. Goes(w, [stage |-> "reread", rows |-> DOMAIN work[w].seen, pending |-> TRUE])
    BY <1>3 DEF OverlayWrite
  <2>2. DOMAIN work[w].seen \subseteq Rows
    BY <1>3, <1>s DEF OverlayWrite, At, Handler
  <2> QED
    BY <2>1, <2>2 DEF Handler
<1>4. CASE WriteVerify(w)
  <2>1. \/ Goes(w, [stage |-> "matched", sel |-> work[w].sel])
        \/ Goes(w, [stage |-> "reread", rows |-> Rows, pending |-> FALSE])
    BY <1>4 DEF WriteVerify
  <2> QED
    BY <2>1 DEF Handler
<1>5. ASSUME NEW r \in Rows, Recheck(w, r) PROVE \E t : (Handler(t) \/ t = None) /\ Goes(w, t)
  <2> DEFINE rest == Restrict(work[w].seen, DOMAIN work[w].seen \ {r})
  <2>1. \/ Goes(w, [work[w] EXCEPT !.seen = rest, !.checked = TRUE])
        \/ Goes(w, [work[w] EXCEPT !.seen = rest])
    BY <1>5 DEF Recheck
  <2>2. /\ Noted(work[w].seen) /\ work[w].stage = "rechecking"
        /\ work[w] \in [stage : {"rechecking"}, checked : BOOLEAN, seen : {work[w].seen}]
    BY <1>5, <1>s DEF Recheck, At, Handler
  <2>3. Noted(rest)
    BY <2>2 DEF Noted, Restrict
  <2> HIDE DEF rest
  <2>4. Handler([work[w] EXCEPT !.seen = rest, !.checked = TRUE])
    BY <2>2, <2>3 DEF Handler
  <2>5. Handler([work[w] EXCEPT !.seen = rest])
    BY <2>2, <2>3 DEF Handler
  <2> QED
    BY <2>1, <2>4, <2>5
<1> QED
  BY <1>1, <1>2, <1>3, <1>4, <1>5 DEF Writes
-----------------------------------------------------------------------------
(* The steps of publication.                                                *)

Publishes(q) == (\E k \in Keys : Post(q, k)) \/ Open(q) \/ Rollback(q)

\* Requests that come, end, or open on what they read.
LEMMA SnapshotStands ==
  ASSUME Inv, NEW q \in Requests, request[q] # None, request[q].stage = "posted", batch # None,
         Chosen(request[q].key)
  PROVE  Publication(Snapshot(request[q].key)) /\ Open1(Snapshot(request[q].key))
<1> DEFINE k == request[q].key
           S == IF screen[k].chosen = None THEN Eligible(screen[k].mode) ELSE screen[k].chosen
<1>1. k \in Keys
  BY DEF Inv, Shape, Publications, Publication
<1>2. \A r \in S : r \in Rows /\ Pending(r) /\ ~row[r].recheck
  BY DEF Eligible, Chosen, Candidates, Blocked
<1>3. Snapshot(k) = [stage |-> "open", key |-> k, doomed |-> FALSE, rows |-> S,
        writes |-> [r \in S |-> OutcomeOf(r)], status |-> Snapshot(k).status, published |-> Snapshot(k).published]
  BY DEF Snapshot
<1>5. [status |-> Snapshot(k).status, published |-> Snapshot(k).published] \in BatchState
  <2> DEFINE P == {r \in Rows : /\ row[r].inclusion = "INCLUDED"
                                /\ r \in S \/ row[r].attempt # None}
  <2>1. Cardinality(P) \in 0 .. Cardinality(Rows)
    <3>1. P \in SUBSET Rows
      OBVIOUS
    <3> HIDE DEF P
    <3> QED
      BY <3>1, BatchAssumption, FS_Subset, FS_CardinalityType
  <2>2. Snapshot(k).published = Cardinality(P)
    BY DEF Snapshot
  <2>3. Snapshot(k).status \in {"PUBLISHED", "PARTIALLY_PUBLISHED"}
    BY DEF Snapshot
  <2> HIDE DEF P
  <2> QED
    BY <2>1, <2>2, <2>3 DEF BatchState
<1> HIDE DEF S
<1>4. /\ Snapshot(k).stage = "open" /\ Snapshot(k).key = k /\ Snapshot(k).rows = S
      /\ DOMAIN Snapshot(k).writes = S
  BY <1>3
<1> QED
  BY <1>1, <1>2, <1>3, <1>4, <1>5 DEF Publication, Open1

\* A publication that is replaced by another, or ends, leaves the rest alone.
LEMMA RequestStep ==
  ASSUME Inv, NEW q \in Requests, NEW t, t # None => Publication(t) /\ Open1(t),
         request' = [request EXCEPT ![q] = t],
         UNCHANGED <<batch, row, decisions, work, screen, attempt>>
  PROVE  Inv'
<1>1. /\ request' = [p \in Requests |-> request'[p]]
      /\ \A p \in Requests : request'[p] = request[p] \/ request'[p] = t
  BY DEF Inv, Shape
<1>2. Publications'
  BY <1>1 DEF Inv, Shape, Publications
<1>3. OpenStands'
  <2> SUFFICES ASSUME NEW p \in Requests, request'[p] # None PROVE Open1(request[p])'
    BY DEF OpenStands
  <2>1. Open1(request'[p])
    BY <1>1 DEF Inv, OpenStands
  <2> QED
    BY <2>1 DEF Open1, Pending
<1>4. Shape'
  BY <1>1, <1>2 DEF Inv, Shape, Handlers
<1> QED
  BY <1>3, <1>4 DEF Inv, PublishedOnce, HistoryKeepsItsBatch, Used

\* Requests that come, end, or open on what they read.
LEMMA PublishesKeeps ==
  ASSUME Inv, NEW q \in Requests, Publishes(q)
  PROVE  Inv'
<1>u. UNCHANGED <<batch, row, decisions, work, screen, attempt>>
  BY DEF Publishes, Post, Open, Rollback, staged
<1>1. ASSUME NEW k \in Keys, Post(q, k) PROVE Inv'
  <2>1. CASE request' = request
    BY <2>1, <1>u DEF Inv, Shape, Handlers, Publications, OpenStands, Open1, Pending, PublishedOnce,
       HistoryKeepsItsBatch, Used
  <2>2. CASE request' = [request EXCEPT ![q] = [stage |-> "posted", key |-> k]]
    <3>1. Publication([stage |-> "posted", key |-> k]) /\ Open1([stage |-> "posted", key |-> k])
      BY DEF Publication, Open1
    <3> QED
      BY <1>u, <2>2, <3>1, RequestStep
  <2> QED
    BY <1>1, <2>1, <2>2 DEF Post
<1>2. CASE request' = [request EXCEPT ![q] = None]
  BY <1>u, <1>2, RequestStep
<1>3. CASE /\ request[q] # None /\ request[q].stage = "posted" /\ batch # None
           /\ Chosen(request[q].key) /\ request' = [request EXCEPT ![q] = Snapshot(request[q].key)]
  BY <1>u, <1>3, SnapshotStands, RequestStep
<1> QED
  BY <1>1, <1>2, <1>3 DEF Publishes, Open, Rollback

\* The publication commits: its rows had no attempt, and get this one.
LEMMA CommitKeeps ==
  ASSUME Inv, NEW q \in Requests, Commit(q)
  PROVE  Inv'
<1> DEFINE t == request[q]
<1>s. Shape /\ row \in [Rows -> RowState]
  BY DEF Inv, Shape
<1>1. /\ t.key \in Keys /\ t.rows \subseteq Rows /\ DOMAIN t.writes = t.rows
      /\ \A r \in t.rows : row[r].attempt = None
      /\ ~Used(t.key)
  BY DEF Commit, MayCommit, Inv, OpenStands, Open1, Pending, Shape, Publications, Publication
<1>2. /\ row' = [r \in Rows |-> IF r \in t.rows THEN [row[r] EXCEPT !.attempt = t.key] ELSE row[r]]
      /\ attempt' = [attempt EXCEPT ![t.key] = t.writes]
      /\ UNCHANGED <<decisions, work, screen>>
  BY DEF Commit
<1>3. \A r \in Rows : /\ row'[r] \in RowState
                      /\ row'[r].attempt = IF r \in t.rows THEN t.key ELSE row[r].attempt
  BY <1>s, <1>1, <1>2 DEF RowState
<1>4. \A k \in Keys : attempt'[k] = IF k = t.key THEN t.writes ELSE attempt[k]
  BY <1>s, <1>2 DEF Shape
<1>5. PublishedOnce'
  <2> SUFFICES ASSUME NEW r \in Rows, NEW k \in Keys
               PROVE  r \in DOMAIN attempt'[k] <=> row'[r].attempt = k
    BY <1>s, <1>2 DEF Shape, PublishedOnce
  <2>1. r \in DOMAIN attempt[k] <=> row[r].attempt = k
    BY <1>s DEF Inv, PublishedOnce, Shape
  <2> QED
    BY <1>1, <1>3, <1>4, <2>1, BatchAssumption DEF Used
<1>6. \A p \in Requests :
        \/ request'[p] = None
        \/ request'[p] = request[p] /\ request[p].stage # "open"
        \/ request[p] # None /\ request[p].stage = "open" /\ request'[p] = [request[p] EXCEPT !.doomed = TRUE]
  BY DEF Commit
<1>7. Publications' /\ OpenStands'
  <2> SUFFICES ASSUME NEW p \in Requests, request'[p] # None
               PROVE  Publication(request'[p]) /\ (request'[p].stage # "open" \/ request'[p].doomed)
    BY DEF Publications, OpenStands, Open1
  <2>1. request[p] # None => Publication(request[p])
    BY <1>s DEF Shape, Publications
  <2> QED
    BY <1>6, <2>1 DEF Publication
<1>8. request' = [p \in Requests |-> request'[p]] /\ batch' # None
  <2>1. [status |-> t.status, published |-> t.published] \in BatchState
    BY <1>s DEF Commit, Shape, Publications, Publication
  <2> QED
    BY <2>1, BatchAssumption DEF Commit
<1> QED
  BY <1>s, <1>2, <1>3, <1>5, <1>7, <1>8 DEF Inv, Shape, Handlers, HistoryKeepsItsBatch
-----------------------------------------------------------------------------
LEMMA HandlerStep ==
  ASSUME Inv, NEW w \in Workers, Looks(w) \/ Writes(w)
  PROVE  Inv'
<1>1. PICK S : Staging(S)
  BY LooksStage, WritesStage
<1>2. work' = [v \in Workers |-> work'[v]] /\ Handlers' /\ decisions' = [r \in Rows |-> decisions'[r]]
  <2>1. CASE Looks(w)
    <3>1. decisions' = [r \in Rows |-> decisions'[r]]
      BY <2>1 DEF Looks, Preview, Apply, OverlayRead, StartVerify, PlanFirmware, Plan, Agree,
         StartRecheck, Reread, EndRecheck, GuideRule, StartAutomation, ClearRules, CreateRules,
         StartDelete, Delete, Abort, staged, Inv, Shape
    <3> QED
      BY <2>1, <3>1, LooksShape
  <2>2. CASE Writes(w)
    BY <2>2, WritesShape
  <2> QED
    BY <2>1, <2>2
<1> QED
  BY <1>1, <1>2, StagingKeeps DEF Inv, Shape

LEMMA InvStep == Inv /\ [Next]_vars => Inv'
<1> SUFFICES ASSUME Inv, [Next]_vars PROVE Inv'
  OBVIOUS
<1>1. ASSUME NEW w \in Workers, Correct(w) \/ Verify(w) \/ Maintain(w) \/ Remove(w) PROVE Inv'
  BY <1>1, HandlerStep DEF Correct, Verify, Maintain, Remove, Looks, Writes
<1>2. CASE ChangeRules \/ UNCHANGED vars
  BY <1>2 DEF ChangeRules, staged, publishing, vars, Inv, Shape, Handlers, Publications, OpenStands,
     Open1, Pending, PublishedOnce, HistoryKeepsItsBatch, Used
<1>3. ASSUME NEW k \in Keys, Review(k) PROVE Inv'
  <2>1. screen' = [j \in Keys |-> screen'[j]]
    BY <1>3 DEF Review, Inv, Shape
  <2>2. UNCHANGED <<batch, row, decisions, work, request, attempt>>
    BY <1>3 DEF Review, staged
  <2> QED
    BY <2>1, <2>2 DEF Inv, Shape, Handlers, Publications, OpenStands, Open1, Pending,
       PublishedOnce, HistoryKeepsItsBatch, Used
<1>4. ASSUME NEW q \in Requests, Publishes(q) PROVE Inv'
  BY <1>4, PublishesKeeps
<1>5. ASSUME NEW q \in Requests, Commit(q) PROVE Inv'
  BY <1>5, CommitKeeps
<1> QED
  BY <1>1, <1>2, <1>3, <1>4, <1>5 DEF Next, Publishes

LEMMA Invariance == Spec => []Inv
BY InitInv, InvStep, PTL DEF Spec

\* Retries, duplicate requests, crashes and whatever automation decides in
\* between: no row is written to a device by two attempts, and it names the one.
THEOREM WrittenOnce == Spec => []PublishedOnce
BY Invariance, PTL DEF Inv

\* A deletion that looked before the first publication committed does not take
\* the history with it.
THEOREM HistoryStays == Spec => []HistoryKeepsItsBatch
BY Invariance, PTL DEF Inv
-----------------------------------------------------------------------------
(* What is left of a history when decisions of rules are deleted.           *)

\* The n-th of the decisions that stay.
Nth(kept, n) == CHOOSE i \in kept : Place(kept, i) = n

\* The places of some numbers are the numbers up to how many they are, in their
\* order.
LEMMA EveryPlaceIsTaken ==
  ASSUME NEW m \in Nat, NEW kept \in SUBSET (1 .. m)
  PROVE  /\ \A n \in 1 .. Cardinality(kept) : Nth(kept, n) \in kept /\ Place(kept, Nth(kept, n)) = n
         /\ \A i \in kept : Place(kept, i) \in 1 .. Cardinality(kept) /\ Nth(kept, Place(kept, i)) = i
         /\ \A i, j \in kept : i < j => Place(kept, i) < Place(kept, j)
<1> DEFINE k == Cardinality(kept)
           places == 1 .. k
           place == [i \in kept |-> Place(kept, i)]
<1>1. IsFiniteSet(kept) /\ k \in Nat
  <2>1. 1 \in Int /\ m \in Int
    OBVIOUS
  <2>2. IsFiniteSet(1 .. m)
    BY <2>1, FS_Interval
  <2> QED BY <2>2, FS_Subset, FS_CardinalityType
<1>2. ASSUME NEW i \in kept, NEW j \in kept, i < j PROVE Place(kept, i) < Place(kept, j)
  <2> DEFINE I == {h \in kept : h <= i}
             J == {h \in kept : h <= j}
  <2>0. \A h \in kept : h \in Nat
    OBVIOUS
  <2>1. J \in SUBSET kept /\ I \in SUBSET J /\ j \in J /\ j \notin I
    <3>1. i \in Nat /\ j \in Nat /\ j <= j /\ ~(j <= i)
      BY <1>2, <2>0
    <3>2. \A h \in kept : h <= i => h <= j
      BY <1>2, <2>0, <3>1
    <3> QED BY <3>1, <3>2
  <2> HIDE DEF I, J
  <2>2. IsFiniteSet(I) /\ IsFiniteSet(J) /\ Cardinality(I) <= Cardinality(J) /\ Cardinality(I) # Cardinality(J)
    BY <1>1, <2>1, FS_Subset
  <2>3. Cardinality(I) \in Nat /\ Cardinality(J) \in Nat
    BY <2>2, FS_CardinalityType
  <2> QED BY <2>2, <2>3 DEF Place, I, J
<1>3. \A i \in kept : Place(kept, i) \in places
  <2> TAKE i \in kept
  <2> DEFINE I == {h \in kept : h <= i}
  <2>1. I \in SUBSET kept /\ i \in I
    OBVIOUS
  <2> HIDE DEF I
  <2>2. IsFiniteSet(I) /\ Cardinality(I) <= k /\ I # {}
    BY <1>1, <2>1, FS_Subset
  <2>3. Cardinality(I) \in Nat /\ Cardinality(I) # 0
    BY <2>2, FS_CardinalityType, FS_EmptySet
  <2> QED BY <1>1, <2>2, <2>3 DEF Place, I
<1>4. \A i, j \in kept : place[i] = place[j] => i = j
  <2> TAKE i, j \in kept
  <2>1. i \in Nat /\ j \in Nat /\ Place(kept, i) \in Int /\ Place(kept, j) \in Int
    BY <1>3
  <2> QED BY <1>2, <2>1
<1>5. IsFiniteSet(places) /\ Cardinality(places) = k
  <2>1. 1 \in Int /\ k \in Int
    BY <1>1
  <2>2. IsFiniteSet(places) /\ Cardinality(places) = IF 1 > k THEN 0 ELSE k - 1 + 1
    BY <2>1, FS_Interval
  <2> QED BY <1>1, <2>2
<1>6. place \in [kept -> places]
  BY <1>3
<1> HIDE DEF place, places, k
<1>7. place \in Injection(kept, places)
  BY <1>4, <1>6 DEF Injection, IsInjective
<1>8. place \in Surjection(kept, places)
  BY <1>5, <1>7, FS_Injection DEF k
<1>9. ASSUME NEW n \in 1 .. Cardinality(kept) PROVE Nth(kept, n) \in kept /\ Place(kept, Nth(kept, n)) = n
  <2>1. PICK i \in kept : place[i] = n
    BY <1>8 DEF Surjection, places, k
  <2> QED BY <2>1 DEF Nth, place
<1>10. ASSUME NEW i \in kept
       PROVE  Place(kept, i) \in 1 .. Cardinality(kept) /\ Nth(kept, Place(kept, i)) = i
  <2>1. Place(kept, i) \in 1 .. Cardinality(kept)
    BY <1>3 DEF places, k
  <2>2. Nth(kept, Place(kept, i)) \in kept /\ Place(kept, Nth(kept, Place(kept, i))) = Place(kept, i)
    BY <1>9, <2>1
  <2> QED BY <1>4, <2>1, <2>2 DEF place
<1> QED BY <1>2, <1>9, <1>10

\* A set of numbers that is not empty has a greatest one.
LEMMA LatestIs ==
  ASSUME NEW m \in Nat, NEW S \in SUBSET (1 .. m), S # {}
  PROVE  Latest(S) \in S /\ \A j \in S : j <= Latest(S)
<1>1. IsFiniteSet(S) /\ Cardinality(S) \in Nat /\ Cardinality(S) # 0
  <2>1. 1 \in Int /\ m \in Int
    OBVIOUS
  <2>2. IsFiniteSet(1 .. m)
    BY <2>1, FS_Interval
  <2> QED BY <2>2, FS_Subset, FS_CardinalityType, FS_EmptySet
<1> DEFINE n == Cardinality(S)
           i == Nth(S, n)
           I == {h \in S : h <= i}
<1>2. i \in S /\ Cardinality(I) = n
  <2>1. n \in 1 .. Cardinality(S)
    BY <1>1
  <2> QED BY <2>1, EveryPlaceIsTaken DEF Place
<1>3. I \in SUBSET S
  OBVIOUS
<1> HIDE DEF I, i
<1>4. I = S
  BY <1>1, <1>2, <1>3, FS_Subset
<1>5. \A j \in S : j <= i
  BY <1>4 DEF I
<1> QED BY <1>2, <1>5 DEF Latest

\* What stays of a history is a history: its decisions are those that stay, in
\* their order.
LEMMA StayingStays ==
  ASSUME NEW history \in Seq(Recorded), NEW gone
  PROVE  /\ Without(history, gone) \in Seq(Recorded)
         /\ \A n \in DOMAIN Without(history, gone) :
              /\ Nth(Staying(history, gone), n) \in DOMAIN history
              /\ Without(history, gone)[n] = history[Nth(Staying(history, gone), n)]
         /\ \A n, m \in DOMAIN Without(history, gone) :
              n < m => Nth(Staying(history, gone), n) < Nth(Staying(history, gone), m)
         /\ \A i \in Staying(history, gone) : \E n \in DOMAIN Without(history, gone) :
              Nth(Staying(history, gone), n) = i
<1> DEFINE kept == Staying(history, gone)
           left == Without(history, gone)
<1>1. Len(history) \in Nat /\ DOMAIN history = 1 .. Len(history) /\ \A i \in DOMAIN history : history[i] \in Recorded
  OBVIOUS
<1>2. kept \in SUBSET (1 .. Len(history))
  BY <1>1 DEF Staying
<1>3. left = [n \in 1 .. Cardinality(kept) |-> history[Nth(kept, n)]]
  BY DEF Without, Nth
<1>4. Cardinality(kept) \in Nat
  <2>1. 1 \in Int /\ Len(history) \in Int
    BY <1>1
  <2>2. IsFiniteSet(1 .. Len(history))
    BY <2>1, FS_Interval
  <2> QED BY <1>2, <2>2, FS_Subset, FS_CardinalityType
<1> HIDE DEF kept, left
<1>5. \A n \in 1 .. Cardinality(kept) : Nth(kept, n) \in kept /\ Place(kept, Nth(kept, n)) = n
  BY <1>1, <1>2, EveryPlaceIsTaken
<1>6. \A n \in DOMAIN left : Nth(kept, n) \in DOMAIN history /\ left[n] = history[Nth(kept, n)]
  BY <1>1, <1>2, <1>3, <1>5
<1>7. left \in Seq(Recorded)
  BY <1>1, <1>3, <1>4, <1>6
<1>8. ASSUME NEW n \in DOMAIN left, NEW l \in DOMAIN left, n < l PROVE Nth(kept, n) < Nth(kept, l)
  <2>1. /\ Nth(kept, n) \in kept /\ Nth(kept, l) \in kept
        /\ Place(kept, Nth(kept, n)) = n /\ Place(kept, Nth(kept, l)) = l /\ n \in Nat /\ l \in Nat
    BY <1>3, <1>4, <1>5
  <2> DEFINE i == Nth(kept, n)
             j == Nth(kept, l)
  <2>0. i \in kept /\ j \in kept /\ Place(kept, i) = n /\ Place(kept, j) = l
    BY <2>1
  <2> HIDE DEF i, j
  <2>2. i \in Nat /\ j \in Nat
    BY <1>1, <1>2, <2>0
  <2>3. j < i => Place(kept, j) < Place(kept, i)
    BY <1>1, <1>2, <2>0, EveryPlaceIsTaken
  <2>4. i < j
    BY <1>8, <2>0, <2>1, <2>2, <2>3
  <2> QED BY <2>4 DEF i, j
<1>9. \A i \in kept : \E n \in DOMAIN left : Nth(kept, n) = i
  BY <1>1, <1>2, <1>3, EveryPlaceIsTaken
<1> QED BY <1>3, <1>5, <1>6, <1>7, <1>8, <1>9 DEF kept, left

\* What engineers decided in a history, whatever rules decided before or after.
Hand(history, act) ==
  {i \in DOMAIN history : history[i].act = act /\ history[i].by = "ENGINEER"}
Said(history, act) == IF Hand(history, act) = {} THEN None ELSE "ENGINEER"
ByHand(history) ==
  [value |-> IF Hand(history, "SET") = {} THEN None ELSE history[Latest(Hand(history, "SET"))].value,
   set |-> Said(history, "SET"), match |-> Said(history, "MATCH"), excluded |-> Said(history, "EXCLUDE")]

\* The decision that a rule appends, and those of rules that are deleted, change
\* nothing of what engineers decided.
LEMMA RuleAppends ==
  ASSUME NEW history \in Seq(Recorded), NEW d \in Recorded, d.by = "RULE"
  PROVE  Append(history, d) \in Seq(Recorded) /\ ByHand(Append(history, d)) = ByHand(history)
<1> DEFINE new == Append(history, d)
<1>1. /\ new \in Seq(Recorded) /\ Len(history) \in Nat
      /\ DOMAIN history = 1 .. Len(history) /\ DOMAIN new = 1 .. (Len(history) + 1)
      /\ \A i \in DOMAIN history : new[i] = history[i]
      /\ new[Len(history) + 1] = d
  OBVIOUS
<1> HIDE DEF new
<1>2. \A act : Hand(new, act) = Hand(history, act)
  <2> TAKE act
  <2>1. Hand(history, act) \subseteq Hand(new, act)
    BY <1>1 DEF Hand
  <2>2. ASSUME NEW i \in Hand(new, act) PROVE i \in Hand(history, act)
    <3>1. i \in DOMAIN new /\ new[i].act = act /\ new[i].by = "ENGINEER"
      BY DEF Hand
    <3>2. i # Len(history) + 1
      BY <1>1, <3>1
    <3>3. i \in DOMAIN history
      BY <1>1, <3>1, <3>2
    <3> QED BY <1>1, <3>1, <3>3 DEF Hand
  <2> QED BY <2>1, <2>2
<1>3. Hand(history, "SET") # {} => Latest(Hand(history, "SET")) \in DOMAIN history
  BY <1>1, LatestIs DEF Hand
<1> QED BY <1>1, <1>2, <1>3 DEF ByHand, Said, new

LEMMA RulesGo ==
  ASSUME NEW history \in Seq(Recorded), NEW gone
  PROVE  ByHand(Without(history, gone)) = ByHand(history)
<1> DEFINE new == Without(history, gone)
           at(n) == Nth(Staying(history, gone), n)
<1>1. /\ new \in Seq(Recorded)
      /\ \A n \in DOMAIN new : at(n) \in DOMAIN history /\ new[n] = history[at(n)]
      /\ \A n, m \in DOMAIN new : n < m => at(n) < at(m)
      /\ \A i \in Staying(history, gone) : \E n \in DOMAIN new : at(n) = i
  BY StayingStays
<1>2. \A i \in DOMAIN history : history[i].by = "ENGINEER" => i \in Staying(history, gone)
  BY DEF Staying
<1>3. /\ Len(new) \in Nat /\ DOMAIN new = 1 .. Len(new)
      /\ Len(history) \in Nat /\ DOMAIN history = 1 .. Len(history)
  BY <1>1
<1> HIDE DEF new, at
<1>4. ASSUME NEW act
      PROVE  /\ \A n \in Hand(new, act) : at(n) \in Hand(history, act)
             /\ \A i \in Hand(history, act) : \E n \in Hand(new, act) : at(n) = i
  BY <1>1, <1>2 DEF Hand
<1>5. \A act : Hand(new, act) = {} <=> Hand(history, act) = {}
  BY <1>4
<1>6. ASSUME Hand(history, "SET") # {}
      PROVE  new[Latest(Hand(new, "SET"))].value = history[Latest(Hand(history, "SET"))].value
  <2> DEFINE n == Latest(Hand(new, "SET"))
             i == Latest(Hand(history, "SET"))
  <2>1. n \in Hand(new, "SET") /\ \A j \in Hand(new, "SET") : j <= n
    <3>1. Hand(new, "SET") \in SUBSET (1 .. Len(new)) /\ Hand(new, "SET") # {}
      BY <1>3, <1>5, <1>6 DEF Hand
    <3> QED BY <1>3, <3>1, LatestIs
  <2>2. i \in Hand(history, "SET") /\ \A j \in Hand(history, "SET") : j <= i
    <3>1. Hand(history, "SET") \in SUBSET (1 .. Len(history))
      BY <1>3 DEF Hand
    <3> QED BY <1>3, <1>6, <3>1, LatestIs
  <2> HIDE DEF n, i
  <2>3. PICK m \in Hand(new, "SET") : at(m) = i
    BY <1>4, <2>2
  <2>4. n \in 1 .. Len(new) /\ m \in 1 .. Len(new) /\ m <= n
    BY <1>3, <2>1 DEF Hand
  <2>5. at(n) <= i /\ i \in Nat /\ at(n) \in Nat
    <3>1. at(n) \in Hand(history, "SET")
      BY <1>4, <2>1
    <3>2. \A j \in Hand(history, "SET") : j \in Nat
      BY <1>3 DEF Hand
    <3> QED BY <2>2, <3>1, <3>2
  <2>6. m = n
    BY <1>1, <1>3, <2>3, <2>4, <2>5
  <2>7. new[n] = history[i]
    BY <1>1, <1>3, <2>3, <2>4, <2>6
  <2> QED BY <2>7 DEF n, i
<1> QED BY <1>5, <1>6 DEF ByHand, Said, new

\* An outcome says of a history what engineers decided, where no rule speaks.
Told(o, history) ==
  /\ o.set # "RULE" => o.set = ByHand(history).set /\ o.value = ByHand(history).value
  /\ o.match # "RULE" => o.match = ByHand(history).match
  /\ o.excluded # "RULE" => o.excluded = ByHand(history).excluded

LEMMA OutcomeTold ==
  ASSUME NEW r, decisions[r] \in Seq(Recorded)
  PROVE  Told(OutcomeOf(r), decisions[r])
<1> DEFINE h == decisions[r]
<1>1. Len(h) \in Nat /\ DOMAIN h = 1 .. Len(h) /\ \A i \in DOMAIN h : h[i].by \in {"ENGINEER", "RULE"}
  <2>1. Len(h) \in Nat /\ DOMAIN h = 1 .. Len(h) /\ \A i \in DOMAIN h : h[i] \in Recorded
    OBVIOUS
  <2> QED BY <2>1 DEF Recorded
<1>2. \A act : Made(r, act) \in SUBSET (1 .. Len(h)) /\ Hand(h, act) \subseteq Made(r, act)
  BY <1>1 DEF Made, Hand
<1>3. ASSUME NEW act, SaidBy(r, act) # "RULE"
      PROVE  /\ SaidBy(r, act) = Said(h, act)
             /\ Made(r, act) = {} <=> Hand(h, act) = {}
             /\ Made(r, act) # {} => Latest(Made(r, act)) = Latest(Hand(h, act))
  <2>1. CASE Made(r, act) = {}
    BY <1>2, <2>1 DEF SaidBy, Said
  <2>2. CASE Made(r, act) # {}
    <3> DEFINE l == Latest(Made(r, act))
    <3>1. l \in Made(r, act) /\ \A j \in Made(r, act) : j <= l
      BY <1>1, <1>2, <2>2, LatestIs
    <3>2. h[l].by = "ENGINEER"
      BY <1>1, <1>3, <2>2, <3>1 DEF SaidBy, Made
    <3> HIDE DEF l
    <3>3. l \in Hand(h, act) /\ \A j \in Hand(h, act) : j <= l
      BY <1>2, <3>1, <3>2 DEF Made, Hand
    <3>4. Latest(Hand(h, act)) \in Hand(h, act) /\ \A j \in Hand(h, act) : j <= Latest(Hand(h, act))
      BY <1>1, <1>2, <3>3, LatestIs
    <3>5. Latest(Hand(h, act)) = l
      <4>1. \A j \in Hand(h, act) : j \in Nat
        BY <1>2
      <4> QED BY <3>3, <3>4, <4>1
    <3> QED BY <2>2, <3>2, <3>3, <3>5 DEF SaidBy, Said, l
  <2> QED BY <2>1, <2>2
<1>4. SaidBy(r, "SET") # "RULE" => OutcomeOf(r).value = ByHand(h).value
  BY <1>3 DEF OutcomeOf, ByHand
<1>5. ExcludedBy(r) # "RULE" => ExcludedBy(r) = Said(h, "EXCLUDE")
  <2>1. Hand(h, "EXCLUDE") # {} <=> \E i \in Made(r, "EXCLUDE") : decisions[r][i].by = "ENGINEER"
    BY DEF Hand, Made
  <2> QED BY <2>1, NoneAssumption DEF ExcludedBy, Said
<1>6. /\ OutcomeOf(r).set = SaidBy(r, "SET") /\ OutcomeOf(r).match = SaidBy(r, "MATCH")
      /\ OutcomeOf(r).excluded = ExcludedBy(r)
      /\ ByHand(h).set = Said(h, "SET") /\ ByHand(h).match = Said(h, "MATCH")
      /\ ByHand(h).excluded = Said(h, "EXCLUDE")
  BY DEF OutcomeOf, ByHand
<1> QED BY <1>3, <1>4, <1>5, <1>6 DEF Told

\* Two outcomes of one history differ in nothing but what rules say.
LEMMA ToldApart ==
  ASSUME NEW o, NEW p, NEW history, Told(o, history), Told(p, history)
  PROVE  RulesApart(o, p)
BY DEF Told, RulesApart
-----------------------------------------------------------------------------
(* What a publication is worth.  A decision of a rule reaches its row without *)
(* a new revision and slips past the fingerprint; those of engineers do not. *)

\* What a handler decides comes from an engineer, and excludes a row only when
\* the row's inclusion is written with it.
Deciding(t) ==
  /\ t.stage \in {"previewed", "checked", "confirmed", "planned", "agreed"} =>
       t.by \in Correction /\ \A r \in Rows \cap DOMAIN t.shown : t.shown[r] \in Nat
  /\ t.stage \in {"confirmed", "planned", "agreed"} => t.by.act # "EXCLUDE"
  /\ t.stage \in {"clearing", "creating"} =>
       t.fresh \in [Rows -> SUBSET (Act \X (Values \cup {None}))]

Ledger ==
  /\ rules \in RuleSets
  /\ decisions \in [Rows -> Seq(Recorded)]
  /\ \A w \in Workers : work[w] # None => Deciding(work[w])

\* The row knows of the engineer who excludes it, and so does a recheck that
\* will still find the revision it has read.
LeftOut(r) == ByHand(decisions[r]).excluded = "ENGINEER"

ExclusionHolds == \A r \in Rows : LeftOut(r) => row[r].inclusion = "EXCLUDED"

Rechecking(t) ==
  t.stage = "rechecking" =>
    \A r \in DOMAIN t.seen :
      /\ t.seen[r].revision <= row[r].revision
      /\ t.seen[r].revision = row[r].revision /\ LeftOut(r) => t.seen[r].inclusion = "EXCLUDED"

RechecksHold == \A w \in Workers : work[w] # None => Rechecking(work[w])

\* Revisions only grow, and what the QA showed of a row is what engineers
\* decided on it as long as its revision is the one of the fingerprint.
Pinned(k) ==
  screen[k] # None =>
    \A r \in Rows :
      /\ screen[k].print.rows[r][2] \in Nat
      /\ screen[k].print.rows[r][2] <= row[r].revision
      /\ screen[k].print.rows[r][2] = row[r].revision => Told(screen[k].showed[r], decisions[r])

\* A row is resolved by its outcome.
ResolvedBy(o, r) ==
  /\ Issue[r] = "error" => o.set # None \/ o.excluded # None
  /\ Identity[r] # "invalid" /\ (r \in Unmatched => o.match # None) /\ r \notin Ambiguous

\* A publication that may still commit will write what its QA showed, and what
\* engineers decided on its rows; what it will write resolves them.
OpenShows(t) ==
  /\ screen[t.key] # None
  /\ t.stage = "open" /\ ~t.doomed =>
       \A r \in t.rows :
         /\ Told(t.writes[r], decisions[r]) /\ Told(screen[t.key].showed[r], decisions[r])
         /\ ResolvedBy(t.writes[r], r)

Shows ==
  /\ \A k \in Keys : Pinned(k) /\ (Used(k) => screen[k] # None)
  /\ \A q \in Requests : request[q] # None => OpenShows(request[q])

Kept == Ledger /\ ExclusionHolds /\ RechecksHold /\ Shows /\ PublishedAsShown /\ ExcludedStaysOut
-----------------------------------------------------------------------------

\* A row that is neither blocked nor excluded is resolved by its outcome, and
\* one resolved by its outcome needs no review.
LEMMA Resolved ==
  ASSUME NEW r \in Rows, decisions[r] \in Seq(Recorded), row[r].inclusion = "INCLUDED"
  PROVE  /\ ~Blocked(r) => ResolvedBy(OutcomeOf(r), r)
         /\ ResolvedBy(OutcomeOf(r), r) => Recomputed(r) # "NEEDS_REVIEW"
<1>1. \A act : SaidBy(r, act) = None <=> Made(r, act) = {}
  <2> TAKE act
  <2>1. /\ Len(decisions[r]) \in Nat /\ Made(r, act) \in SUBSET (1 .. Len(decisions[r]))
        /\ \A i \in DOMAIN decisions[r] : decisions[r][i] \in Recorded
    BY DEF Made
  <2>2. Made(r, act) # {} => Latest(Made(r, act)) \in Made(r, act)
    BY <2>1, LatestIs
  <2> QED BY <2>1, <2>2, NoneAssumption DEF SaidBy, Recorded, Made
<1>2. ExcludedBy(r) = None <=> ~Dismissed(r)
  BY NoneAssumption DEF ExcludedBy, Dismissed
<1>3. Active(r, "error") <=> Issue[r] = "error" /\ ~Dismissed(r) /\ Made(r, "SET") = {}
  BY DEF Active, IsExcluded
<1>4. ResolvedBy(OutcomeOf(r), r) <=> ~Active(r, "error") /\ ~UnmatchedStill(r) /\ r \notin Ambiguous
  BY <1>1, <1>2, <1>3 DEF ResolvedBy, OutcomeOf, UnmatchedStill
<1>5. ~Active(r, "error") /\ ~UnmatchedStill(r) /\ r \notin Ambiguous => Recomputed(r) # "NEEDS_REVIEW"
  BY DEF Recomputed, StatusOf
<1> QED BY <1>4, <1>5 DEF Blocked

LEMMA InitKept == Init => Kept
<1> SUFFICES ASSUME Init PROVE Kept
  OBVIOUS
<1>1. Ledger
  BY DEF Init, Ledger
<1>2. \A r \in Rows : ~LeftOut(r)
  BY NoneAssumption DEF Init, LeftOut, ByHand, Said, Hand
<1>3. /\ \A k \in Keys : screen[k] = None /\ attempt[k] = <<>>
      /\ DOMAIN attempt = Keys
  BY DEF Init
<1>4. Shows
  BY <1>3 DEF Init, Shows, Pinned, Used
<1> QED
  BY <1>1, <1>2, <1>3, <1>4 DEF Kept, Init, ExclusionHolds, RechecksHold, PublishedAsShown, ExcludedStaysOut

\* A step of a handler: what an engineer decides comes with a new revision.
Revising(S) ==
  /\ Staging(S)
  /\ \A r \in Rows :
       /\ row[r].revision <= row'[r].revision
       /\ \/ ByHand(decisions'[r]) = ByHand(decisions[r])
          \/ Wrote(S) /\ r \in S /\ row[r].revision < row'[r].revision
       /\ LeftOut(r)' => row'[r].inclusion = "EXCLUDED"

LEMMA RevisingKeeps ==
  ASSUME Inv, Kept, NEW S, Revising(S)
  PROVE  ExclusionHolds' /\ Shows' /\ PublishedAsShown' /\ ExcludedStaysOut'
<1>s. Shape /\ Staging(S) /\ UNCHANGED <<screen, attempt>>
  BY DEF Inv, Revising, Staging
<1>w. Wrote(S) \/ WroteBatch \/ UNCHANGED request
  BY <1>s DEF Staging
<1>1. ExclusionHolds'
  BY DEF Revising, ExclusionHolds
<1>2. PublishedAsShown' /\ ExcludedStaysOut'
  BY <1>s DEF Kept, PublishedAsShown, ExcludedStaysOut
<1>3. ASSUME NEW k \in Keys PROVE (Pinned(k) /\ (Used(k) => screen[k] # None))'
  <2>1. Pinned(k) /\ (Used(k) => screen[k] # None)
    BY DEF Kept, Shows
  <2>2. ASSUME screen[k] # None, NEW r \in Rows
        PROVE  /\ screen[k].print.rows[r][2] \in Nat
               /\ screen[k].print.rows[r][2] <= row'[r].revision
               /\ screen[k].print.rows[r][2] = row'[r].revision => Told(screen[k].showed[r], decisions'[r])
    <3>1. /\ screen[k].print.rows[r][2] <= row[r].revision
          /\ screen[k].print.rows[r][2] = row[r].revision => Told(screen[k].showed[r], decisions[r])
          /\ screen[k].print.rows[r][2] \in Nat
      BY <2>1, <2>2 DEF Pinned
    <3>2. row[r].revision \in Nat /\ row'[r].revision \in Nat /\ row[r].revision <= row'[r].revision
      BY <1>s DEF Shape, Staging, RowState, Revising
    <3>3. CASE ByHand(decisions'[r]) = ByHand(decisions[r])
      BY <3>1, <3>2, <3>3 DEF Told
    <3>4. CASE row[r].revision < row'[r].revision
      BY <3>1, <3>2, <3>4
    <3> QED
      BY <3>3, <3>4 DEF Revising
  <2>3. Pinned(k)'
    BY <1>s, <2>2 DEF Pinned
  <2> QED
    BY <1>s, <2>1, <2>3 DEF Used
<1>4. ASSUME NEW q \in Requests, request'[q] # None PROVE OpenShows(request[q])'
  <2>1. /\ request[q] # None /\ request'[q].key = request[q].key
        /\ OpenShows(request[q]) /\ Publication(request[q])
    BY <1>s, <1>w, <1>4, Dooms DEF Kept, Shows, Shape, Publications
  <2>2. ASSUME request'[q].stage = "open", ~request'[q].doomed, NEW r \in request'[q].rows
        PROVE  /\ Told(request'[q].writes[r], decisions'[r])
               /\ Told(screen'[request'[q].key].showed[r], decisions'[r])
               /\ ResolvedBy(request'[q].writes[r], r)
    <3>1. /\ request'[q] = request[q] /\ r \in request[q].rows
          /\ Wrote(S) => request[q].rows \cap S = {}
      BY <1>s, <1>w, <1>4, <2>2, Dooms
    <3>2. /\ Told(request[q].writes[r], decisions[r]) /\ Told(screen[request[q].key].showed[r], decisions[r])
          /\ ResolvedBy(request[q].writes[r], r)
      BY <2>1, <2>2, <3>1 DEF OpenShows
    <3>3. r \in Rows
      BY <2>1, <2>2, <3>1 DEF Publication
    <3>4. ByHand(decisions'[r]) = ByHand(decisions[r])
      BY <3>1, <3>3 DEF Revising
    <3> QED
      BY <1>s, <3>1, <3>2, <3>4 DEF Told
  <2> QED
    BY <1>s, <2>1, <2>2 DEF OpenShows, ResolvedBy
<1> QED
  BY <1>1, <1>2, <1>3, <1>4 DEF Shows

\* What a recheck has read stays good for the revision it has read.
Good(t) ==
  /\ Noted(t.seen)
  /\ \A r \in DOMAIN t.seen :
       /\ t.seen[r].revision <= row[r].revision
       /\ t.seen[r].revision = row[r].revision /\ LeftOut(r) => t.seen[r].inclusion = "EXCLUDED"

LEMMA GoodStays ==
  ASSUME Inv, Kept, NEW S, Revising(S), NEW t, Good(t)
  PROVE  \A r \in DOMAIN t.seen :
           /\ t.seen[r].revision <= row'[r].revision
           /\ t.seen[r].revision = row'[r].revision /\ LeftOut(r)' => t.seen[r].inclusion = "EXCLUDED"
<1> TAKE r \in DOMAIN t.seen
<1>1. /\ r \in Rows /\ t.seen[r].revision \in Nat
      /\ t.seen[r].revision <= row[r].revision
      /\ t.seen[r].revision = row[r].revision /\ LeftOut(r) => t.seen[r].inclusion = "EXCLUDED"
  BY DEF Good, Noted
<1>2. row[r].revision \in Nat /\ row'[r].revision \in Nat /\ row[r].revision <= row'[r].revision
  BY <1>1 DEF Inv, Shape, Revising, Staging, RowState
<1>3. CASE ByHand(decisions'[r]) = ByHand(decisions[r])
  BY <1>1, <1>2, <1>3 DEF LeftOut
<1>4. CASE row[r].revision < row'[r].revision
  BY <1>1, <1>2, <1>4
<1> QED
  BY <1>1, <1>3, <1>4 DEF Revising

\* One handler goes on, the others keep what they hold.
LEMMA KeptByHandler ==
  ASSUME Inv, Kept, NEW S, Revising(S), NEW w \in Workers, NEW t, Goes(w, t),
         t # None => Deciding(t) /\ (t.stage = "rechecking" => Good(t)),
         rules' \in RuleSets, decisions' \in [Rows -> Seq(Recorded)]
  PROVE  Kept'
<1>1. \A v \in Workers : work'[v] = IF v = w THEN t ELSE work[v]
  BY DEF Goes, Inv, Shape
<1>2. Ledger'
  BY <1>1 DEF Kept, Ledger, Deciding
<1>3. RechecksHold'
  <2> SUFFICES ASSUME NEW v \in Workers, work'[v] # None, work'[v].stage = "rechecking",
                      NEW r \in DOMAIN work'[v].seen
               PROVE  /\ work'[v].seen[r].revision <= row'[r].revision
                      /\ work'[v].seen[r].revision = row'[r].revision /\ LeftOut(r)'
                           => work'[v].seen[r].inclusion = "EXCLUDED"
    BY DEF RechecksHold, Rechecking
  <2>1. CASE v = w
    <3>1. work'[v] = t /\ Good(t)
      BY <1>1, <2>1
    <3> QED
      BY <3>1, GoodStays
  <2>2. CASE v # w
    <3>1. work'[v] = work[v]
      BY <1>1, <2>2
    <3>2. Good(work[v])
      BY <3>1 DEF Good, Kept, RechecksHold, Rechecking, Inv, Shape, Handlers, Handler
    <3> QED
      BY <3>1, <3>2, GoodStays
  <2> QED
    BY <2>1, <2>2
<1> QED
  BY <1>2, <1>3, RevisingKeeps DEF Kept

\* Automation rewrites what rules decided, and nothing else.
LEMMA RulesKeep ==
  ASSUME Kept, NEW w \in Workers, ClearRules(w) \/ CreateRules(w)
  PROVE  /\ decisions' \in [Rows -> Seq(Recorded)]
         /\ \A r \in Rows : ByHand(decisions'[r]) = ByHand(decisions[r])
<1>s. /\ decisions \in [Rows -> Seq(Recorded)]
      /\ work[w] # None /\ work[w].stage \in {"clearing", "creating"}
      /\ work[w].fresh \in [Rows -> SUBSET (Act \X (Values \cup {None}))]
  BY DEF Kept, Ledger, Deciding, ClearRules, CreateRules, At
<1>1. ASSUME NEW r \in Rows
      PROVE  decisions'[r] \in Seq(Recorded) /\ ByHand(decisions'[r]) = ByHand(decisions[r])
  <2>0. decisions[r] \in Seq(Recorded)
    BY <1>s
  <2>1. CASE decisions'[r] = decisions[r]
    BY <2>0, <2>1
  <2>2. ASSUME ClearRules(w), decisions'[r] # decisions[r]
        PROVE  decisions'[r] \in Seq(Recorded) /\ ByHand(decisions'[r]) = ByHand(decisions[r])
    <3>1. decisions'[r] = Without(decisions[r], work[w].gone[r])
      BY <2>2 DEF ClearRules
    <3> QED BY <2>0, <3>1, StayingStays, RulesGo
  <2>3. ASSUME CreateRules(w), decisions'[r] # decisions[r]
        PROVE  decisions'[r] \in Seq(Recorded) /\ ByHand(decisions'[r]) = ByHand(decisions[r])
    <3> DEFINE s == CHOOSE s \in work[w].fresh[r] : TRUE
               d == [act |-> s[1], value |-> s[2], by |-> "RULE", onto |-> 0]
    <3>1. work[w].fresh[r] # {} /\ decisions'[r] = Append(decisions[r], d)
      BY <2>3 DEF CreateRules
    <3>2. d \in Recorded /\ d.by = "RULE"
      <4>1. s \in Act \X (Values \cup {None})
        BY <1>s, <3>1
      <4> HIDE DEF s
      <4> QED BY <4>1 DEF Recorded
    <3> HIDE DEF d
    <3> QED BY <2>0, <3>1, <3>2, RuleAppends
  <2> QED BY <2>1, <2>2, <2>3
<1>2. decisions' = [r \in Rows |-> decisions'[r]]
  BY DEF ClearRules, CreateRules
<1> QED BY <1>1, <1>2

LEMMA LooksKept ==
  ASSUME Inv, Kept, NEW w \in Workers, Looks(w)
  PROVE  Kept'
<1>s. /\ row \in [Rows -> RowState] /\ (work[w] # None => Deciding(work[w]) /\ Handler(work[w]))
      /\ decisions \in [Rows -> Seq(Recorded)]
  BY DEF Inv, Shape, Handlers, Kept, Ledger
<1>d. decisions' \in [Rows -> Seq(Recorded)] /\ \A r \in Rows : ByHand(decisions'[r]) = ByHand(decisions[r])
  <2>1. ClearRules(w) \/ CreateRules(w) \/ decisions' = decisions
    BY DEF Looks, Preview, Apply, OverlayRead, StartVerify, PlanFirmware, Plan, Agree,
       StartRecheck, Reread, EndRecheck, GuideRule, StartAutomation, StartDelete, Delete, Abort, staged
  <2> QED
    BY <1>s, <2>1, RulesKeep
<1>r. rules' \in RuleSets
  BY DEF Looks, Preview, Apply, OverlayRead, StartVerify, PlanFirmware, Plan, Agree, StartRecheck,
     Reread, EndRecheck, GuideRule, StartAutomation, ClearRules, CreateRules, StartDelete, Delete,
     Abort, Kept, Ledger
<1>v. Revising({})
  <2>1. Staging({}) /\ row' = row
    BY LooksStage DEF Looks, Preview, Apply, OverlayRead, StartVerify, PlanFirmware, Plan, Agree,
       StartRecheck, Reread, EndRecheck, GuideRule, StartAutomation, ClearRules, CreateRules,
       StartDelete, Delete, Abort, staged
  <2>2. \A r \in Rows : row[r].revision <= row'[r].revision
    BY <2>1, <1>s DEF RowState
  <2>3. \A r \in Rows : LeftOut(r)' => row'[r].inclusion = "EXCLUDED"
    BY <2>1, <1>d DEF Kept, ExclusionHolds, LeftOut
  <2> QED
    BY <1>d, <2>1, <2>2, <2>3 DEF Revising
<1> SUFFICES \E t : Goes(w, t) /\ (t # None => Deciding(t) /\ (t.stage = "rechecking" => Good(t)))
  BY <1>s, <1>d, <1>r, <1>v, KeptByHandler
<1>1. CASE Preview(w)
  <2>1. PICK sel \in Selections, c \in Corrections :
          Goes(w, [stage |-> "previewed", sel |-> sel, by |-> c, shown |-> Revisions(Selected(sel))])
    BY <1>1 DEF Preview
  <2>2. \A r \in Rows : row[r].revision \in Nat
    BY <1>s DEF RowState
  <2>3. c \in Correction
    BY BatchAssumption DEF Decision, Correction, Act
  <2> QED
    BY <2>1, <2>2, <2>3 DEF Deciding, Revisions
<1>2. CASE Apply(w)
  <2>1. \/ Goes(w, None)
        \/ work[w].by.act # "MATCH" /\ Goes(w, [work[w] EXCEPT !.stage = "checked"])
        \/ /\ work[w].by.act = "MATCH"
           /\ Goes(w, [stage |-> "confirmed", by |-> work[w].by, shown |-> work[w].shown,
                       seen |-> [r \in DOMAIN work[w].shown |-> Matched(r)]])
    BY <1>2 DEF Apply, Ends
  <2>2. Deciding(work[w]) /\ Handler(work[w]) /\ work[w].stage = "previewed"
    BY <1>2, <1>s DEF Apply, At
  <2>3. Deciding([work[w] EXCEPT !.stage = "checked"]) /\ [work[w] EXCEPT !.stage = "checked"].stage = "checked"
    BY <2>2 DEF Deciding, Handler
  <2> DEFINE t == [stage |-> "confirmed", by |-> work[w].by, shown |-> work[w].shown,
                   seen |-> [r \in DOMAIN work[w].shown |-> Matched(r)]]
  <2>4. work[w].by.act = "MATCH" => Deciding(t) /\ t.stage = "confirmed"
    BY <2>2 DEF Deciding
  <2>5. \/ Goes(w, None)
        \/ Goes(w, [work[w] EXCEPT !.stage = "checked"])
        \/ work[w].by.act = "MATCH" /\ Goes(w, t)
    BY <2>1
  <2> HIDE DEF t
  <2> QED
    BY <2>3, <2>4, <2>5
<1>3. CASE StartVerify(w) \/ PlanFirmware(w)
  <2>1. PICK sel, act : Plan(w, sel, act) /\ act \in {"MATCH", "VERIFY"}
    BY <1>3 DEF StartVerify, PlanFirmware
  <2> DEFINE t == [stage |-> "planned", sel |-> sel, by |-> [act |-> act, value |-> None],
                   shown |-> Revisions(Plannable(sel, act)),
                   seen |-> [r \in Plannable(sel, act) |-> Matched(r)]]
  <2>2. Goes(w, t)
    BY <2>1 DEF Plan
  <2>3. \A r \in Rows : row[r].revision \in Nat
    BY <1>s DEF RowState
  <2>4. Deciding(t) /\ t.stage = "planned"
    BY <2>1, <2>3 DEF Deciding, Revisions, Correction, Act
  <2> QED
    BY <2>2, <2>4
<1>4. CASE Agree(w)
  <2>1. Goes(w, [work[w] EXCEPT !.stage = "agreed"]) \/ Goes(w, None)
    BY <1>4 DEF Agree, Ends
  <2>2. Deciding(work[w]) /\ Handler(work[w]) /\ work[w].stage = "planned"
    BY <1>4, <1>s DEF Agree, At
  <2>3. Deciding([work[w] EXCEPT !.stage = "agreed"]) /\ [work[w] EXCEPT !.stage = "agreed"].stage = "agreed"
    BY <2>2 DEF Deciding, Handler
  <2> QED
    BY <2>1, <2>3
<1>5. CASE Reread(w)
  <2> DEFINE P == {r \in work[w].rows : work[w].pending => row[r].recheck}
             t == [stage |-> "rechecking", checked |-> FALSE,
                   seen |-> [r \in P |-> [revision |-> row[r].revision, status |-> Recomputed(r),
                                          inclusion |-> IF IsExcluded(r) THEN "EXCLUDED" ELSE "INCLUDED"]]]
  <2>1. Goes(w, t)
    BY <1>5 DEF Reread
  <2>2. P \subseteq Rows
    BY <1>5, <1>s DEF Reread, At, Handler
  <2>3. \A r \in P : row[r].revision \in Nat /\ Recomputed(r) \in Statuses
    BY <2>2, <1>s, StatusTypes DEF RowState, Recomputed
  <2>4. Noted(t.seen)
    BY <2>2, <2>3 DEF Noted, Inclusion
  <2>5. Good(t)
    BY <1>s, <2>2, <2>3, <2>4 DEF Good, IsExcluded, Kept, ExclusionHolds, RowState
  <2>6. Deciding(t)
    BY DEF Deciding
  <2> QED
    BY <2>1, <2>5, <2>6
<1>6. CASE StartAutomation(w)
  <2> DEFINE t == [stage |-> "clearing", only |-> work[w] # None,
                   gone |-> [r \in Rows |-> ByRule(r) \ Proposed(r)],
                   fresh |-> [r \in Rows |-> Proposed(r) \ Signatures(r)]]
  <2>1. Goes(w, t)
    BY <1>6 DEF StartAutomation
  <2>2. \A r \in Rows : Proposed(r) \subseteq Act \X (Values \cup {None})
    <3> TAKE r \in Rows
    <3>1. rules[r] = None \/ rules[r] \in Decision
      BY BatchAssumption DEF Kept, Ledger
    <3> QED BY <3>1 DEF Proposed, Signature, Decision, Act
  <2>3. t.stage = "clearing" /\ t.fresh \in [Rows -> SUBSET (Act \X (Values \cup {None}))]
    BY <2>2
  <2> HIDE DEF t
  <2>4. Deciding(t)
    BY <2>3 DEF Deciding
  <2> QED
    BY <2>1, <2>3, <2>4
<1>7. CASE ClearRules(w)
  <2>1. Goes(w, [work[w] EXCEPT !.stage = "creating"])
    BY <1>7 DEF ClearRules
  <2>2. Deciding(work[w]) /\ Handler(work[w]) /\ work[w].stage = "clearing"
    BY <1>7, <1>s DEF ClearRules, At
  <2>3. Deciding([work[w] EXCEPT !.stage = "creating"]) /\ [work[w] EXCEPT !.stage = "creating"].stage = "creating"
    BY <2>2 DEF Deciding, Handler
  <2> QED
    BY <2>1, <2>3
<1>8. CASE EndRecheck(w) \/ Delete(w) \/ Abort(w)
  BY <1>8 DEF EndRecheck, Delete, Abort, Ends
<1>9. CASE OverlayRead(w) \/ StartRecheck(w) \/ GuideRule(w) \/ CreateRules(w) \/ StartDelete(w)
  <2>1. \E t : Goes(w, t) /\ t.stage \in {"overlaid", "reread", "guided", "deleting"}
    BY <1>9 DEF OverlayRead, StartRecheck, GuideRule, CreateRules, StartDelete
  <2> QED
    BY <2>1 DEF Deciding
<1> QED
  BY <1>1, <1>2, <1>3, <1>4, <1>5, <1>6, <1>7, <1>8, <1>9 DEF Looks

\* A decision that was appended is the only one that is new.
LEMMA Appended ==
  ASSUME NEW r, decisions[r] \in Seq(Recorded), NEW d \in Recorded,
         decisions'[r] = Append(decisions[r], d)
  PROVE  /\ decisions'[r] \in Seq(Recorded)
         /\ LeftOut(r)' => LeftOut(r) \/ d.act = "EXCLUDE"
<1>1. decisions'[r] \in Seq(Recorded)
  OBVIOUS
<1>2. \A i \in DOMAIN decisions'[r] :
        \/ i \in DOMAIN decisions[r] /\ decisions'[r][i] = decisions[r][i]
        \/ decisions'[r][i] = d
  OBVIOUS
<1>3. Hand(decisions'[r], "EXCLUDE") # {} => Hand(decisions[r], "EXCLUDE") # {} \/ d.act = "EXCLUDE"
  BY <1>2 DEF Hand
<1> QED BY <1>1, <1>3, NoneAssumption DEF LeftOut, ByHand, Said

\* The rows a handler decides on get a decision of an engineer, the others keep theirs.
LEMMA DecideKeeps ==
  ASSUME Kept, NEW w \in Workers, work[w] # None,
         work[w].stage \in {"checked", "confirmed", "agreed"}, Decide(w)
  PROVE  /\ decisions' \in [Rows -> Seq(Recorded)]
         /\ \A r \in Rows :
              /\ r \notin DOMAIN work[w].shown => decisions'[r] = decisions[r]
              /\ LeftOut(r)' => LeftOut(r) \/ (r \in DOMAIN work[w].shown /\ work[w].by.act = "EXCLUDE")
<1> DEFINE d(r) == [act |-> work[w].by.act, value |-> work[w].by.value,
                    by |-> "ENGINEER", onto |-> work[w].shown[r]]
<1>1. /\ decisions \in [Rows -> Seq(Recorded)]
      /\ work[w].by \in Correction /\ \A r \in Rows \cap DOMAIN work[w].shown : work[w].shown[r] \in Nat
  BY DEF Kept, Ledger, Deciding
<1>2. \A r \in Rows : r \in DOMAIN work[w].shown => d(r) \in Recorded /\ d(r).act = work[w].by.act
  BY <1>1 DEF Recorded, Correction
<1>3. decisions' = [r \in Rows |-> IF r \in DOMAIN work[w].shown THEN Append(decisions[r], d(r)) ELSE decisions[r]]
  BY DEF Decide
<1> HIDE DEF d
<1>4. ASSUME NEW r \in Rows
      PROVE  /\ decisions'[r] \in Seq(Recorded)
             /\ r \notin DOMAIN work[w].shown => decisions'[r] = decisions[r]
             /\ LeftOut(r)' => LeftOut(r) \/ (r \in DOMAIN work[w].shown /\ work[w].by.act = "EXCLUDE")
  <2>1. CASE r \in DOMAIN work[w].shown
    <3>1. decisions'[r] = Append(decisions[r], d(r))
      BY <1>3, <2>1
    <3> QED
      BY <1>1, <1>2, <2>1, <3>1, Appended
  <2>2. CASE r \notin DOMAIN work[w].shown
    BY <1>1, <1>3, <2>2 DEF LeftOut
  <2> QED
    BY <2>1, <2>2
<1> QED
  BY <1>3, <1>4

LEMMA WritesKept ==
  ASSUME Inv, Kept, NEW w \in Workers, Writes(w)
  PROVE  Kept'
<1>s. /\ row \in [Rows -> RowState]
      /\ work[w] # None => Deciding(work[w]) /\ Handler(work[w]) /\ Rechecking(work[w])
      /\ decisions \in [Rows -> Seq(Recorded)]
      /\ \A r \in Rows : row[r].revision \in Nat /\ (LeftOut(r) => row[r].inclusion = "EXCLUDED")
  BY DEF Inv, Shape, Handlers, Kept, Ledger, RechecksHold, ExclusionHolds, RowState
<1>r. row' \in [Rows -> RowState] /\ \A r \in Rows : row'[r].attempt = row[r].attempt
  BY WritesRows
<1>u. rules' \in RuleSets /\ UNCHANGED <<batch, screen, attempt>>
  BY DEF Writes, Write, Confirm, OverlayWrite, WriteVerify, Recheck, Kept, Ledger
<1> DEFINE Next1(t) == Goes(w, t) /\ (t # None => Deciding(t) /\ (t.stage = "rechecking" => Good(t)))
<1> SUFFICES \E S : \E t : Revising(S) /\ decisions' \in [Rows -> Seq(Recorded)] /\ Next1(t)
  BY <1>u, KeptByHandler
<1>1. CASE Write(w) \/ Confirm(w) \/ WriteVerify(w)
  <2> DEFINE S == DOMAIN work[w].shown
  <2>1. /\ work[w] # None /\ work[w].stage \in {"checked", "confirmed", "agreed"}
        /\ Decide(w) /\ Wrote(S)
    BY <1>1 DEF Write, Confirm, WriteVerify, At
  <2>2. /\ decisions' \in [Rows -> Seq(Recorded)]
        /\ \A r \in Rows :
              /\ r \notin S => decisions'[r] = decisions[r]
              /\ LeftOut(r)' => LeftOut(r) \/ (r \in S /\ work[w].by.act = "EXCLUDE")
    BY <2>1, DecideKeeps
  <2>3. ASSUME NEW r \in Rows
        PROVE  /\ r \notin S => row'[r] = row[r]
               /\ r \in S => /\ row'[r].revision = row[r].revision + 1
                             /\ row[r].inclusion = "EXCLUDED" \/ work[w].by.act = "EXCLUDE"
                                  => row'[r].inclusion = "EXCLUDED"
    <3>1. CASE Write(w)
      <4>1. row'[r] = IF r \in S THEN Corrected(row[r], work[w].by.act) ELSE row[r]
        BY <3>1 DEF Write
      <4> QED
        BY <4>1, <1>s, CorrectedRow
    <3>2. CASE Confirm(w)
      <4>1. row'[r] = IF r \in S THEN Revised(row[r], work[w].seen[r]) ELSE row[r]
        BY <3>2 DEF Confirm
      <4>2. (r \in S => work[w].seen[r] \in Statuses) /\ work[w].by.act # "EXCLUDE"
        BY <3>2, <1>s DEF Confirm, At, Handler, Rated, Deciding
      <4> QED
        BY <4>1, <4>2, <1>s, RevisedRow
    <3>3. CASE WriteVerify(w)
      <4> DEFINE status == IF work[w].by.act = "MATCH" THEN work[w].seen[r] ELSE row[r].status
      <4>1. row'[r] = IF r \notin S THEN row[r] ELSE Revised(row[r], status)
        BY <3>3 DEF WriteVerify
      <4>2. (r \in S => status \in Statuses) /\ work[w].by.act # "EXCLUDE"
        BY <3>3, <1>s DEF WriteVerify, At, Handler, Rated, Deciding, RowState
      <4> HIDE DEF status
      <4> QED
        BY <4>1, <4>2, <1>s, RevisedRow
    <3> QED
      BY <1>1, <3>1, <3>2, <3>3
  <2> HIDE DEF S
  <2>4. Staging(S)
    BY <1>r, <1>u, <2>1, <2>3 DEF Staging
  <2>5. \A r \in Rows : row[r].revision <= row'[r].revision /\ (r \in S => row[r].revision < row'[r].revision)
    BY <1>s, <2>3
  <2>6. Revising(S)
    BY <1>s, <2>1, <2>2, <2>3, <2>4, <2>5 DEF Revising
  <2>7. \E t : Goes(w, t) /\ (t = None \/ t.stage \in {"written", "matched", "reread"})
    BY <1>1 DEF Write, Confirm, WriteVerify, Ends
  <2>8. \E t : Next1(t)
    BY <2>7 DEF Deciding
  <2> QED
    BY <2>2, <2>6, <2>8
<1>2. CASE OverlayWrite(w)
  <2> DEFINE S == DOMAIN work[w].seen
  <2>1. /\ row' = [r \in Rows |-> IF r \in S THEN [row[r] EXCEPT !.status = work[w].seen[r]] ELSE row[r]]
        /\ Wrote(S) /\ decisions' = decisions
        /\ Goes(w, [stage |-> "reread", rows |-> S, pending |-> TRUE])
    BY <1>2 DEF OverlayWrite
  <2> HIDE DEF S
  <2>2. \A r \in Rows : /\ row'[r].revision = row[r].revision /\ row'[r].inclusion = row[r].inclusion
                        /\ r \notin S => row'[r] = row[r]
    BY <2>1, <1>s DEF RowState
  <2>3. Staging(S)
    BY <1>r, <1>u, <2>1, <2>2 DEF Staging
  <2>4. \A r \in Rows : row[r].revision <= row'[r].revision /\ (LeftOut(r)' => row'[r].inclusion = "EXCLUDED")
    <3> TAKE r \in Rows
    <3>1. LeftOut(r)' = LeftOut(r)
      BY <2>1 DEF LeftOut
    <3> QED
      BY <1>s, <2>2, <3>1
  <2>5. Revising(S)
    BY <2>1, <2>3, <2>4 DEF Revising
  <2> DEFINE t == [stage |-> "reread", rows |-> S, pending |-> TRUE]
  <2>6. Goes(w, t) /\ t.stage = "reread"
    BY <2>1
  <2> HIDE DEF t
  <2>7. Next1(t)
    BY <2>6 DEF Deciding
  <2> QED
    BY <1>s, <2>1, <2>5, <2>7
<1>3. ASSUME NEW r \in Rows, Recheck(w, r)
      PROVE  \E S : \E t : Revising(S) /\ decisions' \in [Rows -> Seq(Recorded)] /\ Next1(t)
  <2> DEFINE rest == Restrict(work[w].seen, DOMAIN work[w].seen \ {r})
  <2>0. /\ Noted(work[w].seen) /\ work[w].stage = "rechecking" /\ r \in DOMAIN work[w].seen
        /\ work[w] \in [stage : {"rechecking"}, checked : BOOLEAN, seen : {work[w].seen}]
        /\ Good(work[w])
    BY <1>3, <1>s DEF Recheck, At, Handler, Rechecking, Good
  <2>1. /\ DOMAIN rest \subseteq DOMAIN work[w].seen
        /\ \A p \in DOMAIN rest : rest[p] = work[w].seen[p]
    BY DEF Restrict
  <2>g. \A t : t.seen = rest => Good(t)
    BY <2>0, <2>1 DEF Good, Noted
  <2>2. decisions' = decisions
    BY <1>3 DEF Recheck
  <2>3. CASE Unrevised(w, r)
    <3>1. /\ row' = [row EXCEPT ![r].inclusion = work[w].seen[r].inclusion,
                                ![r].status = work[w].seen[r].status, ![r].recheck = FALSE]
          /\ Wrote({r}) /\ Goes(w, [work[w] EXCEPT !.seen = rest, !.checked = TRUE])
      BY <1>3, <2>3 DEF Recheck
    <3> HIDE DEF rest
    <3>2. /\ row'[r].revision = row[r].revision /\ row'[r].inclusion = work[w].seen[r].inclusion
          /\ \A p \in Rows : p # r => row'[p] = row[p]
      BY <3>1, <1>s DEF RowState
    <3>3. LeftOut(r) => row'[r].inclusion = "EXCLUDED"
      BY <2>0, <2>3, <3>2 DEF Good, Unrevised
    <3>4. Staging({r})
      BY <1>r, <1>u, <3>1, <3>2 DEF Staging
    <3>5. ASSUME NEW p \in Rows
          PROVE  row[p].revision <= row'[p].revision /\ (LeftOut(p)' => row'[p].inclusion = "EXCLUDED")
      <4>1. LeftOut(p)' = LeftOut(p)
        BY <2>2 DEF LeftOut
      <4> QED
        BY <1>s, <3>2, <3>3, <4>1
    <3>6. Revising({r})
      BY <2>2, <3>4, <3>5 DEF Revising
    <3> DEFINE t == [work[w] EXCEPT !.seen = rest, !.checked = TRUE]
    <3>7. t.stage = "rechecking" /\ t.seen = rest
      BY <2>0
    <3>8. Goes(w, t)
      BY <3>1
    <3> HIDE DEF t
    <3>9. Next1(t)
      BY <2>g, <3>7, <3>8 DEF Deciding
    <3> QED
      BY <1>s, <2>2, <3>6, <3>9
  <2>4. CASE ~Unrevised(w, r)
    <3>1. row' = row /\ request' = request /\ Goes(w, [work[w] EXCEPT !.seen = rest])
      BY <1>3, <2>4 DEF Recheck
    <3>2. Staging({})
      BY <1>r, <1>u, <3>1 DEF Staging
    <3>3. Revising({})
      BY <1>s, <2>2, <3>1, <3>2 DEF Revising, LeftOut
    <3> DEFINE t == [work[w] EXCEPT !.seen = rest]
    <3>7. t.stage = "rechecking" /\ t.seen = rest
      BY <2>0
    <3>8. Goes(w, t)
      BY <3>1
    <3> HIDE DEF t
    <3>9. Next1(t)
      BY <2>g, <3>7, <3>8 DEF Deciding
    <3> QED
      BY <1>s, <2>2, <3>3, <3>9
  <2> QED
    BY <2>3, <2>4
<1> QED
  BY <1>1, <1>2, <1>3 DEF Writes

-----------------------------------------------------------------------------
(* The steps of publication.                                                *)

\* A row that is published, and nothing else of it: it stays worth the same.
LEMMA PublishedSame ==
  ASSUME NEW r, decisions' = decisions, row'[r].revision = row[r].revision,
         row'[r].inclusion = row[r].inclusion
  PROVE  /\ \A k : Pinned(k) /\ screen'[k] = screen[k] /\ screen[k] # None /\ r \in Rows =>
              /\ screen'[k].print.rows[r][2] \in Nat
              /\ screen'[k].print.rows[r][2] <= row'[r].revision
              /\ screen'[k].print.rows[r][2] = row'[r].revision => Told(screen'[k].showed[r], decisions'[r])
         /\ ExclusionHolds /\ r \in Rows => (LeftOut(r)' => row'[r].inclusion = "EXCLUDED")
BY DEF Pinned, ExclusionHolds, LeftOut

\* The rows keep their revisions, their inclusion and their decisions.
LEMMA UnrevisedKeeps ==
  ASSUME Kept, rules' \in RuleSets, UNCHANGED <<decisions, work>>,
         \A r \in Rows : row'[r].revision = row[r].revision /\ row'[r].inclusion = row[r].inclusion,
         \A w \in Workers : work[w] # None => Handler(work[w])
  PROVE  Ledger' /\ ExclusionHolds' /\ RechecksHold'
<1>1. Ledger'
  BY DEF Kept, Ledger, Deciding
<1>2. ExclusionHolds'
  BY PublishedSame DEF Kept, ExclusionHolds
<1>3. RechecksHold'
  <2> SUFFICES ASSUME NEW w \in Workers, work[w] # None, work[w].stage = "rechecking",
                      NEW r \in DOMAIN work[w].seen
               PROVE  /\ work[w].seen[r].revision <= row'[r].revision
                      /\ work[w].seen[r].revision = row'[r].revision /\ LeftOut(r)'
                           => work[w].seen[r].inclusion = "EXCLUDED"
    BY DEF RechecksHold, Rechecking
  <2>1. r \in Rows
    BY DEF Handler, Noted
  <2>2. LeftOut(r)' = LeftOut(r)
    BY DEF LeftOut
  <2> QED
    BY <2>1, <2>2 DEF Kept, RechecksHold, Rechecking
<1> QED
  BY <1>1, <1>2, <1>3

LEMMA ReviewKept ==
  ASSUME Inv, Kept, NEW k \in Keys, Review(k)
  PROVE  Kept'
<1>1. PICK mode, auto, chosen :
        screen' = [screen EXCEPT ![k] =
            [print |-> Fingerprint, mode |-> mode, auto |-> auto, chosen |-> chosen,
             showed |-> [r \in Rows |-> OutcomeOf(r)]]]
  BY DEF Review
<1> DEFINE qa == [print |-> Fingerprint, mode |-> mode, auto |-> auto, chosen |-> chosen,
                  showed |-> [r \in Rows |-> OutcomeOf(r)]]
<1>u. screen[k] = None /\ UNCHANGED <<batch, row, decisions, rules, work, request, attempt>>
  BY DEF Review, staged
<1>2. \A j \in Keys : screen'[j] = IF j = k THEN qa ELSE screen[j]
  BY <1>1 DEF Inv, Shape
<1>3. \A r \in Rows : qa.print.rows[r][2] = row[r].revision /\ Told(qa.showed[r], decisions[r])
  BY OutcomeTold DEF Fingerprint, Kept, Ledger
<1>q. \A r \in Rows : row[r].revision \in Nat
  BY DEF Inv, Shape, RowState
<1>4. Ledger' /\ ExclusionHolds' /\ RechecksHold'
  BY <1>u, UnrevisedKeeps DEF Inv, Shape, Handlers, Kept, Ledger
<1>n. ~Used(k)
  BY <1>u DEF Kept, Shows
<1> HIDE DEF qa
<1>5. PublishedAsShown' /\ ExcludedStaysOut'
  <2> SUFFICES ASSUME NEW j \in Keys, NEW r \in DOMAIN attempt[j]
               PROVE  RulesApart(screen'[j].showed[r], attempt[j][r]) /\ attempt[j][r].excluded # "ENGINEER"
    BY <1>u DEF PublishedAsShown, ExcludedStaysOut, Inv, Shape
  <2>1. j # k
    BY <1>n DEF Used
  <2> QED
    BY <1>2, <2>1 DEF Kept, PublishedAsShown, ExcludedStaysOut, Inv, Shape
<1>6. ASSUME NEW j \in Keys PROVE (Pinned(j) /\ (Used(j) => screen[j] # None))'
  <2>1. CASE j = k
    <3>1. Pinned(j)'
      <4> SUFFICES ASSUME screen'[j] # None, NEW r \in Rows
                   PROVE  /\ screen'[j].print.rows[r][2] \in Nat
                          /\ screen'[j].print.rows[r][2] <= row'[r].revision
                          /\ Told(screen'[j].showed[r], decisions'[r])
        BY DEF Pinned
      <4> QED
        BY <1>u, <1>2, <1>3, <1>q, <2>1
    <3> QED
      BY <1>u, <1>n, <2>1, <3>1 DEF Used
  <2>2. CASE j # k
    <3>1. screen'[j] = screen[j] /\ Pinned(j) /\ (Used(j) => screen[j] # None)
      BY <1>2, <2>2 DEF Kept, Shows
    <3>2. Pinned(j)'
      BY <1>u, <3>1, PublishedSame DEF Pinned
    <3> QED
      BY <1>u, <3>1, <3>2 DEF Used
  <2> QED
    BY <2>1, <2>2
<1>7. ASSUME NEW q \in Requests, request'[q] # None PROVE OpenShows(request[q])'
  <2>1. OpenShows(request[q]) /\ Publication(request[q])
    BY <1>u, <1>7 DEF Kept, Shows, Inv, Shape, Publications
  <2>2. request[q].key \in Keys /\ screen'[request[q].key] = screen[request[q].key]
    BY <1>u, <1>2, <2>1 DEF OpenShows, Publication
  <2> QED
    BY <1>u, <2>1, <2>2 DEF OpenShows, ResolvedBy
<1> QED
  BY <1>4, <1>5, <1>6, <1>7 DEF Kept, Shows

\* A publication that ends, or is replaced by one that shows what it will write.
LEMMA RequestKept ==
  ASSUME Inv, Kept, NEW q \in Requests, NEW t, t # None => OpenShows(t),
         request' = [request EXCEPT ![q] = t],
         UNCHANGED <<row, decisions, rules, work, screen, attempt>>
  PROVE  Kept'
<1>1. Ledger' /\ ExclusionHolds' /\ RechecksHold'
  BY UnrevisedKeeps DEF Inv, Shape, Handlers, Kept, Ledger
<1>2. PublishedAsShown' /\ ExcludedStaysOut'
  BY DEF Kept, PublishedAsShown, ExcludedStaysOut
<1>3. ASSUME NEW k \in Keys PROVE (Pinned(k) /\ (Used(k) => screen[k] # None))'
  <2>1. Pinned(k) /\ (Used(k) => screen[k] # None)
    BY DEF Kept, Shows
  <2>2. Pinned(k)'
    BY <2>1, PublishedSame DEF Pinned
  <2> QED
    BY <2>1, <2>2 DEF Used
<1>4. ASSUME NEW p \in Requests, request'[p] # None PROVE OpenShows(request[p])'
  <2>1. request'[p] = t \/ request'[p] = request[p]
    BY DEF Inv, Shape
  <2>2. OpenShows(request'[p])
    BY <1>4, <2>1 DEF Kept, Shows
  <2> QED
    BY <2>2 DEF OpenShows, ResolvedBy
<1> QED
  BY <1>1, <1>2, <1>3, <1>4 DEF Kept, Shows

\* The transaction that opens has checked the fingerprint.
LEMMA SnapshotShows ==
  ASSUME Inv, Kept, NEW q \in Requests, request[q] # None, request[q].stage = "posted",
         screen[request[q].key] # None, Fresh(request[q].key), Chosen(request[q].key)
  PROVE  OpenShows(Snapshot(request[q].key))
<1> DEFINE k == request[q].key
           S == IF screen[k].chosen = None THEN Eligible(screen[k].mode) ELSE screen[k].chosen
<1>1. k \in Keys
  BY DEF Inv, Shape, Publications, Publication
<1>d. decisions \in [Rows -> Seq(Recorded)]
  BY DEF Kept, Ledger
<1>2. \A r \in S : r \in Rows /\ Pending(r) /\ ~Blocked(r)
  BY DEF Eligible, Chosen, Candidates
<1>r. \A r \in S : ResolvedBy(OutcomeOf(r), r) /\ Told(OutcomeOf(r), decisions[r])
  BY <1>d, <1>2, Resolved, OutcomeTold DEF Pending
<1>3. \A r \in Rows : Told(screen[k].showed[r], decisions[r])
  <2>1. \A r \in Rows : screen[k].print.rows[r][2] = row[r].revision
    BY DEF Fresh, Fingerprint
  <2> QED
    BY <1>1, <2>1 DEF Kept, Shows, Pinned
<1>4. /\ Snapshot(k).key = k /\ Snapshot(k).rows = S
      /\ Snapshot(k).writes = [r \in S |-> OutcomeOf(r)]
  BY DEF Snapshot
<1> HIDE DEF S
<1> QED
  BY <1>2, <1>r, <1>3, <1>4 DEF OpenShows

LEMMA PublishesKept ==
  ASSUME Inv, Kept, NEW q \in Requests, Publishes(q)
  PROVE  Kept'
<1>u. UNCHANGED <<row, decisions, rules, work, screen, attempt>>
  BY DEF Publishes, Post, Open, Rollback, staged
<1>0. request = [request EXCEPT ![q] = request[q]] /\ (request[q] # None => OpenShows(request[q]))
  BY DEF Inv, Shape, Kept, Shows
<1>1. ASSUME NEW k \in Keys, Post(q, k) PROVE Kept'
  <2>1. CASE request' = request
    BY <1>u, <1>0, <2>1, RequestKept
  <2> DEFINE t == [stage |-> "posted", key |-> k]
  <2>2. CASE request' = [request EXCEPT ![q] = t]
    <3>1. screen[k] # None /\ t.key = k /\ t.stage = "posted"
      BY <1>1 DEF Post
    <3> HIDE DEF t
    <3>2. OpenShows(t)
      BY <3>1 DEF OpenShows
    <3> QED
      BY <1>u, <2>2, <3>2, RequestKept
  <2> QED
    BY <1>1, <2>1, <2>2 DEF Post
<1>2. CASE request' = [request EXCEPT ![q] = None]
  BY <1>u, <1>2, RequestKept
<1>3. CASE /\ request[q] # None /\ request[q].stage = "posted" /\ Fresh(request[q].key)
           /\ Chosen(request[q].key) /\ request' = [request EXCEPT ![q] = Snapshot(request[q].key)]
  <2>1. screen[request[q].key] # None
    BY <1>0, <1>3 DEF OpenShows
  <2> QED
    BY <1>u, <1>3, <2>1, SnapshotShows, RequestKept
<1> QED
  BY <1>1, <1>2, <1>3 DEF Publishes, Open, Rollback

LEMMA CommitKept ==
  ASSUME Inv, Kept, NEW q \in Requests, Commit(q)
  PROVE  Kept'
<1> DEFINE t == request[q]
<1>1. /\ t.key \in Keys /\ t.rows \subseteq Rows /\ DOMAIN t.writes = t.rows
      /\ \A r \in t.rows : Pending(r)
      /\ screen[t.key] # None
      /\ \A r \in t.rows : Told(t.writes[r], decisions[r]) /\ Told(screen[t.key].showed[r], decisions[r])
  BY DEF Commit, MayCommit, Inv, OpenStands, Open1, Shape, Publications, Publication, Kept, Shows, OpenShows
<1>2. /\ row' = [r \in Rows |-> IF r \in t.rows THEN [row[r] EXCEPT !.attempt = t.key] ELSE row[r]]
      /\ attempt' = [attempt EXCEPT ![t.key] = t.writes]
      /\ UNCHANGED <<decisions, rules, work, screen>>
  BY DEF Commit
<1>3. \A r \in Rows : row'[r].revision = row[r].revision /\ row'[r].inclusion = row[r].inclusion
  BY <1>2 DEF Inv, Shape, RowState
<1>4. \A k \in Keys : attempt'[k] = IF k = t.key THEN t.writes ELSE attempt[k]
  BY <1>2 DEF Inv, Shape
<1>5. Ledger' /\ ExclusionHolds' /\ RechecksHold'
  BY <1>2, <1>3, UnrevisedKeeps DEF Inv, Shape, Handlers, Kept, Ledger
<1>6. PublishedAsShown' /\ ExcludedStaysOut'
  <2> SUFFICES ASSUME NEW k \in Keys, NEW r \in DOMAIN attempt'[k]
               PROVE  RulesApart(screen[k].showed[r], attempt'[k][r]) /\ attempt'[k][r].excluded # "ENGINEER"
    BY <1>2 DEF PublishedAsShown, ExcludedStaysOut, Inv, Shape
  <2>1. CASE k = t.key
    <3>1. attempt'[k] = t.writes /\ r \in t.rows
      BY <1>1, <1>4, <2>1
    <3>2. ~LeftOut(r)
      BY <1>1, <3>1 DEF Kept, ExclusionHolds, Pending
    <3>3. t.writes[r].excluded # "ENGINEER"
      BY <1>1, <3>1, <3>2 DEF Told, LeftOut
    <3> QED
      BY <1>1, <2>1, <3>1, <3>3, ToldApart
  <2>2. CASE k # t.key
    BY <1>4, <2>2 DEF Kept, PublishedAsShown, ExcludedStaysOut, Inv, Shape
  <2> QED
    BY <2>1, <2>2
<1>7. ASSUME NEW k \in Keys PROVE (Pinned(k) /\ (Used(k) => screen[k] # None))'
  <2>1. Pinned(k) /\ (Used(k) => screen[k] # None)
    BY DEF Kept, Shows
  <2>2. Pinned(k)'
    BY <1>2, <1>3, <2>1, PublishedSame DEF Pinned
  <2> QED
    BY <1>1, <1>2, <1>4, <2>1, <2>2 DEF Used
<1>8. ASSUME NEW p \in Requests, request'[p] # None PROVE OpenShows(request[p])'
  <2>1. \/ request'[p] = request[p] /\ request[p].stage # "open"
        \/ request[p] # None /\ request[p].stage = "open" /\ request'[p] = [request[p] EXCEPT !.doomed = TRUE]
    BY <1>8 DEF Commit
  <2>2. Publication(request[p]) /\ OpenShows(request[p])
    BY <1>8, <2>1 DEF Inv, Shape, Publications, Kept, Shows
  <2>3. request'[p].key = request[p].key /\ (request'[p].stage # "open" \/ request'[p].doomed)
    BY <2>1, <2>2 DEF Publication
  <2> QED
    BY <1>2, <2>2, <2>3 DEF OpenShows
<1> QED
  BY <1>5, <1>6, <1>7, <1>8 DEF Kept, Shows

LEMMA KeptStep ==
  ASSUME Inv, Kept, [Next]_vars
  PROVE  Kept'
<1>1. ASSUME NEW w \in Workers, Correct(w) \/ Verify(w) \/ Maintain(w) \/ Remove(w) PROVE Kept'
  BY <1>1, LooksKept, WritesKept DEF Correct, Verify, Maintain, Remove, Looks, Writes
<1>2. CASE ChangeRules \/ UNCHANGED vars
  <2>1. UNCHANGED <<row, decisions, work, screen, request, attempt>> /\ rules' \in RuleSets
    BY <1>2 DEF ChangeRules, staged, publishing, vars, Kept, Ledger
  <2>2. Ledger' /\ ExclusionHolds' /\ RechecksHold'
    BY <2>1, UnrevisedKeeps DEF Inv, Shape, Handlers
  <2>3. PublishedAsShown' /\ ExcludedStaysOut'
    BY <2>1 DEF Kept, PublishedAsShown, ExcludedStaysOut
  <2>5. Shows'
    BY <2>1 DEF Kept, Shows, Pinned, OpenShows, ResolvedBy, Used
  <2> QED
    BY <2>2, <2>3, <2>5 DEF Kept
<1>3. ASSUME NEW k \in Keys, Review(k) PROVE Kept'
  BY <1>3, ReviewKept
<1>4. ASSUME NEW q \in Requests, Publishes(q) PROVE Kept'
  BY <1>4, PublishesKept
<1>5. ASSUME NEW q \in Requests, Commit(q) PROVE Kept'
  BY <1>5, CommitKept
<1> QED
  BY <1>1, <1>2, <1>3, <1>4, <1>5 DEF Next, Publishes

LEMMA KeptAlways == Spec => [](Inv /\ Kept)
<1>1. Inv /\ Kept /\ [Next]_vars => (Inv /\ Kept)'
  BY InvStep, KeptStep
<1> QED
  BY InitInv, InitKept, <1>1, PTL DEF Spec

\* What a key published of a row is, but for what rules decided, what the QA
\* behind it showed, written once: however corrections, bulk verification,
\* automation, rechecks, other publications and crashes interleave with it, a
\* row that an engineer changed is refused.
THEOREM PublishedAsConfirmed == Spec => []RowsArePublishedAsShown
<1>1. Inv /\ Kept => RowsArePublishedAsShown
  BY DEF Inv, Kept, RowsArePublishedAsShown
<1> QED
  BY KeptAlways, <1>1, PTL

\* The decision of an engineer to leave a row out reaches publications through
\* the row: no recheck that was reading meanwhile puts the row back, whatever
\* rules decide on it.
THEOREM LeftOutForGood == Spec => []ExcludedStaysOut
<1>1. Inv /\ Kept => ExcludedStaysOut
  BY DEF Kept
<1> QED
  BY KeptAlways, <1>1, PTL

\* The commit of a publication writes each row with what engineers decided on it
\* at that instant, and only rows that are included, unpublished and rechecked;
\* those on which rules say the same as in its snapshot need no review.
THEOREM CommitsAreCurrent == Spec => PublicationsAreCurrent
<1>1. Inv /\ Kept /\ [Next]_vars => [CommitIsCurrent]_vars
  <2> SUFFICES ASSUME Inv, Kept, [Next]_vars PROVE CommitIsCurrent
    OBVIOUS
  <2>1. ASSUME NEW q \in Requests, Commit(q) PROVE CommitIsCurrent
    <3> DEFINE t == request[q]
    <3>1. /\ t.key \in Keys /\ t.rows \subseteq Rows /\ DOMAIN t.writes = t.rows /\ ~Used(t.key)
          /\ \A r \in t.rows : Pending(r) /\ ~row[r].recheck
          /\ \A r \in t.rows : Told(t.writes[r], decisions[r]) /\ ResolvedBy(t.writes[r], r)
      BY <2>1 DEF Commit, MayCommit, Inv, OpenStands, Open1, Shape, Publications, Publication,
         Kept, Shows, OpenShows
    <3>2. ASSUME NEW r \in t.rows
          PROVE  /\ RulesApart(t.writes[r], OutcomeOf(r)) /\ r \notin Ambiguous
                 /\ t.writes[r] = OutcomeOf(r) => Recomputed(r) # "NEEDS_REVIEW"
      <4>1. r \in Rows /\ decisions[r] \in Seq(Recorded) /\ row[r].inclusion = "INCLUDED"
        BY <3>1 DEF Kept, Ledger, Pending
      <4>2. Told(OutcomeOf(r), decisions[r])
        BY <4>1, OutcomeTold
      <4>3. RulesApart(t.writes[r], OutcomeOf(r))
        BY <3>1, <4>2, ToldApart
      <4> QED
        BY <3>1, <4>1, <4>3, Resolved DEF ResolvedBy
    <3>3. \A k \in Keys : attempt'[k] = IF k = t.key THEN t.writes ELSE attempt[k]
      BY <2>1 DEF Commit, Inv, Shape
    <3> HIDE DEF t
    <3> QED
      BY <3>1, <3>2, <3>3 DEF CommitIsCurrent, Inv, Shape
  <2>2. CASE attempt' = attempt
    BY <2>2 DEF CommitIsCurrent
  <2>3. ASSUME NEW w \in Workers, Correct(w) \/ Verify(w) \/ Maintain(w) \/ Remove(w)
        PROVE  attempt' = attempt
    BY <2>3, LooksStage, WritesStage
       DEF Correct, Verify, Maintain, Remove, Looks, Writes, Staging
  <2>4. ChangeRules \/ UNCHANGED vars \/ (\E k \in Keys : Review(k))
          \/ (\E q \in Requests : Publishes(q)) => attempt' = attempt
    BY DEF ChangeRules, vars, publishing, Review, Publishes, Post, Open, Rollback
  <2> QED
    BY <2>1, <2>2, <2>3, <2>4 DEF Next, Publishes
<1> QED
  BY KeptAlways, <1>1, PTL DEF Spec, PublicationsAreCurrent
-----------------------------------------------------------------------------
(* One handler at a time, with rules that decide: what it knows of the rows *)
(* stays true, and what it has not looked at yet it will.                   *)

TakesTurns == ~Losses /\ \A v, w \in Workers : v = w

\* What the handler has read of the rows is what they are.
Turn(t) ==
  /\ t.stage \in {"previewed", "checked", "confirmed", "planned", "agreed"} => t.by \in Correction
  /\ t.stage \in {"checked", "confirmed", "agreed"} =>
       \A r \in Rows \cap DOMAIN t.shown : t.shown[r] = row[r].revision
  /\ t.stage = "confirmed" => t.by.act = "MATCH"
  /\ t.stage \in {"planned", "agreed"} => t.by.act \in {"MATCH", "VERIFY"}
  /\ t.stage \in {"confirmed", "planned", "agreed"} /\ t.by.act = "MATCH" =>
       \A r \in Rows \cap DOMAIN t.seen : t.seen[r] = Matched(r)
  /\ t.stage = "overlaid" => \A r \in DOMAIN t.seen : t.seen[r] = Overlaid(r)
  /\ t.stage = "rechecking" =>
       \A r \in DOMAIN t.seen :
         t.seen[r] = [revision |-> row[r].revision, status |-> Recomputed(r),
                      inclusion |-> IF IsExcluded(r) THEN "EXCLUDED" ELSE "INCLUDED"]
  /\ t.stage \in {"clearing", "creating"} =>
       /\ t.only \in BOOLEAN
       /\ t.gone \in [Rows -> SUBSET (Act \X (Values \cup {None}))]
       /\ t.fresh \in [Rows -> SUBSET (Act \X (Values \cup {None}))]

\* The row shows what its decisions make of it, or waits for a recheck; what
\* it may repeat counts only once it is recomputed.
Judged(r) == StatusOf(r, IsExcluded(r), UnmatchedStill(r), FALSE)
Current(r) ==
  /\ row[r].status = Recomputed(r) \/ (r \in Ambiguous /\ row[r].status = Judged(r))
  /\ IsExcluded(r) => row[r].inclusion = "EXCLUDED"
Settled(r) == row[r].recheck \/ Current(r)

\* The handler is about to look at the row again.
Due(t, r) ==
  \/ t.stage = "creating" /\ (t.gone[r] # {} \/ t.fresh[r] # {})
  \/ t.stage = "reread" /\ ~t.pending /\ r \in t.rows
  \/ t.stage = "rechecking" /\ r \in DOMAIN t.seen

\* The decisions of engineers on a row were made on different revisions of it,
\* which it has left behind.
Chained(r) ==
  \A i \in DOMAIN decisions[r] : decisions[r][i].by = "ENGINEER" =>
    /\ decisions[r][i].onto < row[r].revision
    /\ \A j \in DOMAIN decisions[r] :
         decisions[r][j].by = "ENGINEER" /\ decisions[r][j].onto = decisions[r][i].onto => j = i

Turns ==
  /\ rules \in RuleSets
  /\ decisions \in [Rows -> Seq(Recorded)]
  /\ \A r \in Rows : Chained(r)
  /\ \A w \in Workers : work[w] # None => batch # None /\ Turn(work[w])
  /\ \A r \in Rows : Settled(r) \/ \E w \in Workers : work[w] # None /\ Due(work[w], r)

\* What a row is worth rests on its decisions and its inclusion.
LEMMA SameSight ==
  ASSUME NEW r, decisions'[r] = decisions[r], row'[r].inclusion = row[r].inclusion
  PROVE  /\ IsExcluded(r)' = IsExcluded(r) /\ Recomputed(r)' = Recomputed(r) /\ Judged(r)' = Judged(r)
         /\ row'[r].recheck = row[r].recheck => Matched(r)' = Matched(r) /\ Overlaid(r)' = Overlaid(r)
<1>1. \A act : Made(r, act)' = Made(r, act)
  BY DEF Made
<1>2. SaidBy(r, "MATCH")' = SaidBy(r, "MATCH") /\ Dismissed(r)' = Dismissed(r)
  BY <1>1 DEF SaidBy, Dismissed
<1>3. IsExcluded(r)' = IsExcluded(r) /\ UnmatchedStill(r)' = UnmatchedStill(r)
  BY <1>2 DEF IsExcluded, UnmatchedStill
<1>4. \A s : Active(r, s)' = Active(r, s)
  BY <1>1, <1>3 DEF Active
<1>5. Recomputed(r)' = Recomputed(r) /\ Judged(r)' = Judged(r)
  BY <1>3, <1>4 DEF Recomputed, Judged, StatusOf
<1>6. row'[r].recheck = row[r].recheck => Matched(r)' = Matched(r) /\ Overlaid(r)' = Overlaid(r)
  BY <1>3, <1>4 DEF Matched, Overlaid, StatusOf
<1> QED BY <1>3, <1>5, <1>6

LEMMA SameSettled ==
  ASSUME NEW r, decisions'[r] = decisions[r], row'[r].inclusion = row[r].inclusion,
         row'[r].recheck = row[r].recheck, row'[r].status = row[r].status
  PROVE  Settled(r)' = Settled(r)
BY SameSight DEF Settled, Current

LEMMA SameChain ==
  ASSUME NEW r, Chained(r), decisions'[r] = decisions[r], row'[r].revision = row[r].revision
  PROVE  Chained(r)'
BY DEF Chained

LEMMA InitTurns == Init => Turns
<1> SUFFICES ASSUME Init PROVE Turns
  OBVIOUS
<1>1. rules \in RuleSets /\ decisions \in [Rows -> Seq(Recorded)] /\ \A w \in Workers : work[w] = None
  BY DEF Init
<1>2. ASSUME NEW r \in Rows PROVE Chained(r) /\ Settled(r)
  <2>1. decisions[r] = <<>> /\ row[r].inclusion = "INCLUDED"
        /\ row[r].status = IF Issue[r] = "error" \/ r \in Unmatched THEN "NEEDS_REVIEW"
                           ELSE IF Issue[r] = "warning" THEN "WARNING" ELSE "VALID"
    BY DEF Init
  <2>2. \A act : Made(r, act) = {}
    BY <2>1 DEF Made
  <2>3. ~IsExcluded(r) /\ (UnmatchedStill(r) <=> r \in Unmatched)
    BY <2>1, <2>2 DEF IsExcluded, Dismissed, UnmatchedStill, SaidBy, Unmatched
  <2>4. \A s : Active(r, s) <=> Issue[r] = s
    BY <2>2, <2>3 DEF Active
  <2>5. Current(r)
    <3>1. row[r].status = Judged(r)
      BY <2>1, <2>3, <2>4 DEF Judged, StatusOf
    <3>2. r \notin Ambiguous => Judged(r) = Recomputed(r)
      BY DEF Judged, Recomputed, StatusOf
    <3> QED BY <2>3, <3>1, <3>2 DEF Current
  <2> QED BY <2>1, <2>5 DEF Chained, Settled
<1> QED BY <1>1, <1>2 DEF Turns

\* The only handler there is.
LEMMA OnlyHandler ==
  ASSUME TakesTurns, Turns, NEW w \in Workers
  PROVE  /\ work[w] # None => batch # None /\ Turn(work[w])
         /\ \A r \in Rows : Settled(r) \/ (work[w] # None /\ Due(work[w], r))
BY DEF TakesTurns, Turns

LEMMA TurnTaken ==
  ASSUME TakesTurns, Shape, NEW w \in Workers, NEW t, Goes(w, t), rules' \in RuleSets,
         decisions' \in [Rows -> Seq(Recorded)], \A r \in Rows : Chained(r)',
         t # None => batch' # None /\ Turn(t)',
         \A r \in Rows : Settled(r)' \/ (t # None /\ Due(t, r))
  PROVE  Turns'
<1>1. \A v \in Workers : work'[v] = t
  BY DEF TakesTurns, Shape, Goes
<1>2. \A r \in Rows : Due(t, r)' = Due(t, r)
  BY DEF Due
<1> QED BY <1>1, <1>2 DEF Turns

\* A turn at which the handler only looks.
LEMMA TurnLooked ==
  ASSUME TakesTurns, Shape, Turns, NEW w \in Workers, NEW t, Goes(w, t), rules' \in RuleSets,
         row' = row, decisions' = decisions, t # None => batch' # None /\ Turn(t),
         \A r \in Rows : Settled(r) \/ (t # None /\ Due(t, r))
  PROVE  Turns'
<1>1. \A r : /\ Recomputed(r)' = Recomputed(r) /\ IsExcluded(r)' = IsExcluded(r)
             /\ Matched(r)' = Matched(r) /\ Overlaid(r)' = Overlaid(r) /\ Settled(r)' = Settled(r)
  BY SameSight, SameSettled
<1>2. Turn(t)' <=> Turn(t)
  BY <1>1 DEF Turn
<1>3. \A r \in Rows : Chained(r)'
  BY SameChain DEF Turns
<1>4. decisions' \in [Rows -> Seq(Recorded)]
  BY DEF Turns
<1> QED BY <1>1, <1>2, <1>3, <1>4, TurnTaken

LEMMA LooksTurn ==
  ASSUME TakesTurns, Inv, Turns, NEW w \in Workers, Looks(w), ~ClearRules(w), ~CreateRules(w)
  PROVE  Turns'
<1>s. /\ Shape /\ row \in [Rows -> RowState] /\ rules \in RuleSets
      /\ work[w] # None => batch # None /\ Turn(work[w]) /\ Handler(work[w])
      /\ \A r \in Rows : Settled(r) \/ (work[w] # None /\ Due(work[w], r))
  BY OnlyHandler DEF Inv, Shape, Handlers, Turns
<1>u. row' = row /\ decisions' = decisions /\ rules' \in RuleSets
  BY <1>s DEF Looks, Preview, Apply, OverlayRead, StartVerify, PlanFirmware, Plan, Agree,
     StartRecheck, Reread, EndRecheck, GuideRule, StartAutomation, StartDelete, Delete, Abort, staged
<1> DEFINE Next1(t) == /\ Goes(w, t) /\ (t # None => batch' # None /\ Turn(t))
                       /\ \A r \in Rows : Settled(r) \/ (t # None /\ Due(t, r))
<1> SUFFICES \E t : Next1(t)
  BY <1>s, <1>u, TurnLooked
<1>n. ASSUME work[w] = None \/ work[w].stage \notin {"creating", "reread", "rechecking"}
      PROVE  \A r \in Rows : Settled(r)
  BY <1>n, <1>s DEF Due
<1>1. CASE Preview(w)
  <2>1. PICK sel \in Selections, c \in Corrections :
          Goes(w, [stage |-> "previewed", sel |-> sel, by |-> c, shown |-> Revisions(Selected(sel))])
    BY <1>1 DEF Preview
  <2> DEFINE t == [stage |-> "previewed", sel |-> sel, by |-> c, shown |-> Revisions(Selected(sel))]
  <2>2. c \in Correction
    BY BatchAssumption DEF Decision, Correction, Act
  <2>3. Goes(w, t) /\ t.stage = "previewed" /\ t.by = c
    BY <2>1
  <2> HIDE DEF t
  <2>4. Turn(t)
    BY <2>2, <2>3 DEF Turn
  <2> QED BY <1>1, <1>n, <2>3, <2>4 DEF Preview
<1>2. CASE Apply(w)
  <2>1. work[w].stage = "previewed" /\ Turn(work[w]) /\ Handler(work[w]) /\ batch # None /\ batch' = batch
        /\ work[w].by \in Correction
    BY <1>2, <1>s DEF Apply, At, Turn
  <2>2. CASE ~TokenHolds(w)
    BY <1>2, <1>n, <2>1, <2>2 DEF Apply, Ends
  <2>3. CASE TokenHolds(w)
    <3>1. work[w].shown = [r \in Selected(work[w].sel) |-> row[r].revision]
      BY <2>3 DEF TokenHolds, Revisions
    <3>2. \A r \in DOMAIN work[w].shown : work[w].shown[r] = row[r].revision
      BY <3>1
    <3>3. CASE work[w].by.act # "MATCH"
      <4> DEFINE t == [work[w] EXCEPT !.stage = "checked"]
      <4>1. Goes(w, t)
        BY <1>2, <2>3, <3>3 DEF Apply
      <4>2. t.stage = "checked" /\ t.by = work[w].by /\ t.shown = work[w].shown
        BY <2>1 DEF Handler
      <4> HIDE DEF t
      <4>3. Turn(t)
        BY <2>1, <3>2, <4>2 DEF Turn
      <4> QED BY <1>n, <2>1, <4>1, <4>3
    <3>4. CASE work[w].by.act = "MATCH"
      <4> DEFINE t == [stage |-> "confirmed", by |-> work[w].by, shown |-> work[w].shown,
                       seen |-> [r \in DOMAIN work[w].shown |-> Matched(r)]]
      <4>1. Goes(w, t)
        BY <1>2, <2>3, <3>4 DEF Apply
      <4>2. /\ t.stage = "confirmed" /\ t.by = work[w].by /\ t.shown = work[w].shown
            /\ \A r \in DOMAIN t.seen : t.seen[r] = Matched(r)
        OBVIOUS
      <4> HIDE DEF t
      <4>3. Turn(t)
        BY <2>1, <3>2, <3>4, <4>2 DEF Turn
      <4> QED BY <1>n, <2>1, <4>1, <4>3
    <3> QED BY <3>3, <3>4
  <2> QED BY <2>2, <2>3
<1>3. CASE StartVerify(w) \/ PlanFirmware(w)
  <2>1. PICK sel, act : Plan(w, sel, act) /\ act \in {"MATCH", "VERIFY"}
    BY <1>3 DEF StartVerify, PlanFirmware
  <2> DEFINE t == [stage |-> "planned", sel |-> sel, by |-> [act |-> act, value |-> None],
                   shown |-> Revisions(Plannable(sel, act)),
                   seen |-> [r \in Plannable(sel, act) |-> Matched(r)]]
  <2>2. Goes(w, t)
    BY <2>1 DEF Plan
  <2>3. /\ t.stage = "planned" /\ t.by.act = act /\ t.by \in Correction
        /\ \A r \in DOMAIN t.seen : t.seen[r] = Matched(r)
    BY <2>1 DEF Correction, Act
  <2> HIDE DEF t
  <2>4. Turn(t)
    BY <2>1, <2>3 DEF Turn
  <2>5. batch' # None /\ (work[w] = None \/ work[w].stage = "matched")
    BY <1>3 DEF StartVerify, PlanFirmware, Plan, At
  <2> QED BY <1>n, <2>2, <2>4, <2>5
<1>4. CASE Agree(w)
  <2>1. work[w].stage = "planned" /\ Turn(work[w]) /\ Handler(work[w]) /\ batch # None /\ batch' = batch
    BY <1>4, <1>s DEF Agree, At
  <2>2. CASE ~StillPlanned(w)
    BY <1>4, <1>n, <2>1, <2>2 DEF Agree, Ends
  <2>3. CASE StillPlanned(w)
    <3> DEFINE t == [work[w] EXCEPT !.stage = "agreed"]
    <3>1. Goes(w, t)
      BY <1>4, <2>3 DEF Agree
    <3>2. t.stage = "agreed" /\ t.by = work[w].by /\ t.shown = work[w].shown /\ t.seen = work[w].seen
      BY <2>1 DEF Handler
    <3> HIDE DEF t
    <3>3. Turn(t)
      BY <2>1, <2>3, <3>2 DEF Turn, StillPlanned
    <3> QED BY <1>n, <2>1, <3>1, <3>3
  <2> QED BY <2>2, <2>3
<1>5. CASE OverlayRead(w)
  <2> DEFINE t == [stage |-> "overlaid", seen |-> [r \in work[w].rows |-> Overlaid(r)]]
  <2>1. Goes(w, t) /\ batch' # None /\ work[w].stage = "written"
    BY <1>5 DEF OverlayRead, At
  <2>2. t.stage = "overlaid" /\ \A r \in DOMAIN t.seen : t.seen[r] = Overlaid(r)
    OBVIOUS
  <2> HIDE DEF t
  <2>3. Turn(t)
    BY <2>2 DEF Turn
  <2> QED BY <1>n, <2>1, <2>3
<1>6. CASE Reread(w)
  <2> DEFINE P == {r \in work[w].rows : work[w].pending => row[r].recheck}
             t == [stage |-> "rechecking", checked |-> FALSE,
                   seen |-> [r \in P |-> [revision |-> row[r].revision, status |-> Recomputed(r),
                                          inclusion |-> IF IsExcluded(r) THEN "EXCLUDED" ELSE "INCLUDED"]]]
  <2>1. Goes(w, t) /\ batch' # None /\ work[w] # None /\ work[w].stage = "reread"
    BY <1>6 DEF Reread, At
  <2>r. work[w].rows \subseteq Rows
    BY <1>s, <2>1 DEF Handler
  <2>2. /\ t.stage = "rechecking" /\ DOMAIN t.seen = P
        /\ \A r \in P : t.seen[r] = [revision |-> row[r].revision, status |-> Recomputed(r),
                                     inclusion |-> IF IsExcluded(r) THEN "EXCLUDED" ELSE "INCLUDED"]
    OBVIOUS
  <2>3. \A r \in Rows : Settled(r) \/ r \in P
    BY <1>6, <1>s, <2>1 DEF Due
  <2> HIDE DEF t, P
  <2>4. Turn(t)
    BY <2>2 DEF Turn
  <2>5. \A r \in Rows : Settled(r) \/ Due(t, r)
    BY <2>2, <2>3 DEF Due
  <2>6. t # None
    <3>1. P \in SUBSET Rows
      BY <2>r DEF P
    <3>2. t.seen \in [P -> [revision : Nat, status : Statuses, inclusion : Inclusion]]
      BY <1>s, <3>1, StatusTypes DEF t, Inclusion, RowState, Recomputed
    <3>3. t \in [stage : {"rechecking"}, checked : BOOLEAN,
                 seen : Seen([revision : Nat, status : Statuses, inclusion : Inclusion])]
      BY <3>1, <3>2 DEF t, Seen
    <3> QED BY <3>3, NoneAssumption DEF Work
  <2> QED BY <2>1, <2>4, <2>5, <2>6
<1>7. CASE StartAutomation(w)
  <2> DEFINE t == [stage |-> "clearing", only |-> work[w] # None,
                   gone |-> [r \in Rows |-> ByRule(r) \ Proposed(r)],
                   fresh |-> [r \in Rows |-> Proposed(r) \ Signatures(r)]]
  <2>1. Goes(w, t) /\ batch' # None /\ (work[w] = None \/ work[w].stage = "guided")
    BY <1>7 DEF StartAutomation, At
  <2>2. \A r \in Rows : Proposed(r) \subseteq Act \X (Values \cup {None})
    <3> TAKE r \in Rows
    <3>1. rules[r] = None \/ rules[r] \in Decision
      BY <1>s, BatchAssumption
    <3> QED BY <3>1 DEF Proposed, Signature, Decision, Act
  <2>a. \A r \in Rows : ByRule(r) \subseteq Act \X (Values \cup {None})
    <3> TAKE r \in Rows
    <3>1. \A i \in DOMAIN decisions[r] : decisions[r][i] \in Recorded
      BY DEF Turns
    <3> QED BY <3>1 DEF ByRule, Signature, Recorded
  <2>3. /\ t.stage = "clearing" /\ t.only \in BOOLEAN
        /\ t.gone \in [Rows -> SUBSET (Act \X (Values \cup {None}))]
        /\ t.fresh \in [Rows -> SUBSET (Act \X (Values \cup {None}))]
    BY <2>2, <2>a
  <2> HIDE DEF t
  <2>4. Turn(t)
    BY <2>3 DEF Turn
  <2> QED BY <1>n, <2>1, <2>4
<1>8. CASE EndRecheck(w)
  <2>1. Goes(w, None) /\ work[w].stage = "rechecking" /\ DOMAIN work[w].seen = {}
    BY <1>8 DEF EndRecheck, Ends, At
  <2>2. \A r \in Rows : Settled(r)
    BY <1>s, <2>1 DEF Due
  <2> QED BY <2>1, <2>2
<1>9. CASE StartRecheck(w)
  <2> DEFINE t == [stage |-> "reread", rows |-> Rows, pending |-> TRUE]
  <2>1. Goes(w, t) /\ batch' # None /\ work[w] = None /\ t.stage = "reread"
    BY <1>9 DEF StartRecheck
  <2> HIDE DEF t
  <2>2. Turn(t)
    BY <2>1 DEF Turn
  <2> QED BY <1>n, <2>1, <2>2
<1>10. CASE GuideRule(w) \/ StartDelete(w)
  <2>1. PICK t : Goes(w, t) /\ t.stage \in {"guided", "deleting"}
    BY <1>10 DEF GuideRule, StartDelete
  <2>2. Turn(t)
    BY <2>1 DEF Turn
  <2>3. batch' # None /\ work[w] = None
    BY <1>10 DEF GuideRule, StartDelete
  <2> QED BY <1>n, <2>1, <2>2, <2>3
<1>11. CASE Delete(w)
  BY <1>11, <1>n DEF Delete, Ends, At
<1>12. CASE Abort(w)
  BY <1>12, <1>s DEF Abort, TakesTurns
<1> QED
  BY <1>1, <1>2, <1>3, <1>4, <1>5, <1>6, <1>7, <1>8, <1>9, <1>10, <1>11, <1>12 DEF Looks

\* A decision of a rule, or one of an engineer on the revision that the row leaves
\* behind, keeps the decisions of engineers apart.
LEMMA RuleChained ==
  ASSUME NEW r, decisions[r] \in Seq(Recorded), Chained(r), NEW d \in Recorded, d.by = "RULE",
         decisions'[r] = Append(decisions[r], d), row'[r].revision = row[r].revision
  PROVE  decisions'[r] \in Seq(Recorded) /\ Chained(r)'
<1>1. decisions'[r] \in Seq(Recorded)
  OBVIOUS
<1>2. \A i \in DOMAIN decisions'[r] : decisions'[r][i].by = "ENGINEER" =>
        i \in DOMAIN decisions[r] /\ decisions'[r][i] = decisions[r][i]
  OBVIOUS
<1> QED BY <1>1, <1>2 DEF Chained

LEMMA EngineerChained ==
  ASSUME NEW r \in Rows, row[r] \in RowState, decisions[r] \in Seq(Recorded), Chained(r), NEW d \in Recorded,
         d.onto = row[r].revision, decisions'[r] = Append(decisions[r], d),
         row'[r].revision = row[r].revision + 1
  PROVE  decisions'[r] \in Seq(Recorded) /\ Chained(r)'
<1>1. decisions'[r] \in Seq(Recorded) /\ row[r].revision \in Nat
  BY DEF RowState
<1>2. \A i \in DOMAIN decisions'[r] :
        \/ i \in DOMAIN decisions[r] /\ decisions'[r][i] = decisions[r][i]
        \/ i = Len(decisions[r]) + 1 /\ decisions'[r][i] = d
  OBVIOUS
<1>3. \A i \in DOMAIN decisions[r] : decisions[r][i].onto \in Nat
  <2> TAKE i \in DOMAIN decisions[r]
  <2>1. decisions[r][i] \in Recorded
    OBVIOUS
  <2> QED BY <2>1 DEF Recorded
<1> QED BY <1>1, <1>2, <1>3 DEF Chained

\* Decisions of rules are deleted and made: the rows it concerns are looked at
\* next.
LEMMA RulesTurn ==
  ASSUME TakesTurns, Inv, Turns, NEW w \in Workers, ClearRules(w) \/ CreateRules(w)
  PROVE  Turns'
<1>s. /\ Shape /\ row \in [Rows -> RowState] /\ rules \in RuleSets /\ decisions \in [Rows -> Seq(Recorded)]
      /\ work[w] # None /\ batch # None /\ Turn(work[w]) /\ Handler(work[w])
      /\ work[w].stage \in {"clearing", "creating"}
      /\ \A r \in Rows : Settled(r) \/ Due(work[w], r)
  <2>1. work[w] # None /\ work[w].stage \in {"clearing", "creating"}
    BY DEF ClearRules, CreateRules, At
  <2> QED BY <2>1, OnlyHandler DEF Inv, Shape, Handlers, Turns
<1>u. row' = row /\ rules' = rules /\ batch' = batch
  BY DEF ClearRules, CreateRules
<1>t. /\ work[w].only \in BOOLEAN
      /\ work[w].gone \in [Rows -> SUBSET (Act \X (Values \cup {None}))]
      /\ work[w].fresh \in [Rows -> SUBSET (Act \X (Values \cup {None}))]
      /\ work[w] = [stage |-> work[w].stage, only |-> work[w].only, gone |-> work[w].gone, fresh |-> work[w].fresh]
  BY <1>s DEF Turn, Handler
<1>r. \A r \in Rows : decisions'[r] = decisions[r] => (Settled(r)' <=> Settled(r)) /\ Chained(r)'
  BY <1>s, <1>u, SameSettled, SameChain DEF Turns
<1>1. CASE ClearRules(w)
  <2>p. PICK t : t = [work[w] EXCEPT !.stage = "creating"]
    OBVIOUS
  <2>1. Goes(w, t) /\ work[w].stage = "clearing"
    BY <1>1, <2>p DEF ClearRules, At
  <2>2. /\ t.stage = "creating" /\ t.only = work[w].only /\ t.gone = work[w].gone /\ t.fresh = work[w].fresh
        /\ t = [stage |-> "creating", only |-> work[w].only, gone |-> work[w].gone, fresh |-> work[w].fresh]
    BY <1>t, <2>p
  <2>3. t # None
    BY <1>t, <2>2, NoneAssumption DEF Work
  <2>4. Turn(t)'
    <3>1. /\ t.stage = "creating" /\ t.only \in BOOLEAN
          /\ t.gone \in [Rows -> SUBSET (Act \X (Values \cup {None}))]
          /\ t.fresh \in [Rows -> SUBSET (Act \X (Values \cup {None}))]
      BY <1>t, <2>2
    <3> QED BY <3>1 DEF Turn
  <2>5. ASSUME NEW r \in Rows
        PROVE  decisions'[r] \in Seq(Recorded) /\ Chained(r)' /\ (Settled(r)' \/ Due(t, r))
    <3>1. CASE work[w].gone[r] = {}
      <4>1. decisions'[r] = decisions[r]
        BY <1>1, <3>1 DEF ClearRules
      <4>2. Settled(r)
        BY <1>s, <2>1 DEF Due
      <4> QED BY <1>s, <1>r, <4>1, <4>2
    <3>2. CASE work[w].gone[r] # {}
      <4> DEFINE gone == work[w].gone[r]
                 at(n) == Nth(Staying(decisions[r], gone), n)
      <4>1. decisions'[r] = Without(decisions[r], gone)
        BY <1>1, <3>2 DEF ClearRules
      <4>2. decisions[r] \in Seq(Recorded) /\ Chained(r)
        BY <1>s DEF Turns
      <4> HIDE DEF gone
      <4>3. /\ decisions'[r] \in Seq(Recorded)
            /\ \A n \in DOMAIN decisions'[r] : at(n) \in DOMAIN decisions[r] /\ decisions'[r][n] = decisions[r][at(n)]
            /\ \A n, m \in DOMAIN decisions'[r] : at(n) = at(m) => n = m
        <5>1. /\ decisions'[r] \in Seq(Recorded)
              /\ \A n \in DOMAIN decisions'[r] : at(n) \in DOMAIN decisions[r] /\ decisions'[r][n] = decisions[r][at(n)]
              /\ \A n, m \in DOMAIN decisions'[r] : n < m => at(n) < at(m)
          BY <4>1, <4>2, StayingStays
        <5>2. /\ \A n \in DOMAIN decisions'[r] : n \in Nat
              /\ \A i \in DOMAIN decisions[r] : i \in Nat
          BY <4>2, <5>1
        <5> HIDE DEF at
        <5> QED BY <5>1, <5>2
      <4> HIDE DEF at
      <4>4. Chained(r)'
        BY <1>u, <4>2, <4>3 DEF Chained
      <4>5. Due(t, r)
        BY <2>2, <3>2 DEF Due
      <4> QED BY <4>3, <4>4, <4>5
    <3> QED BY <3>1, <3>2
  <2>6. decisions' \in [Rows -> Seq(Recorded)]
    <3>1. decisions' = [r \in Rows |-> decisions'[r]]
      BY <1>1 DEF ClearRules
    <3> QED BY <2>5, <3>1
  <2> QED BY <1>s, <1>u, <2>1, <2>3, <2>4, <2>5, <2>6, TurnTaken
<1>2. CASE CreateRules(w)
  <2> DEFINE due == IF ~work[w].only THEN Rows
                    ELSE {r \in Rows : work[w].fresh[r] # {} \/ work[w].gone[r] # {}}
  <2>p. PICK t : t = [stage |-> "reread", pending |-> FALSE, rows |-> due]
    OBVIOUS
  <2>1. Goes(w, t) /\ work[w].stage = "creating"
    BY <1>2, <2>p DEF CreateRules, At
  <2>2. t.stage = "reread" /\ t.pending = FALSE /\ t.rows = due
    BY <2>p
  <2>3. t \in [stage : {"reread"}, rows : SUBSET Rows, pending : BOOLEAN]
    BY <2>p
  <2>4. t # None
    BY <2>3, NoneAssumption DEF Work
  <2>5. Turn(t)'
    BY <2>2 DEF Turn
  <2>6. ASSUME NEW r \in Rows
        PROVE  decisions'[r] \in Seq(Recorded) /\ Chained(r)' /\ (Settled(r)' \/ Due(t, r))
    <3>1. CASE work[w].fresh[r] = {}
      <4>1. decisions'[r] = decisions[r]
        BY <1>2, <3>1 DEF CreateRules
      <4>2. Settled(r) \/ work[w].gone[r] # {}
        BY <1>s, <2>1, <3>1 DEF Due
      <4>3. Settled(r) \/ Due(t, r)
        BY <2>2, <4>2 DEF Due
      <4> QED BY <1>s, <1>r, <4>1, <4>3
    <3>2. CASE work[w].fresh[r] # {}
      <4> DEFINE s == CHOOSE s \in work[w].fresh[r] : TRUE
                 d == [act |-> s[1], value |-> s[2], by |-> "RULE", onto |-> 0]
      <4>1. decisions'[r] = Append(decisions[r], d)
        BY <1>2, <3>2 DEF CreateRules
      <4>2. d \in Recorded /\ d.by = "RULE"
        <5>1. s \in Act \X (Values \cup {None})
          BY <1>t, <3>2
        <5> HIDE DEF s
        <5> QED BY <5>1 DEF Recorded
      <4>3. decisions[r] \in Seq(Recorded) /\ Chained(r)
        BY <1>s DEF Turns
      <4> HIDE DEF d
      <4>4. decisions'[r] \in Seq(Recorded) /\ Chained(r)'
        BY <1>u, <4>1, <4>2, <4>3, RuleChained
      <4>5. Due(t, r)
        BY <2>2, <3>2 DEF Due
      <4> QED BY <4>4, <4>5
    <3> QED BY <3>1, <3>2
  <2>7. decisions' \in [Rows -> Seq(Recorded)]
    <3>1. decisions' = [r \in Rows |-> decisions'[r]]
      BY <1>2 DEF CreateRules
    <3> QED BY <2>6, <3>1
  <2> QED BY <1>s, <1>u, <2>1, <2>4, <2>5, <2>6, <2>7, TurnTaken
<1> QED BY <1>1, <1>2

\* Decisions of an engineer on the rows as they are.
LEMMA DecideChained ==
  ASSUME Inv, Turns, NEW w \in Workers, work[w] # None, Turn(work[w]),
         work[w].stage \in {"checked", "confirmed", "agreed"}, Decide(w),
         \A r \in Rows : row'[r].revision = IF r \in DOMAIN work[w].shown THEN row[r].revision + 1
                                            ELSE row[r].revision
  PROVE  /\ decisions' \in [Rows -> Seq(Recorded)]
         /\ \A r \in Rows :
              /\ Chained(r)'
              /\ r \notin DOMAIN work[w].shown => decisions'[r] = decisions[r]
              /\ r \in DOMAIN work[w].shown =>
                   decisions'[r] = Append(decisions[r], [act |-> work[w].by.act, value |-> work[w].by.value,
                                                         by |-> "ENGINEER", onto |-> work[w].shown[r]])
<1> DEFINE d(r) == [act |-> work[w].by.act, value |-> work[w].by.value,
                    by |-> "ENGINEER", onto |-> work[w].shown[r]]
<1>1. /\ decisions \in [Rows -> Seq(Recorded)] /\ row \in [Rows -> RowState] /\ work[w].by \in Correction
      /\ \A r \in Rows \cap DOMAIN work[w].shown : work[w].shown[r] = row[r].revision
      /\ \A r \in Rows : Chained(r)
  BY DEF Turns, Turn, Inv, Shape
<1>2. \A r \in Rows : r \in DOMAIN work[w].shown => d(r) \in Recorded /\ d(r).onto = row[r].revision
  BY <1>1 DEF Recorded, Correction, RowState
<1>3. decisions' = [r \in Rows |-> IF r \in DOMAIN work[w].shown THEN Append(decisions[r], d(r)) ELSE decisions[r]]
  BY DEF Decide
<1>d. \A r : d(r) = [act |-> work[w].by.act, value |-> work[w].by.value,
                     by |-> "ENGINEER", onto |-> work[w].shown[r]]
  OBVIOUS
<1> HIDE DEF d
<1>4. ASSUME NEW r \in Rows PROVE decisions'[r] \in Seq(Recorded) /\ Chained(r)'
  <2>1. CASE r \in DOMAIN work[w].shown
    <3>1. /\ decisions'[r] = Append(decisions[r], d(r)) /\ row'[r].revision = row[r].revision + 1
          /\ d(r) \in Recorded /\ d(r).onto = row[r].revision
      BY <1>2, <1>3, <2>1
    <3> QED BY <1>1, <3>1, EngineerChained
  <2>2. CASE r \notin DOMAIN work[w].shown
    <3>1. decisions'[r] = decisions[r] /\ row'[r].revision = row[r].revision
      BY <1>3, <2>2
    <3> QED BY <1>1, <3>1, SameChain
  <2> QED BY <2>1, <2>2
<1> QED BY <1>3, <1>4, <1>d

\* A row that is confirmed shows the status it had but for its identity.
LEMMA Confirmed ==
  ASSUME NEW r \in Rows, decisions[r] \in Seq(Recorded), NEW d \in Recorded, d.act = "MATCH", d.by = "ENGINEER",
         decisions'[r] = Append(decisions[r], d), Settled(r),
         row'[r].inclusion = row[r].inclusion, row'[r].recheck = row[r].recheck, row'[r].status = Matched(r),
         row[r].recheck \in BOOLEAN
  PROVE  Settled(r)'
<1> SUFFICES ASSUME ~row[r].recheck PROVE Current(r)'
  BY DEF Settled
<1>1. \A act : act # "MATCH" => Made(r, act)' = Made(r, act)
  BY DEF Made
<1>2. Len(decisions[r]) + 1 \in Made(r, "MATCH")' /\ \A i \in Made(r, "MATCH")' : i <= Len(decisions[r]) + 1
  BY DEF Made
<1>3. Latest(Made(r, "MATCH")') = Len(decisions[r]) + 1
  <2>1. \A i, j \in Made(r, "MATCH")' : i \in Nat /\ j \in Nat /\ (i <= j /\ j <= i => i = j)
    BY DEF Made
  <2> QED BY <1>2, <2>1 DEF Latest
<1>4. SaidBy(r, "MATCH")' = "ENGINEER"
  <2>1. decisions'[r][Len(decisions[r]) + 1] = d
    OBVIOUS
  <2>2. SaidBy(r, "MATCH")' = decisions'[r][Latest(Made(r, "MATCH")')].by
    BY <1>2 DEF SaidBy
  <2> QED BY <1>3, <2>1, <2>2
<1>5. UnmatchedStill(r)' <=> Identity[r] = "invalid"
  BY <1>4, NoneAssumption DEF UnmatchedStill
<1>6. Dismissed(r)' = Dismissed(r) /\ IsExcluded(r)' = IsExcluded(r)
  BY <1>1 DEF Dismissed, IsExcluded
<1>7. \A s : Active(r, s)' = Active(r, s)
  BY <1>1, <1>6 DEF Active
<1>8. (row[r].inclusion = "EXCLUDED") = IsExcluded(r)
  BY DEF Settled, Current, IsExcluded
<1>9. Matched(r) = Judged(r)'
  <2>1. Matched(r) = StatusOf(r, IsExcluded(r), Identity[r] = "invalid", FALSE)
    BY <1>8 DEF Matched
  <2>2. Judged(r)' = StatusOf(r, IsExcluded(r), Identity[r] = "invalid", FALSE)'
    BY <1>5 DEF Judged, StatusOf
  <2>3. StatusOf(r, IsExcluded(r), Identity[r] = "invalid", FALSE)'
          = StatusOf(r, IsExcluded(r), Identity[r] = "invalid", FALSE)
    BY <1>6, <1>7 DEF StatusOf
  <2> QED BY <2>1, <2>2, <2>3
<1>10. r \notin Ambiguous => Judged(r)' = Recomputed(r)'
  BY DEF Judged, Recomputed, StatusOf
<1> QED BY <1>6, <1>8, <1>9, <1>10 DEF Current

\* A row that a handler wrote on, and did not revise.
LEMMA Rewritten ==
  ASSUME NEW r \in Rows, decisions'[r] = decisions[r], Settled(r), row[r].recheck \in BOOLEAN,
         row'[r].inclusion = row[r].inclusion, row'[r].recheck = row[r].recheck, row'[r].status = Overlaid(r)
  PROVE  Settled(r)'
<1> SUFFICES ASSUME ~row[r].recheck PROVE Current(r)'
  BY DEF Settled
<1>1. (row[r].inclusion = "EXCLUDED") = IsExcluded(r)
  BY DEF Settled, Current, IsExcluded
<1>2. Overlaid(r) = Judged(r)
  BY <1>1 DEF Overlaid, Judged
<1>3. r \notin Ambiguous => Judged(r) = Recomputed(r)
  BY DEF Judged, Recomputed, StatusOf
<1> QED BY <1>1, <1>2, <1>3, SameSight DEF Current

\* A row as its decisions have it.
LEMMA Rechecked ==
  ASSUME NEW r \in Rows, decisions'[r] = decisions[r], row'[r].status = Recomputed(r),
         row'[r].inclusion = IF IsExcluded(r) THEN "EXCLUDED" ELSE "INCLUDED"
  PROVE  Settled(r)'
<1>1. \A act : Made(r, act)' = Made(r, act)
  BY DEF Made
<1>2. /\ Dismissed(r)' = Dismissed(r) /\ IsExcluded(r)' = IsExcluded(r)
      /\ SaidBy(r, "MATCH")' = SaidBy(r, "MATCH")
  BY <1>1 DEF Dismissed, IsExcluded, SaidBy
<1>3. \A s : Active(r, s)' = Active(r, s)
  BY <1>1, <1>2 DEF Active
<1>4. Recomputed(r)' = Recomputed(r)
  BY <1>2, <1>3 DEF Recomputed, StatusOf, UnmatchedStill
<1> QED BY <1>2, <1>4 DEF Settled, Current

LEMMA WritesTurn ==
  ASSUME TakesTurns, Inv, Turns, NEW w \in Workers, Writes(w)
  PROVE  Turns'
<1>s. /\ Shape /\ row \in [Rows -> RowState] /\ rules \in RuleSets /\ decisions \in [Rows -> Seq(Recorded)]
      /\ work[w] # None /\ batch # None /\ Turn(work[w]) /\ Handler(work[w])
      /\ \A r \in Rows : Chained(r) /\ (Settled(r) \/ Due(work[w], r))
  <2>1. work[w] # None
    BY DEF Writes, Write, Confirm, OverlayWrite, WriteVerify, Recheck, At
  <2> QED BY <2>1, OnlyHandler DEF Inv, Shape, Handlers, Turns
<1>t. \A r \in Rows : row[r].recheck \in BOOLEAN /\ row[r].status \in Statuses /\ row[r] \in RowState
  BY <1>s DEF RowState
<1>u. rules' \in RuleSets /\ batch' # None
  BY <1>s DEF Writes, Write, Confirm, OverlayWrite, WriteVerify, Recheck
<1>1. CASE Write(w)
  <2>1. /\ work[w].stage = "checked" /\ Decide(w) /\ DOMAIN work[w].shown \subseteq Rows
        /\ row' = [r \in Rows |-> IF r \in DOMAIN work[w].shown THEN Corrected(row[r], work[w].by.act) ELSE row[r]]
    BY <1>1, <1>s DEF Write, At, Handler
  <2>p. PICK t : t = [stage |-> "written", rows |-> DOMAIN work[w].shown]
    OBVIOUS
  <2>2. Goes(w, t) /\ t.stage = "written"
    BY <1>1, <2>p DEF Write
  <2>3. Turn(t)'
    BY <2>2 DEF Turn
  <2>4. \A r \in Rows : row'[r].revision = IF r \in DOMAIN work[w].shown THEN row[r].revision + 1
                                           ELSE row[r].revision
    BY <1>t, <2>1, CorrectedRow
  <2>5. /\ decisions' \in [Rows -> Seq(Recorded)] /\ \A r \in Rows : Chained(r)'
        /\ \A r \in Rows : r \notin DOMAIN work[w].shown => decisions'[r] = decisions[r]
    BY <1>s, <2>1, <2>4, DecideChained
  <2>6. ASSUME NEW r \in Rows PROVE Settled(r)'
    <3>1. CASE r \notin DOMAIN work[w].shown
      <4>1. decisions'[r] = decisions[r] /\ row'[r] = row[r]
        BY <2>1, <2>5, <3>1
      <4>2. Settled(r)
        BY <1>s, <2>1 DEF Due
      <4> QED BY <4>1, <4>2, SameSettled
    <3>2. CASE r \in DOMAIN work[w].shown
      <4>1. row'[r] = Corrected(row[r], work[w].by.act)
        BY <2>1, <3>2
      <4>2. CASE work[w].by.act = "EXCLUDE"
        <5>1. row'[r].inclusion = "EXCLUDED" /\ row'[r].status = "EXCLUDED"
          BY <1>t, <4>1, <4>2 DEF Corrected, RowState
        <5> QED BY <5>1 DEF Settled, Current, IsExcluded, Recomputed, StatusOf
      <4>3. CASE work[w].by.act # "EXCLUDE"
        <5>1. row'[r].recheck = TRUE
          BY <1>t, <4>1, <4>3 DEF Corrected, RowState
        <5> QED BY <5>1 DEF Settled
      <4> QED BY <4>2, <4>3
    <3> QED BY <3>1, <3>2
  <2> QED BY <1>s, <1>u, <2>2, <2>3, <2>5, <2>6, TurnTaken
<1>2. CASE Confirm(w)
  <2>1. /\ work[w].stage = "confirmed" /\ Decide(w) /\ DOMAIN work[w].seen = DOMAIN work[w].shown
        /\ work[w].by.act = "MATCH" /\ work[w].by \in Correction
        /\ \A r \in Rows \cap DOMAIN work[w].shown : work[w].seen[r] = Matched(r) /\ work[w].seen[r] \in Statuses
        /\ \A r \in Rows \cap DOMAIN work[w].shown : work[w].shown[r] = row[r].revision
        /\ row' = [r \in Rows |->
             IF r \in DOMAIN work[w].shown THEN Revised(row[r], work[w].seen[r]) ELSE row[r]]
    BY <1>2, <1>s DEF Confirm, At, Handler, Turn, Rated
  <2>2. Goes(w, None)
    BY <1>2 DEF Confirm, Ends
  <2>4. \A r \in Rows : row'[r].revision = IF r \in DOMAIN work[w].shown THEN row[r].revision + 1
                                           ELSE row[r].revision
    BY <1>t, <2>1, RevisedRow
  <2>5. /\ decisions' \in [Rows -> Seq(Recorded)] /\ \A r \in Rows : Chained(r)'
        /\ \A r \in Rows :
             /\ r \notin DOMAIN work[w].shown => decisions'[r] = decisions[r]
             /\ r \in DOMAIN work[w].shown =>
                  decisions'[r] = Append(decisions[r], [act |-> work[w].by.act, value |-> work[w].by.value,
                                                        by |-> "ENGINEER", onto |-> work[w].shown[r]])
    BY <1>s, <2>1, <2>4, DecideChained
  <2>6. ASSUME NEW r \in Rows PROVE Settled(r)'
    <3>s. Settled(r)
      BY <1>s, <2>1 DEF Due
    <3>1. CASE r \notin DOMAIN work[w].shown
      <4>1. decisions'[r] = decisions[r] /\ row'[r] = row[r]
        BY <2>1, <2>5, <3>1
      <4> QED BY <3>s, <4>1, SameSettled
    <3>2. CASE r \in DOMAIN work[w].shown
      <4> DEFINE d == [act |-> work[w].by.act, value |-> work[w].by.value,
                       by |-> "ENGINEER", onto |-> work[w].shown[r]]
      <4>1. decisions'[r] = Append(decisions[r], d) /\ decisions[r] \in Seq(Recorded)
        BY <1>s, <2>5, <3>2
      <4>2. d \in Recorded /\ d.act = "MATCH" /\ d.by = "ENGINEER"
        BY <1>t, <2>1, <3>2 DEF Recorded, Correction, RowState
      <4>3. row'[r] = Revised(row[r], work[w].seen[r]) /\ work[w].seen[r] = Matched(r)
        BY <2>1, <3>2
      <4>4. /\ row'[r].inclusion = row[r].inclusion /\ row'[r].recheck = row[r].recheck
            /\ row'[r].status = Matched(r)
        BY <1>t, <4>3 DEF Revised, RowState
      <4> HIDE DEF d
      <4> QED BY <1>t, <3>s, <4>1, <4>2, <4>4, Confirmed
    <3> QED BY <3>1, <3>2
  <2> QED BY <1>s, <1>u, <2>2, <2>5, <2>6, TurnTaken
<1>3. CASE OverlayWrite(w)
  <2>1. /\ work[w].stage = "overlaid" /\ decisions' = decisions
        /\ \A r \in DOMAIN work[w].seen : work[w].seen[r] = Overlaid(r)
        /\ row' = [r \in Rows |->
             IF r \in DOMAIN work[w].seen THEN [row[r] EXCEPT !.status = work[w].seen[r]] ELSE row[r]]
    BY <1>3, <1>s DEF OverlayWrite, At, Turn
  <2>p. PICK t : t = [stage |-> "reread", rows |-> DOMAIN work[w].seen, pending |-> TRUE]
    OBVIOUS
  <2>2. Goes(w, t) /\ t.stage = "reread"
    BY <1>3, <2>p DEF OverlayWrite
  <2>3. Turn(t)'
    BY <2>2 DEF Turn
  <2>4. \A r \in Rows : row'[r].revision = row[r].revision
    BY <1>t, <2>1 DEF RowState
  <2>5. \A r \in Rows : Chained(r)'
    BY <1>s, <2>1, <2>4, SameChain
  <2>6. ASSUME NEW r \in Rows PROVE Settled(r)'
    <3>s. Settled(r)
      BY <1>s, <2>1 DEF Due
    <3>1. CASE r \notin DOMAIN work[w].seen
      <4>1. decisions'[r] = decisions[r] /\ row'[r] = row[r]
        BY <2>1, <3>1
      <4> QED BY <3>s, <4>1, SameSettled
    <3>2. CASE r \in DOMAIN work[w].seen
      <4>1. row'[r] = [row[r] EXCEPT !.status = Overlaid(r)]
        BY <2>1, <3>2
      <4>2. /\ row'[r].inclusion = row[r].inclusion /\ row'[r].recheck = row[r].recheck
            /\ row'[r].status = Overlaid(r)
        BY <1>t, <4>1 DEF RowState
      <4>3. decisions'[r] = decisions[r]
        BY <2>1
      <4> QED BY <1>t, <3>s, <4>2, <4>3, Rewritten
    <3> QED BY <3>1, <3>2
  <2>7. decisions' \in [Rows -> Seq(Recorded)]
    BY <1>s, <2>1
  <2> QED BY <1>s, <1>u, <2>2, <2>3, <2>5, <2>6, <2>7, TurnTaken
<1>4. CASE WriteVerify(w)
  <2>1. /\ work[w].stage = "agreed" /\ Decide(w) /\ DOMAIN work[w].seen = DOMAIN work[w].shown
        /\ work[w].by.act \in {"MATCH", "VERIFY"} /\ work[w].by \in Correction
        /\ work[w].by.act = "MATCH" =>
             \A r \in Rows \cap DOMAIN work[w].shown : work[w].seen[r] = Matched(r) /\ work[w].seen[r] \in Statuses
        /\ \A r \in Rows \cap DOMAIN work[w].shown : work[w].shown[r] = row[r].revision
        /\ row' = [r \in Rows |->
             IF r \notin DOMAIN work[w].shown THEN row[r]
             ELSE Revised(row[r], IF work[w].by.act = "MATCH" THEN work[w].seen[r] ELSE row[r].status)]
    BY <1>4, <1>s DEF WriteVerify, At, Handler, Turn, Rated
  <2>4. \A r \in Rows : row'[r].revision = IF r \in DOMAIN work[w].shown THEN row[r].revision + 1
                                           ELSE row[r].revision
    BY <1>t, <2>1, RevisedRow
  <2>5. /\ decisions' \in [Rows -> Seq(Recorded)] /\ \A r \in Rows : Chained(r)'
        /\ \A r \in Rows :
             /\ r \notin DOMAIN work[w].shown => decisions'[r] = decisions[r]
             /\ r \in DOMAIN work[w].shown =>
                  decisions'[r] = Append(decisions[r], [act |-> work[w].by.act, value |-> work[w].by.value,
                                                        by |-> "ENGINEER", onto |-> work[w].shown[r]])
    BY <1>s, <2>1, <2>4, DecideChained
  <2>6. CASE work[w].by.act = "MATCH"
    <3>p. PICK t : t = [stage |-> "matched", sel |-> work[w].sel]
      OBVIOUS
    <3>1. Goes(w, t) /\ t.stage = "matched"
      BY <1>4, <2>6, <3>p DEF WriteVerify
    <3>2. Turn(t)'
      BY <3>1 DEF Turn
    <3>3. ASSUME NEW r \in Rows PROVE Settled(r)'
      <4>s. Settled(r)
        BY <1>s, <2>1 DEF Due
      <4>1. CASE r \notin DOMAIN work[w].shown
        <5>1. decisions'[r] = decisions[r] /\ row'[r] = row[r]
          BY <2>1, <2>5, <4>1
        <5> QED BY <4>s, <5>1, SameSettled
      <4>2. CASE r \in DOMAIN work[w].shown
        <5> DEFINE d == [act |-> work[w].by.act, value |-> work[w].by.value,
                         by |-> "ENGINEER", onto |-> work[w].shown[r]]
        <5>1. decisions'[r] = Append(decisions[r], d) /\ decisions[r] \in Seq(Recorded)
          BY <1>s, <2>5, <4>2
        <5>2. d \in Recorded /\ d.act = "MATCH" /\ d.by = "ENGINEER"
          BY <1>t, <2>1, <2>6, <4>2 DEF Recorded, Correction, RowState
        <5>3. row'[r] = Revised(row[r], work[w].seen[r]) /\ work[w].seen[r] = Matched(r)
          BY <2>1, <2>6, <4>2
        <5>4. /\ row'[r].inclusion = row[r].inclusion /\ row'[r].recheck = row[r].recheck
              /\ row'[r].status = Matched(r)
          BY <1>t, <5>3 DEF Revised, RowState
        <5> HIDE DEF d
        <5> QED BY <1>t, <4>s, <5>1, <5>2, <5>4, Confirmed
      <4> QED BY <4>1, <4>2
    <3> QED BY <1>s, <1>u, <2>5, <3>1, <3>2, <3>3, TurnTaken
  <2>7. CASE work[w].by.act # "MATCH"
    <3>p. PICK t : t = [stage |-> "reread", rows |-> Rows, pending |-> FALSE]
      OBVIOUS
    <3>1. Goes(w, t) /\ t.stage = "reread" /\ t.rows = Rows /\ t.pending = FALSE
      BY <1>4, <2>7, <3>p DEF WriteVerify
    <3>2. t # None
      <4>1. t \in [stage : {"reread"}, rows : SUBSET Rows, pending : BOOLEAN]
        BY <3>p
      <4> QED BY <4>1, NoneAssumption DEF Work
    <3>3. Turn(t)'
      BY <3>1 DEF Turn
    <3>4. \A r \in Rows : Due(t, r)
      BY <3>1 DEF Due
    <3> QED BY <1>s, <1>u, <2>5, <3>1, <3>2, <3>3, <3>4, TurnTaken
  <2> QED BY <2>6, <2>7
<1>5. ASSUME NEW r \in Rows, Recheck(w, r) PROVE Turns'
  <2>1. /\ work[w].stage = "rechecking" /\ r \in DOMAIN work[w].seen /\ decisions' = decisions
        /\ Noted(work[w].seen)
        /\ work[w] \in [stage : {"rechecking"}, checked : BOOLEAN, seen : {work[w].seen}]
        /\ \A p \in DOMAIN work[w].seen :
             work[w].seen[p] = [revision |-> row[p].revision, status |-> Recomputed(p),
                                inclusion |-> IF IsExcluded(p) THEN "EXCLUDED" ELSE "INCLUDED"]
    BY <1>5, <1>s DEF Recheck, At, Turn, Handler
  <2>f. /\ work[w].seen[r].revision = row[r].revision /\ work[w].seen[r].status = Recomputed(r)
        /\ work[w].seen[r].inclusion = IF IsExcluded(r) THEN "EXCLUDED" ELSE "INCLUDED"
    <3>1. work[w].seen[r] = [revision |-> row[r].revision, status |-> Recomputed(r),
                             inclusion |-> IF IsExcluded(r) THEN "EXCLUDED" ELSE "INCLUDED"]
      BY <2>1
    <3> QED BY <3>1
  <2> DEFINE rest == Restrict(work[w].seen, DOMAIN work[w].seen \ {r})
  <2>r. rest = [p \in DOMAIN work[w].seen \ {r} |-> work[w].seen[p]]
    BY DEF Restrict
  <2>p. PICK t : t = [work[w] EXCEPT !.seen = rest, !.checked = TRUE]
    OBVIOUS
  <2>2. /\ Goes(w, t)
        /\ row' = [row EXCEPT ![r].inclusion = work[w].seen[r].inclusion,
                              ![r].status = work[w].seen[r].status, ![r].recheck = FALSE]
    BY <1>5, <2>f, <2>p DEF Recheck, Unrevised
  <2>3. /\ t.stage = "rechecking" /\ DOMAIN t.seen = DOMAIN work[w].seen \ {r}
        /\ \A p \in DOMAIN t.seen : t.seen[p] = work[w].seen[p]
        /\ t = [stage |-> "rechecking", checked |-> TRUE, seen |-> t.seen]
    BY <2>1, <2>r, <2>p
  <2>4. /\ \A p \in Rows : p # r => row'[p] = row[p]
        /\ row'[r].inclusion = work[w].seen[r].inclusion /\ row'[r].status = work[w].seen[r].status
        /\ row'[r].revision = row[r].revision
    BY <1>t, <1>s, <2>2 DEF RowState
  <2>5. \A p \in Rows : Chained(p)'
    BY <1>s, <2>1, <2>4, SameChain
  <2>6. \A p \in Rows : p # r => /\ Recomputed(p)' = Recomputed(p) /\ IsExcluded(p)' = IsExcluded(p)
                                 /\ Settled(p)' = Settled(p)
    BY <2>1, <2>4, SameSight, SameSettled
  <2>7. Turn(t)'
    <3>1. \A p \in DOMAIN t.seen :
            t.seen[p] = [revision |-> row'[p].revision, status |-> Recomputed(p)',
                         inclusion |-> IF IsExcluded(p)' THEN "EXCLUDED" ELSE "INCLUDED"]
      BY <2>1, <2>3, <2>4, <2>6 DEF Noted
    <3> QED BY <2>3, <3>1 DEF Turn
  <2>8. Settled(r)'
    BY <2>1, <2>4, <2>f, Rechecked
  <2>9. \A p \in Rows : Settled(p)' \/ Due(t, p)
    BY <1>s, <2>1, <2>3, <2>6, <2>8 DEF Due
  <2>10. t # None
    <3>0. DOMAIN work[w].seen \subseteq Rows
      BY <2>1 DEF Noted
    <3>1. ASSUME NEW p \in DOMAIN work[w].seen
          PROVE  work[w].seen[p] \in [revision : Nat, status : Statuses, inclusion : Inclusion]
      <4>1. Recomputed(p) \in Statuses /\ row[p].revision \in Nat
        BY <1>t, <3>0, StatusTypes DEF Recomputed, RowState
      <4>2. work[w].seen[p] = [revision |-> row[p].revision, status |-> Recomputed(p),
                               inclusion |-> IF IsExcluded(p) THEN "EXCLUDED" ELSE "INCLUDED"]
        BY <2>1
      <4> QED BY <4>1, <4>2 DEF Inclusion
    <3>2. rest \in [DOMAIN work[w].seen \ {r} -> [revision : Nat, status : Statuses, inclusion : Inclusion]]
      BY <2>r, <3>1
    <3>3. rest \in Seen([revision : Nat, status : Statuses, inclusion : Inclusion])
      BY <3>0, <3>2 DEF Seen
    <3>c. t = [stage |-> "rechecking", checked |-> TRUE, seen |-> rest]
      BY <2>1, <2>p
    <3> HIDE DEF rest
    <3>4. t \in [stage : {"rechecking"}, checked : BOOLEAN,
                 seen : Seen([revision : Nat, status : Statuses, inclusion : Inclusion])]
      BY <3>3, <3>c
    <3> QED BY <3>4, NoneAssumption DEF Work
  <2>11. decisions' \in [Rows -> Seq(Recorded)]
    BY <1>s, <2>1
  <2> QED BY <1>s, <1>u, <2>2, <2>5, <2>7, <2>9, <2>10, <2>11, TurnTaken
<1> QED
  BY <1>1, <1>2, <1>3, <1>4, <1>5 DEF Writes

\* What publishes and what only reviews leaves the rows as the handler knows them.
LEMMA OthersTurn ==
  ASSUME Inv, Turns, rules' \in RuleSets, UNCHANGED <<decisions, work>>, batch' # None \/ batch' = batch,
         \A r \in Rows : /\ row'[r].revision = row[r].revision /\ row'[r].inclusion = row[r].inclusion
                         /\ row'[r].recheck = row[r].recheck /\ row'[r].status = row[r].status
  PROVE  Turns'
<1>1. \A r \in Rows : /\ Recomputed(r)' = Recomputed(r) /\ IsExcluded(r)' = IsExcluded(r)
                      /\ Matched(r)' = Matched(r) /\ Overlaid(r)' = Overlaid(r) /\ Settled(r)' = Settled(r)
  BY SameSight, SameSettled
<1>2. \A r \in Rows : Chained(r)'
  BY SameChain DEF Turns
<1>3. ASSUME NEW w \in Workers, work[w] # None PROVE batch' # None /\ Turn(work[w])'
  <2> PICK t : t = work[w]
    OBVIOUS
  <2>1. batch # None /\ Turn(t) /\ Handler(t)
    BY <1>3 DEF Inv, Shape, Handlers, Turns
  <2>2. t.stage = "overlaid" \/ t.stage = "rechecking" => DOMAIN t.seen \subseteq Rows
    BY <2>1 DEF Handler, Noted
  <2>3. Turn(t)'
    BY <1>1, <2>1, <2>2 DEF Turn
  <2>4. Turn(work[w])' <=> Turn(t)'
    BY DEF Turn
  <2> QED BY <2>1, <2>3, <2>4
<1>4. ASSUME NEW r \in Rows PROVE Settled(r)' \/ \E w \in Workers : work'[w] # None /\ Due(work[w], r)'
  <2>1. \A w \in Workers : Due(work[w], r)' <=> Due(work[w], r)
    BY DEF Due
  <2> QED BY <1>1, <2>1 DEF Turns
<1> QED
  BY <1>2, <1>3, <1>4 DEF Turns

LEMMA TurnsStep ==
  ASSUME TakesTurns, Inv, Turns, [Next]_vars
  PROVE  Turns'
<1>r. rules \in RuleSets
  BY DEF Turns
<1>1. ASSUME NEW w \in Workers, Correct(w) \/ Verify(w) \/ Maintain(w) \/ Remove(w) PROVE Turns'
  BY <1>1, LooksTurn, RulesTurn, WritesTurn DEF Correct, Verify, Maintain, Remove, Looks, Writes
<1>2. CASE ChangeRules \/ UNCHANGED vars \/ (\E k \in Keys : Review(k)) \/ (\E q \in Requests : Publishes(q))
  <2>1. UNCHANGED <<batch, row, decisions, work>> /\ rules' \in RuleSets
    BY <1>r, <1>2 DEF ChangeRules, vars, Review, Publishes, Post, Open, Rollback, staged, publishing
  <2> QED BY <2>1, OthersTurn
<1>3. ASSUME NEW q \in Requests, Commit(q) PROVE Turns'
  <2>1. row \in [Rows -> RowState] /\ UNCHANGED <<decisions, rules, work>>
    BY <1>3 DEF Inv, Shape, Commit
  <2>2. batch' # None
    <3>1. [status |-> request[q].status, published |-> request[q].published] \in BatchState
      BY <1>3 DEF Commit, Inv, Shape, Publications, Publication
    <3> QED BY <1>3, <3>1, BatchAssumption DEF Commit
  <2>3. \A r \in Rows : row'[r] = row[r] \/ row'[r] = [row[r] EXCEPT !.attempt = request[q].key]
    BY <1>3 DEF Commit
  <2>4. \A r \in Rows : /\ row'[r].revision = row[r].revision /\ row'[r].inclusion = row[r].inclusion
                        /\ row'[r].recheck = row[r].recheck /\ row'[r].status = row[r].status
    BY <2>1, <2>3 DEF RowState
  <2> QED BY <1>r, <2>1, <2>2, <2>4, OthersTurn
<1> QED
  BY <1>1, <1>2, <1>3 DEF Next, Publishes

LEMMA TurnsAlways ==
  ASSUME TakesTurns
  PROVE  Spec => [](Inv /\ Turns)
<1>1. Inv /\ Turns /\ [Next]_vars => (Inv /\ Turns)'
  BY InvStep, TurnsStep
<1> QED
  BY InitInv, InitTurns, <1>1, PTL DEF Spec

LEMMA TurnsGive == TakesTurns /\ Inv /\ Turns => CorrectionsBuildOnEachOther /\ StatusIsCurrent
<1> SUFFICES ASSUME TakesTurns, Inv, Turns PROVE CorrectionsBuildOnEachOther /\ StatusIsCurrent
  OBVIOUS
<1>1. DOMAIN row = Rows /\ DOMAIN work = Workers
  BY DEF Inv, Shape
<1>2. CorrectionsBuildOnEachOther
  BY <1>1 DEF CorrectionsBuildOnEachOther, Turns, Chained
<1>3. StatusIsCurrent
  BY <1>1 DEF StatusIsCurrent, Turns, Settled, Current, Judged
<1> QED BY <1>2, <1>3

\* As long as the batch has one handler at a time and its process does not die,
\* whatever revision of the rule book is activated and whatever is published in
\* the middle of its work: corrections of a row build on different revisions, and
\* a row that waits for no recheck has the status and the inclusion that its
\* findings and decisions give it.
THEOREM TurnsStand == Spec => []TurnsAddUp
<1>1. CASE TakesTurns
  <2>1. Inv /\ Turns => TurnsAddUp
    BY <1>1, TurnsGive DEF TurnsAddUp
  <2> QED BY <1>1, <2>1, TurnsAlways, PTL
<1>2. CASE ~TakesTurns
  <2>1. Inv => TurnsAddUp
    BY <1>2 DEF TakesTurns, TurnsAddUp, Inv, Shape
  <2> QED BY <2>1, Invariance, PTL
<1> QED BY <1>1, <1>2
=============================================================================
