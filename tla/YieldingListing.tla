---------------------------- MODULE YieldingListing ----------------------------
(***************************************************************************)
(* The pattern of peoplesoft, infotech and periscope: each page is yielded *)
(* row by row as it arrives.  A row without description is completed from  *)
(* its detail page first, inside the step that turns it into a record: an  *)
(* error raised there, whatever it is, only drops the row.                 *)
(***************************************************************************)
EXTENDS ConnectorRun

YieldNew(run, row, status) ==
  IF row.id \in Ids(run.out) THEN run
  ELSE LET more == Yield(run, row, status)
       IN IF Full(more, Lesser(run.limit, MaxResults)) THEN Done(more) ELSE more

\* A row is shown with the status that the class reads in it.
YieldRow(run, shown) ==
  LET row == shown[1] IN
  IF ~Active(run) THEN run
  ELSE IF run.stage = "detail" THEN [run EXCEPT !.queue = Append(@, row)]
  ELSE IF ~Usable(row) THEN run
  ELSE IF row.id \in Brief THEN [ToStage(run, "detail") EXCEPT !.queue = <<row>>]
  ELSE YieldNew(run, row, shown[2])

\* The rows of a page that are left, then the page after it; `status` is the
\* status that the class reads in each row.
YieldRest(run, rows, status) ==
  LET next == FoldLeft(YieldRow, [ToStage(run, "page") EXCEPT !.queue = <<>>],
                       [i \in DOMAIN rows |-> <<rows[i], status[rows[i]]>>])
  IN IF ~Active(next) \/ next.stage = "detail" THEN next
     ELSE IF run.ends \/ LastPage(run) THEN Done(next)
     ELSE NextPage(next)

\* A page seen before ends the run.
YieldPage(run, page, status) ==
  IF page.garbled THEN Failed(run, "malformed")
  ELSE IF page.rows \in run.marks THEN Done(run)
  ELSE YieldRest([run EXCEPT !.marks = @ \cup {page.rows},
                             !.ends = Len(page.rows) < PageSize], page.rows, status)

YieldDropped(run, status) == YieldRest(run, Tail(run.queue), status)

YieldDetail(run, status) ==
  LET row == Head(run.queue)
      next == YieldNew(run, row, status[row])
  IN IF Active(next) THEN YieldDropped(next, status) ELSE next
================================================================================
