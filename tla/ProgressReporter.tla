--------------------------- MODULE ProgressReporter ---------------------------
(***************************************************************************)
(* common::progress_reporter (snail/common/progress.{hpp,cpp}) as a value:  *)
(* a record with its data members and what its listener was told so far.   *)
(* A listener is to hear of every step; its resolution, the share of a step *)
(* in the work, is the fraction <<n, d>>.  The doubles of the code are the *)
(* exact fractions they stand for.                                         *)
(***************************************************************************)
EXTENDS Integers, Sequences

\* The work at which step n begins, rounded up.
WorkOfStep(total, resolution, n) ==
  (total * resolution[1] * n + resolution[2] - 1) \div resolution[2]

\* The constructor.  reports has the work at each call of report().
Reporter(total, resolution) ==
  [total_work |-> total, resolution |-> resolution, current_work |-> 0,
   next_report_step |-> 1, next_report_work |-> WorkOfStep(total, resolution, 1),
   reports |-> <<0>>, finished |-> FALSE]

\* The part of progress() after a report: what the next one waits for.
advanced_past_the_end(r) ==
  LET current_step == (r.current_work * r.resolution[2]) \div (r.total_work * r.resolution[1])
      step == IF r.next_report_step + 1 > current_step + 1
              THEN r.next_report_step + 1 ELSE current_step + 1
  IN  [r EXCEPT !.next_report_step = step,
                !.next_report_work = WorkOfStep(r.total_work, r.resolution, step)]
advanced(r) ==
  LET current_step == (r.current_work * r.resolution[2]) \div (r.total_work * r.resolution[1])
      step == IF r.next_report_step + 1 > current_step + 1
              THEN r.next_report_step + 1 ELSE current_step + 1
      work == WorkOfStep(r.total_work, r.resolution, step)
      last == r.current_work < r.total_work /\ work > r.total_work
  IN  [r EXCEPT !.next_report_step = IF last THEN step - 1 ELSE step,
                !.next_report_work = IF last THEN r.total_work ELSE work]

\* progress()
Progressed(r, work) ==
  LET s == [r EXCEPT !.current_work = @ + work]
  IN  IF s.current_work < s.next_report_work THEN s
      ELSE advanced([s EXCEPT !.reports = Append(@, s.current_work)])

\* finish()
Finished(r) ==
  [r EXCEPT !.reports = IF r.current_work < r.total_work THEN Append(@, r.total_work) ELSE @,
            !.finished = TRUE]
=============================================================================
