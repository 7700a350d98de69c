-------------------------------- MODULE Grind --------------------------------
(***************************************************************************)
(* The profiler of src/src/tool/grind.c: grindees collect samples, every   *)
(* `res` samples make a datapoint, and a table of `tsize` datapoints is    *)
(* full, is reported, and is reset.  All grindees are reset when an        *)
(* interval of time is over.  Time is a number the environment raises, and *)
(* a call takes none.                                                      *)
(***************************************************************************)
EXTENDS Integers, Sequences

CONSTANTS Grindees,      \* the names
          Res,           \* params->res: samples for a datapoint
          Datapoints,    \* params->tsize: datapoints in a table
          Interval,      \* params->interval
          MaxTime        \* bound on the clock

\* grind_init asserts that res is positive; a table has room for a datapoint.
ASSUME GrindAssumption ==
  Res \in Nat \ {0} /\ Datapoints \in Nat \ {0} /\ Interval \in Nat /\ MaxTime \in Nat

VARIABLES grinder,  \* struct grinder
          clock     \* what gettime returns

grindVars == <<grinder, clock>>

GrindModes == {"count", "duration", "period"}
GrindFlags == {"interval", "reset_auto", "report_auto", "report_req_full"}

\* struct grindee, as grind_init makes it.  `start` is the start of a duration
\* or the last tick, `first` that the next tick has none before it.  Ghosts:
\* the samples since the last reset, the time of the first of them, and what
\* that reset left in `accum`.
NewGrindee(mode) ==
  [count |-> 0, table |-> <<>>, full |-> FALSE, accum |-> 0, active |-> FALSE,
   start |-> 0, first |-> mode = "period",
   samples |-> <<>>, since |-> 0, carried |-> 0]

\* grind_init leaves in_interval and interval_start as the allocator gave them.
GrindNew(mode, flags, inInterval, intervalStart) ==
  [mode |-> mode, flags |-> flags, avail |-> FALSE,
   in_interval |-> inInterval, interval_start |-> intervalStart,
   grindees |-> [g \in Grindees |-> NewGrindee(mode)]]

\* grind_reset: `accum` and `active` stay as they are.
Reset(gr, g) ==
  LET old == gr.grindees[g] IN
  [gr EXCEPT !.grindees[g] =
     [old EXCEPT !.table = <<>>, !.count = 0, !.full = FALSE,
                 !.first = gr.mode = "period",
                 !.start = IF gr.mode = "period" THEN 0 ELSE @,
                 !.samples = <<>>, !.since = 0, !.carried = old.accum]]

\* grind_reset_all
ResetAll(gr) ==
  [gr EXCEPT !.grindees = [g \in Grindees |-> Reset(gr, g).grindees[g]], !.in_interval = FALSE]

Cyclic(gr) == {"interval", "reset_auto"} \subseteq gr.flags

ResetIfOver(gr) ==
  IF Cyclic(gr) /\ clock - gr.interval_start >= Interval THEN ResetAll(gr) ELSE gr

\* grind_housekeeping_pre_capture fails for a full grindee, unless both flags
\* are given.
PreCaptureOk(g) == grinder.grindees[g].full => Cyclic(grinder)

PreCapture(gr, g) ==
  LET emptied == IF gr.grindees[g].full THEN Reset(gr, g) ELSE gr
  IN  ResetIfOver(IF "interval" \in gr.flags /\ ~emptied.in_interval
                  THEN [emptied EXCEPT !.interval_start = clock, !.in_interval = TRUE]
                  ELSE emptied)

\* grind_report: what it prints is left out, and both report_time and
\* report_count end in a reset.
Report(gr, g) ==
  IF "report_req_full" \in gr.flags /\ ~gr.grindees[g].full THEN gr ELSE Reset(gr, g)

\* Mutant of PostCapture: no look at the interval.
PostCaptureUnbounded(gr, g) ==
  IF gr.grindees[g].full /\ "report_auto" \in gr.flags THEN Report(gr, g) ELSE gr

\* grind_housekeeping_post_capture
PostCapture(gr, g) ==
  LET told == IF gr.grindees[g].full /\ "report_auto" \in gr.flags THEN Report(gr, g) ELSE gr
  IN  ResetIfOver(IF gr.mode = "duration" THEN [told EXCEPT !.grindees[g].active = FALSE] ELSE told)

\* What the three captures share: a sample is added, and with the last of `res`
\* a datapoint.  A count's datapoint is 1: count / RCSW_GRIND_INTERVAL is 0.
AddSample(gr, g, sample) ==
  LET counted == gr.mode = "count"
      old  == gr.grindees[g]
      one  == [old EXCEPT !.accum = @ + sample, !.count = @ + 1,
                          !.samples = Append(@, sample),
                          !.since = IF old.samples = <<>> THEN clock ELSE @]
      full == Len(one.table) + 1 = Datapoints
  IN  IF one.count < Res THEN [gr EXCEPT !.grindees[g] = one]
      ELSE [gr EXCEPT
             !.grindees[g] =
               [one EXCEPT !.table = Append(@, IF counted THEN 1 ELSE one.accum \div Res),
                           !.count = 0, !.accum = 0, !.full = full],
             !.avail = @ \/ full]

\* A capture whose pre_capture ended in gr: nothing is added to a full grindee.
Captured(gr, g, sample) ==
  PostCapture(IF gr.grindees[g].full THEN gr ELSE AddSample(gr, g, sample), g)

-----------------------------------------------------------------------------
\* Without RCSW_GRIND_INTERVAL the first datapoint of a count divides by zero.
GrindInit ==
  /\ \E mode \in GrindModes, flags \in SUBSET GrindFlags, in \in BOOLEAN, at \in {-Interval, 0} :
       /\ mode = "count" => "interval" \in flags
       /\ "interval" \notin flags => ~in /\ at = 0
       /\ grinder = GrindNew(mode, flags, in, at)
  /\ clock = 0

GrindPass == clock < MaxTime /\ clock' = clock + 1 /\ UNCHANGED grinder

\* grind_capture_start: ts_capture toggles, so that a second start in a row
\* ends the capture without a sample.
GrindStart(g) ==
  LET gr  == PreCapture(grinder, g)
      old == gr.grindees[g]
      toggled == [old EXCEPT !.active = ~old.active,
                             !.start = IF old.active THEN old.start ELSE clock]
  IN
  /\ grinder.mode = "duration" /\ PreCaptureOk(g)
  /\ grinder' = [gr EXCEPT !.grindees[g] = toggled]
  /\ UNCHANGED clock

\* grind_capture_end
GrindEnd(g) ==
  /\ grinder.mode = "duration" /\ grinder.grindees[g].active
  /\ grinder' = Captured(grinder, g, clock - grinder.grindees[g].start)
  /\ UNCHANGED clock

\* grind_capture_tick: the first tick after a reset has nothing to be measured
\* from, and returns without the housekeeping.
GrindTick(g) ==
  LET gr     == PreCapture(grinder, g)
      ticked == [gr EXCEPT !.grindees[g] = [@ EXCEPT !.start = clock, !.first = FALSE]]
  IN  /\ grinder.mode = "period" /\ PreCaptureOk(g)
      /\ grinder' = IF gr.grindees[g].first THEN ticked
                    ELSE Captured(ticked, g, clock - gr.grindees[g].start)
      /\ UNCHANGED clock

\* grind_capture_count
GrindCount(g) ==
  /\ grinder.mode = "count" /\ PreCaptureOk(g)
  /\ grinder' = Captured(PreCapture(grinder, g), g, 0)
  /\ UNCHANGED clock

\* grind_report and grind_reset, called by the user
GrindReport(g) == grinder' = Report(grinder, g) /\ UNCHANGED clock
GrindReset(g) == grinder' = Reset(grinder, g) /\ UNCHANGED clock
GrindResetAll == grinder' = ResetAll(grinder) /\ UNCHANGED clock

GrindNext ==
  \/ GrindPass
  \/ GrindResetAll
  \/ \E g \in Grindees : \/ GrindStart(g) \/ GrindEnd(g) \/ GrindTick(g) \/ GrindCount(g)
                         \/ GrindReport(g) \/ GrindReset(g)

-----------------------------------------------------------------------------
Total(s) ==
  LET sum[n \in 0 .. Len(s)] == IF n = 0 THEN 0 ELSE sum[n - 1] + s[n] IN sum[Len(s)]

\* The k-th datapoint of a grindee is the average of its own `res` samples.
IsAverage(it, k) == it.table[k] = Total(SubSeq(it.samples, Res * (k - 1) + 1, Res * k)) \div Res

\* What grind.h says of grind_reset and of `res`: the statistics are reset, and
\* `res` collected samples are averaged to form a datapoint.
ResetsForget ==
  grinder.mode # "count" =>
    \A g \in Grindees : \A k \in DOMAIN grinder.grindees[g].table : IsAverage(grinder.grindees[g], k)

\* Every datapoint is the average of its own samples, all of them taken since
\* the last reset, and nothing is sampled twice or lost; only of the first one
\* after a reset in the middle of a datapoint, which leaves `accum` as it is,
\* nothing is said.  With an interval, no sample is kept that was taken after its
\* end, although it ends while captures of several grindees are under way (the
\* two housekeeping functions and the resets of grind.c).  A capture that ends
\* after the user's grind_reset_all may be kept from before its start.
GrindDatapoints ==
  \A g \in Grindees :
    LET it == grinder.grindees[g] IN
    /\ Len(it.samples) = Res * Len(it.table) + it.count
    /\ it.count < Res
    /\ it.full <=> Len(it.table) = Datapoints
    /\ grinder.mode # "count" =>
         \A k \in DOMAIN it.table : (k = 1 /\ it.carried # 0) \/ IsAverage(it, k)
    /\ Cyclic(grinder) /\ it.samples # <<>> =>
         it.since - grinder.interval_start < Interval
=============================================================================
