------------------------------- MODULE Clocks -------------------------------
(***************************************************************************)
(* Time: dates (rtc_base/time_utils.cc), NTP time and the clocks           *)
(* (system_wrappers/include/ntp_time.h, source/clock.cc), timestamps that  *)
(* wrap, and the estimate of the NTP time of an RTP timestamp              *)
(* (system_wrappers/source/rtp_to_ntp_estimator.cc).                       *)
(*                                                                         *)
(* The widths are parameters: a second has MsPerSec milliseconds, UsPerSec *)
(* microseconds and FractionsPerSec units of NTP, and timestamps are taken *)
(* modulo Modulus.  Floating point is exact here.                          *)
(***************************************************************************)
EXTENDS RtpRtcp, Sequences

CONSTANTS
  SampleYears,        \* years whose days are all looked at
  LastYear,           \* bound: the last year
  MsPerSec, UsPerSec, FractionsPerSec,
  WrapRange,          \* TimestampWrapAroundHandler: 2^32
  MaxStamp,           \* bound: the last true timestamp
  kNumRtcpReportsToUse, kMaxAllowedRtcpNtpIntervalMs, MaxRtpJump,
  MaxReportTime,      \* bound: the sender's time
  MaxBogus            \* bound: reports that are not of the sender's clock

VARIABLES
  date, walked,       \* a date and the days since 1970-01-01
  trueStamp, newest,  \* the true timestamp at hand and the largest one
  last_ts, num_wrap,  \* TimestampWrapAroundHandler
  unwrapped,          \* what it returned
  est,                \* RtpToNtpEstimator: [list, params, invalid, last]
  sender, bogus       \* the sender's time, and reports that were not of the sender's clock

calVars == <<date, walked>>
stampVars == <<trueStamp, newest, last_ts, num_wrap, unwrapped>>
estVars == <<est, sender, bogus>>

CalInit == date = [year |-> 1970, month |-> 0, day |-> 1] /\ walked = 0

StampInit == /\ trueStamp = -1 /\ newest = -1 /\ unwrapped = -1
             /\ last_ts = 0 /\ num_wrap = -1

EstInit == est = [list |-> << >>, params |-> << >>, invalid |-> 0, last |-> -1]
           /\ sender = 0 /\ bogus = 0

-----------------------------------------------------------------------------
Leap(year) == year % 4 = 0 /\ (year % 100 # 0 \/ year % 400 = 0)

mdays == <<31, 28, 31, 30, 31, 30, 31, 31, 30, 31, 30, 31>>
cumul_mdays == <<0, 31, 59, 90, 120, 151, 181, 212, 243, 273, 304, 334>>

(* TmToSeconds, the days of it; the time of day is added as it is. *)
TmToDays(tm) ==
  LET leap == Leap(tm.year)
  IN  IF \/ tm.year < 1970 \/ tm.month \notin 0 .. 11
         \/ tm.day < 1 \/ tm.day > mdays[tm.month + 1] + (IF leap /\ tm.month = 1 THEN 1 ELSE 0)
      THEN -1
      ELSE (tm.year - 1970) * 365 + tm.day - 1 + cumul_mdays[tm.month + 1]
           + (tm.year \div 4 - 1970 \div 4) - (tm.year \div 100 - 1970 \div 100)
           + (tm.year \div 400 - 1970 \div 400)
           - (IF leap /\ tm.month <= 1 THEN 1 ELSE 0)

TmToSecondOfDay(hour, min, sec) ==
  IF hour \notin 0 .. 23 \/ min \notin 0 .. 59 \/ sec \notin 0 .. 59 THEN -1
  ELSE (hour * 60 + min) * 60 + sec

(* The calendar itself, for reference. *)
DaysOfMonth(year, month) ==
  CASE month = 1 -> IF Leap(year) THEN 29 ELSE 28
    [] month \in {3, 5, 8, 10} -> 30
    [] OTHER -> 31

Tomorrow(d) ==
  CASE d.day < DaysOfMonth(d.year, d.month) -> [d EXCEPT !.day = @ + 1]
    [] d.day = DaysOfMonth(d.year, d.month) /\ d.month < 11 ->
         [d EXCEPT !.day = 1, !.month = @ + 1]
    [] OTHER -> [year |-> d.year + 1, month |-> 0, day |-> 1]

CalNext ==
  \/ /\ date.year \in SampleYears
     /\ date' = Tomorrow(date) /\ walked' = walked + 1
  \/ /\ date.month = 0 /\ date.day = 1 /\ date.year < LastYear
     /\ date' = [date EXCEPT !.year = @ + 1]
     /\ walked' = walked + (IF Leap(date.year) THEN 366 ELSE 365)

(* A date has the number of days that the calendar has walked, and what is no
   date has none. *)
DatesCount ==
  /\ TmToDays(date) = walked
  /\ TmToDays([date EXCEPT !.day = 0]) = -1 /\ TmToDays([date EXCEPT !.month = 12]) = -1
  /\ TmToDays([date EXCEPT !.day = DaysOfMonth(date.year, date.month) + 1]) = -1
  /\ TmToSecondOfDay(23, 59, 59) = 86399 /\ TmToSecondOfDay(24, 0, 0) = -1

-----------------------------------------------------------------------------
(* TimestampWrapAroundHandler::Unwrap: [result, last, wraps]. *)
Step(ts) ==
  LET hi == WrapRange - WrapRange \div 16
      lo == WrapRange \div 16 - 1
      wraps == IF ts < last_ts /\ last_ts >= hi /\ ts < lo THEN num_wrap + 1 ELSE num_wrap
  IN  CASE num_wrap = -1 -> [result |-> ts, last |-> ts, wraps |-> 0]
        [] num_wrap # -1 /\ ts >= last_ts /\ ts - last_ts > hi ->
             [result |-> ts + (num_wrap - 1) * WrapRange, last |-> last_ts, wraps |-> num_wrap]
        [] OTHER -> [result |-> ts + wraps * WrapRange, last |-> ts, wraps |-> wraps]

(* The next timestamp, a sixteenth of the range at most from the newest one. *)
StampNext ==
  \E s \in 0 .. MaxStamp :
    /\ IF trueStamp = -1 THEN s < WrapRange
       ELSE s \in newest - WrapRange \div 32 .. newest + WrapRange \div 32
    /\ trueStamp' = s /\ newest' = IF s > newest THEN s ELSE newest
    /\ LET r == Step(s % WrapRange)
       IN  unwrapped' = r.result /\ last_ts' = r.last /\ num_wrap' = r.wraps

(* Timestamps that wrap are unwrapped to the ones that were meant. *)
StampsUnwrap == unwrapped = trueStamp

-----------------------------------------------------------------------------
Round(a, b) == IF a >= 0 THEN (2 * a + b) \div (2 * b) ELSE -((b - 2 * a) \div (2 * b))

(* NtpTime. *)
NtpToMs(ntp) == MsPerSec * ntp.sec + (2 * ntp.frac * MsPerSec + FractionsPerSec) \div (2 * FractionsPerSec)
NtpValue(ntp) == ntp.sec * FractionsPerSec + ntp.frac

Int64MsToQ32x32(ms) == Round(ms * FractionsPerSec, MsPerSec)
Q32x32ToInt64Ms(q) == Round(q * MsPerSec, FractionsPerSec)

(* TimeMicrosToNtp with the offset, and the simulated clock's conversion. *)
TimeMicrosToNtp(us, offset) ==
  [sec |-> (us + offset) \div UsPerSec,
   frac |-> (((us + offset) % UsPerSec) * FractionsPerSec) \div UsPerSec]

ConvertTimestampToNtpTime(us, epoch) ==
  [sec |-> us \div UsPerSec + epoch, frac |-> ((us % UsPerSec) * FractionsPerSec) \div UsPerSec]

(* SystemDependentNtpTime with GetSecondsAndFraction. *)
SystemDependentNtpTime(tv_sec, tv_usec, epoch) ==
  LET sec == tv_sec + epoch + tv_usec \div UsPerSec
  IN  [sec |-> sec, frac |-> (2 * (tv_usec % UsPerSec) * FractionsPerSec + UsPerSec) \div (2 * UsPerSec)]

(* The clocks agree up to the rounding of one fraction; time that goes on does
   not go back in NTP; milliseconds are off by less than one, and survive the
   fixed-point format. *)
ClocksAgree ==
  \A us \in 0 .. 2 * UsPerSec + 1 :
    LET real == TimeMicrosToNtp(us, 3 * UsPerSec)
        sys == SystemDependentNtpTime(0, us, 3)
    IN  /\ real = ConvertTimestampToNtpTime(us, 3)
        /\ NtpValue(sys) - NtpValue(real) \in {0, 1} /\ sys.frac < FractionsPerSec
        /\ NtpValue(real) < NtpValue(TimeMicrosToNtp(us + 1, 3 * UsPerSec))
        /\ LET off == NtpToMs(real) * UsPerSec - (us + 3 * UsPerSec) * MsPerSec
           IN  off > -UsPerSec /\ off < UsPerSec
        /\ \A ms \in {us, -us} : Q32x32ToInt64Ms(Int64MsToQ32x32(ms)) = ms

-----------------------------------------------------------------------------
(* The sender's clock: two ticks a millisecond. *)
NtpOf(t) == t + 1
RtpOf(t) == 2 * t

SumOf(list, f(_)) == LET s[i \in 0 .. Len(list)] == IF i = 0 THEN 0 ELSE s[i - 1] + f(list[i])
                     IN  s[Len(list)]

(* LinearRegression: the line through the mean with slope cov / var, scaled by
   the number of points; nothing without two different points. *)
LinearRegression(list) ==
  LET n == Len(list)
      sx == SumOf(list, LAMBDA m : m.rtp)
      sy == SumOf(list, LAMBDA m : m.ntp)
      var == n * SumOf(list, LAMBDA m : m.rtp * m.rtp) - sx * sx
      cov == n * SumOf(list, LAMBDA m : m.rtp * m.ntp) - sx * sy
  IN  IF n < 2 \/ var = 0 THEN << >>
      ELSE <<[n |-> n, sx |-> sx, sy |-> sy, var |-> var, cov |-> cov]>>

UpdateParameters(e) ==
  LET p == LinearRegression(e.list) IN IF p = << >> THEN e ELSE [e EXCEPT !.params = p]

(* RtcpMeasurement::IsEqual: one of the two times is enough. *)
Measured(list, m) == \E i \in DOMAIN list : list[i].ntp = m.ntp \/ list[i].rtp = m.rtp

InvalidSample(e, m) ==
  /\ e.list # << >>
  /\ LET old == Head(e.list)
     IN  \/ m.ntp <= old.ntp \/ m.ntp > old.ntp + kMaxAllowedRtcpNtpIntervalMs
         \/ m.rtp <= old.rtp \/ m.rtp - old.rtp > MaxRtpJump

ClearMeasurements(e) == [e EXCEPT !.list = << >>, !.params = << >>]

Insert(e, m) ==
  UpdateParameters([e EXCEPT !.invalid = 0,
    !.list = <<m>> \o (IF Len(@) = kNumRtcpReportsToUse THEN SubSeq(@, 1, Len(@) - 1) ELSE @)])

(* UpdateMeasurements: kMaxInvalidSamples is 3. *)
UpdateMeasurements(ntp, rtp) ==
  LET m == [ntp |-> ntp, rtp |-> Unwrap(rtp, est.last)]
      e == [est EXCEPT !.last = m.rtp]
  IN  est' = CASE Measured(e.list, m) \/ ntp = 0 -> e
               [] ~(Measured(e.list, m) \/ ntp = 0) /\ InvalidSample(e, m) ->
                    IF e.invalid + 1 < 3 THEN [e EXCEPT !.invalid = @ + 1]
                                         ELSE Insert(ClearMeasurements(e), m)
               [] OTHER -> Insert(e, m)

(* Estimate of an unwrapped timestamp, rounded. *)
EstimateOf(p, x) ==
  LET num == p.sy * p.var + p.cov * (p.n * x - p.sx)
      den == p.n * p.var
  IN  (2 * num + den) \div (2 * den)

(* Reports of the sender come in order, again, or late; some are not of its
   clock.  Estimate also moves the unwrapper. *)
EstNext ==
  \/ \E t \in sender - 1 .. sender + 2 :
       /\ t \in 0 .. MaxReportTime /\ sender' = IF t > sender THEN t ELSE sender
       /\ UpdateMeasurements(NtpOf(t), RtpOf(t) % Modulus) /\ UNCHANGED bogus
  \/ \E ntp \in {0, 2, MaxReportTime}, rtp \in {0, 3, Modulus - 1} :
       /\ bogus < MaxBogus /\ bogus' = bogus + 1 /\ UNCHANGED sender
       /\ UpdateMeasurements(ntp, rtp)
  \/ \E t \in {sender, sender - 1} :
       /\ t >= 0 /\ est.params # << >>
       /\ est' = [est EXCEPT !.last = Unwrap(RtpOf(t) % Modulus, @)]
       /\ UNCHANGED <<sender, bogus>>

(* The measurements grow in both times, so that the frequency is never zero, and
   the parameters are those of the present measurements; when all reports are of
   the sender's clock, the estimate of a timestamp is its true time. *)
EstimatesTrue ==
  /\ \A i \in 1 .. Len(est.list) - 1 :
       est.list[i].ntp > est.list[i + 1].ntp /\ est.list[i].rtp > est.list[i + 1].rtp
  /\ Len(est.list) <= kNumRtcpReportsToUse /\ est.invalid < 3
  /\ est.params = LinearRegression(est.list)
  /\ est.params # << >> => est.params[1].cov > 0
  /\ bogus = 0 /\ est.params # << >> =>
       \A t \in 0 .. MaxReportTime : EstimateOf(est.params[1], RtpOf(t)) = NtpOf(t)
=============================================================================
