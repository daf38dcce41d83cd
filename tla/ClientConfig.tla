---------------------------- MODULE ClientConfig ----------------------------
(***************************************************************************)
(* What the backup commands resolve before they do anything: the config    *)
(* file (crates/busyncr-client/src/config.rs), the interval and the        *)
(* schedule (crates/busyncr-core/src/scheduler.rs).                        *)
(*                                                                         *)
(* A config file is [readable, folders, committed, size]: how many folders *)
(* it lists and the chunk size it commits to, if it does.  An interval is  *)
(* <<number, unit>>, or <<>> where it does not parse; a jitter is in       *)
(* percent.                                                                *)
(***************************************************************************)
EXTENDS ChunkerConfig

CONSTANTS
    DEFAULT_TARGET_SIZE,
    MINUTE, HOUR,       \* in seconds
    U64_MAX

load_config(conf) == conf.readable /\ conf.folders > 0

chunker(conf, allow_default) ==
    IF conf.committed THEN Parses(conf.size) /\ with_target(parse_size(conf.size))
    ELSE allow_default /\ with_target(DEFAULT_TARGET_SIZE)

Seconds(unit) == CASE unit = "h" -> HOUR [] unit = "m" -> MINUTE [] unit \in {"s", ""} -> 1
parse_interval(interval) == interval[1] * Seconds(interval[2])
IntervalParses(interval) == interval # <<>> /\ parse_interval(interval) <= U64_MAX

SchedulePolicy(interval, jitter) ==
    IntervalParses(interval) /\ parse_interval(interval) > 0 /\ jitter \in 0 .. 100

\* The delays next_delay can draw, in whole seconds.
next_delay(interval, jitter) ==
    LET base == parse_interval(interval)
    IN  (base * (100 - jitter)) \div 100 .. (base * (100 + jitter)) \div 100
=============================================================================
