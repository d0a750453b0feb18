-------------------------------- MODULE Klog --------------------------------
(***************************************************************************)
(* The kernel log of kernel/klog.c: a ring of the last KLOG_NENTRY records *)
(* with a level filter and counters.  Every interface function first runs  *)
(* klog_init when nobody has (the static state is zero at boot).           *)
(*                                                                         *)
(* A record is its level and a message; formatting, the tag and the time   *)
(* stamp are part of the message.  The console gets a record with printf.  *)
(***************************************************************************)
EXTENDS Integers, Sequences

CONSTANTS
  KLOG_NENTRY,  \* slots of the ring
  Level,        \* the levels callers pass, KLOG_DEBUG .. KLOG_FATAL and others
  Msg,          \* messages
  MaxLines,     \* what klog_dump is asked for
  MaxWritten    \* bound: records written, and filtered, since klog_init

DEBUG == 0
FATAL == 4

ASSUME KlogAssumption ==
  /\ KLOG_NENTRY \in Nat \ {0}
  /\ Level \subseteq Int
  /\ MaxLines \subseteq Int
  /\ MaxWritten \in Nat

VARIABLES
  ks,       \* the static struct ks
  console,  \* what the last call printed
  hist,     \* history: the records written since klog_init or klog_clear
  cleared   \* history: how many records klog_clear has dropped

vars == <<ks, console, hist, cleared>>

Entry == [level: Int, msg: Msg \cup {""}]
Blank == [level |-> 0, msg |-> ""]
Slot  == 0..(KLOG_NENTRY - 1)

Zeroed ==
  [inited |-> FALSE, level_threshold |-> 0, console_on |-> FALSE,
   ring |-> [k \in Slot |-> Blank], head |-> 0, count |-> 0,
   total_written |-> 0, overwritten |-> 0, filtered |-> 0]

Fresh == [Zeroed EXCEPT !.inited = TRUE, !.level_threshold = DEBUG, !.console_on = TRUE]

\* `if (!ks.inited) klog_init();'
Ready == IF ks.inited THEN ks ELSE Fresh

Init ==
  /\ ks = Zeroed
  /\ console = <<>>
  /\ hist = <<>>
  /\ cleared = 0

KlogInit ==
  /\ ks' = Fresh
  /\ console' = <<>>
  /\ hist' = <<>>
  /\ cleared' = 0

Clamp(level) == IF level < DEBUG THEN DEBUG ELSE IF level > FATAL THEN FATAL ELSE level

KlogSetLevel(level) ==
  /\ ks' = [Ready EXCEPT !.level_threshold = Clamp(level)]
  /\ console' = <<>>
  /\ UNCHANGED <<hist, cleared>>

KlogEnableConsole(on) ==
  /\ ks' = [Ready EXCEPT !.console_on = on]
  /\ console' = <<>>
  /\ UNCHANGED <<hist, cleared>>

\* klogf of a level below the threshold
Filter(level) ==
  /\ level < Ready.level_threshold
  /\ Ready.filtered < MaxWritten
  /\ ks' = [Ready EXCEPT !.filtered = @ + 1]
  /\ console' = <<>>
  /\ UNCHANGED <<hist, cleared>>

\* klogf of another: into the slot at head, over the oldest record when full
Write(level, msg) ==
  /\ level >= Ready.level_threshold
  /\ Ready.total_written < MaxWritten
  /\ LET s == Ready
         e == [level |-> level % 256, msg |-> msg]     \* (uint8)level
         full == s.count = KLOG_NENTRY
     IN  /\ ks' = [s EXCEPT !.ring[s.head] = e,
                            !.head = (s.head + 1) % KLOG_NENTRY,
                            !.count = IF full THEN s.count ELSE s.count + 1,
                            !.overwritten = IF full THEN @ + 1 ELSE @,
                            !.total_written = @ + 1]
         /\ console' = IF s.console_on THEN <<e>> ELSE <<>>
         /\ hist' = Append(hist, e)
  /\ UNCHANGED cleared

\* mutant of Printed: printing starts at the oldest record whatever max_lines is
PrintedFromOldest(s, max_lines) ==
  LET lines == IF max_lines <= 0 \/ max_lines > s.count THEN s.count ELSE max_lines
      oldest == (s.head + KLOG_NENTRY - s.count) % KLOG_NENTRY
  IN  [i \in 1..lines |-> s.ring[(oldest + (i - 1)) % KLOG_NENTRY]]

\* the records klog_dump(max_lines) prints
Printed(s, max_lines) ==
  LET lines == IF max_lines <= 0 \/ max_lines > s.count THEN s.count ELSE max_lines
      oldest == (s.head + KLOG_NENTRY - s.count) % KLOG_NENTRY
      tail == IF lines < s.count
                THEN (s.head + KLOG_NENTRY - lines) % KLOG_NENTRY ELSE oldest
  IN  [i \in 1..lines |-> s.ring[(tail + (i - 1)) % KLOG_NENTRY]]

KlogDump(max_lines) ==
  /\ ks' = Ready
  /\ console' = Printed(ks', max_lines)
  /\ UNCHANGED <<hist, cleared>>

\* mutant of KlogClear: one of the counters starts again
KlogClearTotal ==
  /\ ks' = [Ready EXCEPT !.head = 0, !.count = 0, !.total_written = 0]
  /\ cleared' = cleared + Ready.count
  /\ console' = <<>>
  /\ hist' = <<>>

\* mutant of KlogClear: the ring is rewound but not emptied
KlogClearHead ==
  /\ ks' = [Ready EXCEPT !.head = 0]
  /\ console' = <<>>
  /\ UNCHANGED <<hist, cleared>>

\* the counters stay
KlogClear ==
  /\ ks' = [Ready EXCEPT !.head = 0, !.count = 0]
  /\ cleared' = cleared + Ready.count
  /\ console' = <<>>
  /\ hist' = <<>>

\* klog_get_level and klog_get_stats
KlogGet ==
  /\ ks' = Ready
  /\ console' = <<>>
  /\ UNCHANGED <<hist, cleared>>

Next ==
  \/ KlogInit \/ KlogClear \/ KlogGet
  \/ \E level \in Level : KlogSetLevel(level) \/ Filter(level)
  \/ \E level \in Level, msg \in Msg : Write(level, msg)
  \/ \E on \in BOOLEAN : KlogEnableConsole(on)
  \/ \E n \in MaxLines : KlogDump(n)

Spec == Init /\ [][Next]_vars
-----------------------------------------------------------------------------
TypeOK ==
  /\ ks \in [inited: BOOLEAN, level_threshold: DEBUG..FATAL, console_on: BOOLEAN,
             ring: [Slot -> Entry], head: Slot, count: 0..KLOG_NENTRY,
             total_written: Nat, overwritten: Nat, filtered: Nat]
  /\ hist \in Seq(Entry)
  /\ cleared \in Nat

\* the last n records written
Recent(n) == [i \in 1..n |-> hist[Len(hist) - n + i]]

\* klog_dump prints the last max_lines records, all of them for max_lines <= 0,
\* oldest first and none twice, however often head has gone around the ring.
DumpIsRecent ==
  \A n \in MaxLines :
    Printed(Ready, n) = Recent(IF n <= 0 \/ n > Ready.count THEN Ready.count ELSE n)

\* The ring keeps as many records as it has room for, and the counters account
\* for every record: it is in the ring, was overwritten or was cleared.
CountersAddUp ==
  /\ ks.count = IF Len(hist) < KLOG_NENTRY THEN Len(hist) ELSE KLOG_NENTRY
  /\ ks.total_written = ks.count + ks.overwritten + cleared

\* The slots hold the records: the k-th last one is k slots behind head.
RingHolds ==
  \A k \in 1..ks.count :
    ks.ring[IF k <= ks.head THEN ks.head - k ELSE ks.head + KLOG_NENTRY - k]
      = hist[Len(hist) - k + 1]

\* Before klog_init nothing has happened.
NothingBeforeInit == ~ks.inited => ks = Zeroed /\ hist = <<>> /\ cleared = 0

IInv == TypeOK /\ CountersAddUp /\ RingHolds /\ NothingBeforeInit
=============================================================================
