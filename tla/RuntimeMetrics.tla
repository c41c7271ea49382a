----------------------------- MODULE RuntimeMetrics -----------------------------
(***************************************************************************)
(* The metrics of the server (ccr-app-core/src/metrics.rs): a window of    *)
(* the latest records in memory and a JSONL file of limited size.  There   *)
(* are two such pairs, of attempts and of requests, with the same code.    *)
(*                                                                         *)
(* A record is appended under the mutex of the store and that of the file; *)
(* its line and its line feed are two writes.  When the file is too large, *)
(* a thread of its own rewrites it with the latest records that fit.  A    *)
(* server that starts reads the file, and rewrites it if need be, without  *)
(* the mutex.  That would not help anyway against another process: a       *)
(* server that still drains, or that is started a second time, works on    *)
(* the same file.  Every error is ignored, and a server may end anywhere.  *)
(***************************************************************************)
EXTENDS Naturals, FiniteSets, SequencesExt

CONSTANTS
    Servers,     \* processes
    MaxRecords,  \* bound of the model: how many records there are
    Weight,      \* record -> the size of its line
    MaxBytes,    \* DEFAULT_MAX_METRICS_FILE_BYTES
    Window,      \* max_attempts, max_requests
    MaxThreads,  \* bound of the model: retention threads of a server
    LineFeed,
    Torn, Broken \* parts of a line; Broken ends inside a character of several bytes

Records == 1..MaxRecords

ASSUME RuntimeMetricsAssumption ==
    /\ MaxRecords \in Nat /\ MaxBytes \in Nat /\ MaxThreads \in Nat
    /\ Window \in Nat \ {0}
    /\ Weight \in [Records -> Nat \ {0}]
    /\ LineFeed \notin Records /\ Torn \notin Records /\ Broken \notin Records
    /\ LineFeed # Torn /\ LineFeed # Broken

VARIABLES
    file,     \* what is written one after the other: records, parts of them, line feeds
    server,   \* the state of each process, see Down
    next,     \* the next record
    log,      \* history variable: the records whose line has been written
    cuts,     \* history variable: lines that were not written to their end
    raced,    \* history variable: two processes met in the file, or a rewrite was cut
    ignored   \* history variable: an error hid the size of the file

vars == <<file, server, next, log, cuts, raced, ignored>>

\* The window, the steps of the thread that appends a record and of the one that loads or
\* rewrites the file, and the retention threads that wait.  `sole` is a history variable:
\* the server has been the only one since it started, and has read and appended without an
\* error.
Down == [up |-> FALSE, memory |-> <<>>, append |-> "idle", record |-> 0,
         keeper |-> "idle", seen |-> <<>>, over |-> FALSE, waiting |-> 0, sole |-> FALSE]

Init ==
    /\ file = <<>>
    /\ server = [s \in Servers |-> Down]
    /\ next = 1 /\ log = <<>>
    /\ cuts = 0 /\ raced = FALSE /\ ignored = FALSE

--------------------------------------------------------------------------------
\* What the records take in the file, with their line feeds.
Size(f) ==
    LET sum[n \in 0..Len(f)] ==
          IF n = 0 THEN 0 ELSE sum[n - 1] + (IF f[n] \in Records THEN Weight[f[n]] ELSE 0)
    IN  sum[Len(f)]

TooLarge == Size(file) > MaxBytes

\* A line that parses holds a record and nothing else; the last line needs no end.
Parses(f, i) ==
    /\ f[i] \in Records
    /\ i = 1 \/ f[i - 1] = LineFeed
    /\ i = Len(f) \/ f[i + 1] = LineFeed

\* The records of the lines that parse, line after line.
Whole(f) ==
    LET read[n \in 0..Len(f)] ==
          IF n = 0 THEN <<>>
          ELSE IF Parses(f, n) THEN Append(read[n - 1], f[n]) ELSE read[n - 1]
    IN  read[Len(f)]

\* The file is read as a whole, as text: one broken character anywhere, and nothing of
\* it is read (read_to_string).
IsText(f) == Broken \notin ToSet(f)

\* What a reader gets: the lines that parse, of a file that is text.
Readable(f) == IF IsText(f) THEN Whole(f) ELSE <<>>

From(records, i) == SubSeq(records, i, Len(records))

Latest(records, n) == IF Len(records) > n THEN From(records, Len(records) - n + 1) ELSE records

\* Mutant: retention keeps the oldest records that fit.
OldestKept(records) ==
    LET fits == {i \in DOMAIN records : i = 1 \/ Size(SubSeq(records, 1, i)) <= MaxBytes}
    IN  IF records = <<>> THEN <<>> ELSE SubSeq(records, 1, Max(fits))

\* The latest records that fit, and the last one in any case.
Kept(records) ==
    LET fits == {i \in DOMAIN records : i = Len(records) \/ Size(From(records, i)) <= MaxBytes}
    IN  IF records = <<>> THEN <<>> ELSE From(records, Min(fits))

Lines(records) ==
    [i \in 1..(2 * Len(records)) |-> IF i % 2 = 0 THEN LineFeed ELSE records[(i + 1) \div 2]]

--------------------------------------------------------------------------------
(***************************************************************************)
(* RuntimeMetricsStore::record and record_request                          *)
(***************************************************************************)
\* The mutex of the file is free: nobody else of this process is at the file.
FileFree(s) == server[s].append = "idle" /\ server[s].keeper = "idle"

Record(s) ==
    /\ server[s].up /\ FileFree(s) /\ next <= MaxRecords
    /\ next' = next + 1
    /\ server' = [server EXCEPT ![s].append = "line", ![s].record = next]
    /\ UNCHANGED <<file, log, cuts, raced, ignored>>

\* Others are between the line and the line feed, or have read what they will rewrite.
Meets(s) == \E t \in Servers \ {s} :
               server[t].append = "feed" \/ server[t].keeper \in {"truncate", "fill"}

WriteLine(s) ==
    /\ server[s].append = "line"
    /\ file' = Append(file, server[s].record)
    /\ log' = Append(log, server[s].record)
    /\ server' = [server EXCEPT ![s].append = "feed"]
    /\ raced' = (raced \/ Meets(s))
    /\ UNCHANGED <<next, cuts, ignored>>

WriteFeed(s) ==
    /\ server[s].append = "feed"
    /\ file' = Append(file, LineFeed)
    /\ server' = [server EXCEPT ![s].append = "check"]
    /\ raced' = (raced \/ Meets(s))
    /\ UNCHANGED <<next, log, cuts, ignored>>

\* The record is put into the window.
Remembered(s) ==
    [server[s] EXCEPT !.append = "idle", !.record = 0,
                      !.memory = Latest(Append(@, server[s].record), Window)]

\* The file cannot be opened, or the disk is full: a line is cut anywhere, also inside a
\* character, because texts are written as they are (serde_json escapes none of them).
AppendFails(s) ==
    /\ server[s].append \in {"line", "feed"}
    /\ \/ /\ server[s].append = "line"
          /\ UNCHANGED <<file, cuts>>
       \/ /\ server[s].append = "line"
          /\ \E part \in {Torn, Broken} : file' = Append(file, part)
          /\ cuts' = cuts + 1
       \/ /\ server[s].append = "feed"
          /\ cuts' = cuts + 1
          /\ UNCHANGED file
    /\ server' = [server EXCEPT ![s] = [Remembered(s) EXCEPT !.sole = FALSE]]
    /\ raced' = (raced \/ Meets(s))
    /\ ignored' = TRUE
    /\ UNCHANGED <<next, log>>

\* Mutant: the size is looked at before the record is in the file.
FinishEarly(s) ==
    /\ server[s].append = "check"
    /\ LET late == Size(file) - Weight[server[s].record] > MaxBytes
       IN  server' = [server EXCEPT ![s] =
             [Remembered(s) EXCEPT !.waiting = IF late THEN @ + 1 ELSE @]]
    /\ ignored' = FALSE
    /\ UNCHANGED <<file, next, log, cuts, raced>>

\* The size is looked at, and a thread started if it is too large; the system may
\* have none to give.
Finish(s) ==
    /\ server[s].append = "check"
    /\ \E thread \in BOOLEAN :
         /\ thread => TooLarge /\ server[s].waiting < MaxThreads
         /\ server' = [server EXCEPT ![s] =
              [Remembered(s) EXCEPT !.waiting = IF thread THEN @ + 1 ELSE @]]
         /\ ignored' = (TooLarge /\ ~thread)
    /\ UNCHANGED <<file, next, log, cuts, raced>>

--------------------------------------------------------------------------------
(***************************************************************************)
(* Retention, and the start of a server                                    *)
(***************************************************************************)
\* main loads the metrics before it binds its port: also a server that will find
\* the port taken.
Start(s) ==
    /\ server[s] = Down
    /\ server' = [t \in Servers |->
         IF t = s THEN [Down EXCEPT !.keeper = "load", !.over = TooLarge,
                                    !.sole = \A o \in Servers : server[o] = Down]
         ELSE [server[t] EXCEPT !.sole = FALSE]]
    /\ ignored' = FALSE
    /\ UNCHANGED <<file, next, log, cuts, raced>>

\* A retention thread has the mutex; perhaps another one has done its work.
Measure(s) ==
    /\ server[s].waiting > 0 /\ FileFree(s)
    /\ server' = [server EXCEPT ![s].waiting = @ - 1, ![s].over = TooLarge,
                                ![s].keeper = IF TooLarge THEN "read" ELSE "idle"]
    /\ UNCHANGED <<file, next, log, cuts, raced, ignored>>

\* Mutant: the window is filled with the oldest records.
DoneOldest(s, records) ==
    IF server[s].up THEN [server[s] EXCEPT !.keeper = "idle", !.seen = <<>>, !.over = FALSE]
    ELSE [Down EXCEPT !.up = TRUE, !.sole = server[s].sole,
                      !.memory = SubSeq(records, 1, Min({Window, Len(records)}))]

\* A server that starts is up when its window is filled.
Done(s, records) ==
    IF server[s].up THEN [server[s] EXCEPT !.keeper = "idle", !.seen = <<>>, !.over = FALSE]
    ELSE [Down EXCEPT !.up = TRUE, !.sole = server[s].sole, !.memory = Latest(records, Window)]

\* Mutant: the reader stops at the first line that does not parse.
ReadUntilBad(s) ==
    /\ server[s].keeper \in {"load", "read"} /\ IsText(file)
    /\ LET bad  == {i \in DOMAIN file : file[i] # LineFeed /\ ~Parses(file, i)}
           good == IF bad = {} THEN file ELSE SubSeq(file, 1, Min(bad) - 1)
       IN  server' = [server EXCEPT ![s] =
             IF server[s].over THEN [@ EXCEPT !.keeper = "truncate", !.seen = Readable(good)]
             ELSE Done(s, Readable(good))]
    /\ UNCHANGED <<file, next, log, cuts, raced, ignored>>

Read(s) ==
    /\ server[s].keeper \in {"load", "read"} /\ IsText(file)
    /\ server' = [server EXCEPT ![s] =
         IF server[s].over THEN [@ EXCEPT !.keeper = "truncate", !.seen = Readable(file)]
         ELSE Done(s, Readable(file))]
    /\ raced' = (raced \/ (server[s].over /\ \E t \in Servers \ {s} :
                             server[t].keeper \in {"truncate", "fill"}))
    /\ UNCHANGED <<file, next, log, cuts, ignored>>

Truncate(s) ==
    /\ server[s].keeper = "truncate"
    /\ file' = <<>>
    /\ server' = [server EXCEPT ![s].keeper = "fill"]
    /\ UNCHANGED <<next, log, cuts, raced, ignored>>

\* What others have appended meanwhile is overwritten, as far as it goes.
Fill(s) ==
    /\ server[s].keeper = "fill"
    /\ LET lines == Lines(Kept(server[s].seen))
       IN  file' = lines \o From(file, Len(lines) + 1)
    /\ server' = [server EXCEPT ![s] = Done(s, server[s].seen)]
    /\ UNCHANGED <<next, log, cuts, raced, ignored>>

\* Mutant: what cannot be read is taken for empty, and rewritten if it is too large.
ReadFailsAsEmpty(s) ==
    /\ server[s].keeper \in {"load", "read"}
    /\ server' = [server EXCEPT ![s] =
         IF server[s].over THEN [@ EXCEPT !.keeper = "truncate", !.seen = <<>>]
         ELSE [Done(s, <<>>) EXCEPT !.sole = FALSE]]
    /\ ignored' = TRUE
    /\ UNCHANGED <<file, next, log, cuts, raced>>

\* The file cannot be read, or is no text any more, and then always: it is left as it is.
ReadFails(s) ==
    /\ server[s].keeper \in {"load", "read"}
    /\ server' = [server EXCEPT ![s] = [Done(s, <<>>) EXCEPT !.sole = FALSE]]
    /\ ignored' = TRUE
    /\ UNCHANGED <<file, next, log, cuts, raced>>

\* The file cannot be opened, or not be written.
RewriteFails(s) ==
    /\ server[s].keeper \in {"truncate", "fill"}
    /\ server' = [server EXCEPT ![s] = Done(s, server[s].seen)]
    /\ raced' = (raced \/ server[s].keeper = "fill")
    /\ ignored' = TRUE
    /\ UNCHANGED <<file, next, log, cuts>>

\* The process ends, by a signal, a crash, or because its port is taken.
Exit(s) ==
    /\ server[s] # Down
    /\ server' = [server EXCEPT ![s] = Down]
    /\ cuts' = IF server[s].append = "feed" THEN cuts + 1 ELSE cuts
    /\ raced' = (raced \/ server[s].keeper = "fill")
    /\ ignored' = TRUE
    /\ UNCHANGED <<file, next, log>>

Next ==
    \E s \in Servers :
      \/ Record(s) \/ WriteLine(s) \/ WriteFeed(s) \/ AppendFails(s) \/ Finish(s)
      \/ Start(s) \/ Measure(s) \/ Read(s) \/ ReadFails(s) \/ Truncate(s) \/ Fill(s)
      \/ RewriteFails(s) \/ Exit(s)

Spec == Init /\ [][Next]_vars

--------------------------------------------------------------------------------
Rewriting == \E s \in Servers : server[s].keeper = "fill"

\* The file keeps the most recent records ("保留可解析的最近 JSONL 记录"): retention drops
\* none but the oldest, and none that it need not drop, through any number of appends,
\* rewrites, ends and restarts, and also while a server drains and its successor is
\* up, as long as no line is cut and no two processes are at the file at once.
KeepsTheRecent ==
    cuts = 0 /\ ~raced /\ ~Rewriting =>
        \E i \in 1..(Len(log) + 1) :
          /\ Readable(file) = From(log, i)
          /\ i = 1 \/ (log # <<>> /\ i <= Len(log) /\ Size(From(log, i - 1)) > MaxBytes)

\* A line that was cut costs at most the record in it and the one that is appended to
\* it: of the records since the oldest that is left, the file has all others in lines
\* that parse.  If the file is text, these are what is read.  If a line was cut inside a
\* character, nothing is read any more, by anybody, and retention never succeeds again;
\* but a file that cannot be read is not taken for an empty one: the records are still in
\* it, and readable once that line is removed.
CutsAreLocal ==
    ~raced /\ ~Rewriting =>
        LET left == Whole(file)
            lost == {i \in DOMAIN log :
                       /\ log[i] \notin ToSet(left)
                       /\ \A j \in (i + 1)..Len(log) : left = <<>> \/ log[j] # left[1]}
        IN  Cardinality(lost) <= 2 * cuts

\* No restart brings back what the window does not show: the window of a server that
\* has been alone ends with the latest records of the file, although retention rewrites
\* the file while records are appended.
WindowIsRecent ==
    \A s \in Servers :
      server[s].up /\ server[s].sole /\ FileFree(s) /\ cuts = 0 /\ ~raced =>
        IsSuffix(Latest(Readable(file), Window), server[s].memory)

\* A file that is too large is looked after, unless an error kept it from being
\* noticed: while a server is up, a retention thread waits for it or is at it.  (One
\* record that is too large by itself stays.  A file that is no text is looked after
\* in vain.)
OversizeIsNoticed ==
    TooLarge /\ Len(Whole(file)) > 1 /\ ~ignored /\ ~raced
        /\ (\E s \in Servers : server[s].up) =>
        \E s \in Servers : \/ server[s].waiting > 0
                           \/ server[s].append # "idle"
                           \/ server[s].keeper # "idle"

================================================================================
