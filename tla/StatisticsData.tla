--------------------------- MODULE StatisticsData ---------------------------
(***************************************************************************)
(* The statistics samples kept in the database: insertion, with the last   *)
(* reported value that turns a counter into increments; removal of old     *)
(* samples; dump to a file and load from it; and get_data(), which selects *)
(* samples by time and aggregates them into bins.                          *)
(*                                                                         *)
(* One list of samples (a DataContainer) holds what an entity reports of a *)
(* kind of data, for the kinds about two entities one list for each remote *)
(* entity, and for SAMPLE_DATAS one for each sequence number.  An empty    *)
(* list and a key absent from a MapDataContainer are the same here.        *)
(*                                                                         *)
(* Time is a small integer.  A sample carries the time of its source,      *)
(* whose clock may step back.  A counter never decreases at its source and *)
(* samples of one source arrive in the order they were sent.               *)
(***************************************************************************)
EXTENDS Integers, Sequences, FiniteSets, SequencesExt, FiniteSetsExt

CONSTANTS
  Entities,         (* participants, datawriters, datareaders and locators *)
  KindOf,           (* the EntityKind of each                              *)
  DataKinds,        (* the kinds of data that are reported                 *)
  SequenceNumbers,  (* of the samples that SAMPLE_DATAS is about           *)
  NoKey,            (* the remote of a kind of data about one entity       *)
  Base,             (* 2^64, the base of the two digits of a byte counter  *)
  Queries,          (* the parameters get_data() is called with            *)
  MaxTime,          (* bound: times are 1 .. MaxTime                       *)
  MaxCount,         (* bound: the largest value of a counter               *)
  MaxSamples,       (* bound: number of samples received                   *)
  MaxCalls,         (* bound: number of calls that clear or dump data      *)
  ConcurrentClear   (* may data be removed while get_data() is running?    *)

(* What a kind of data is about.  Any remote will do for DISCOVERY_TIME.    *)
OfParticipant == {"NETWORK_LATENCY", "RTPS_PACKETS_SENT", "RTPS_BYTES_SENT",
  "RTPS_PACKETS_LOST", "RTPS_BYTES_LOST", "PDP_PACKETS", "EDP_PACKETS", "DISCOVERY_TIME"}
OfReader == {"SUBSCRIPTION_THROUGHPUT", "ACKNACK_COUNT", "NACKFRAG_COUNT"}
ByteCounters == {"RTPS_BYTES_SENT", "RTPS_BYTES_LOST"}
Counters == ByteCounters \cup {"RTPS_PACKETS_SENT", "RTPS_PACKETS_LOST", "RESENT_DATA",
  "HEARTBEAT_COUNT", "ACKNACK_COUNT", "NACKFRAG_COUNT", "GAP_COUNT", "DATA_COUNT",
  "PDP_PACKETS", "EDP_PACKETS"}

SourceKind(kind) ==
  CASE kind \in OfParticipant -> "PARTICIPANT"
    [] kind \in OfReader -> "DATAREADER"
    [] OTHER -> "DATAWRITER"

TargetKinds(kind) ==
  CASE kind = "FASTDDS_LATENCY" -> {"DATAREADER"}
    [] kind = "DISCOVERY_TIME" -> {"PARTICIPANT", "DATAREADER", "DATAWRITER"}
    [] kind \in {"NETWORK_LATENCY", "RTPS_PACKETS_SENT", "RTPS_PACKETS_LOST"} \cup ByteCounters
         -> {"LOCATOR"}
    [] OTHER -> {}

Keys(kind) ==
  CASE kind = "SAMPLE_DATAS" -> SequenceNumbers
    [] TargetKinds(kind) # {} -> {e \in Entities : KindOf[e] \in TargetKinds(kind)}
    [] OTHER -> {NoKey}

Lists == UNION {{<<kind, e, key>> : e \in {x \in Entities : KindOf[x] = SourceKind(kind)},
                                    key \in Keys(kind)} : kind \in DataKinds}
Kind(l) == l[1]
Owner(l) == l[2]

(* get_data() refuses entities that are not of the kinds its data is about. *)
ASSUME DataAssumption ==
  /\ Base \in Nat \ {0}
  /\ MaxTime \in Nat /\ MaxCount \in Nat /\ MaxSamples \in Nat /\ MaxCalls \in Nat
  /\ ConcurrentClear \in BOOLEAN
  /\ SequenceNumbers \subseteq Nat /\ IsFiniteSet(SequenceNumbers)
  /\ \A q \in Queries :
       /\ q.from \in Int /\ q.to \in Int /\ q.bins \in Nat
       /\ q.pairs \in Seq(Entities \X (Entities \cup {NoKey}))
       /\ \A i \in DOMAIN q.pairs :
            IF q.kind = "SAMPLE_DATAS"
            THEN /\ q.pairs[i][2] = NoKey
                 /\ \A n \in SequenceNumbers : <<q.kind, q.pairs[i][1], n>> \in Lists
            ELSE <<q.kind, q.pairs[i][1], q.pairs[i][2]>> \in Lists

VARIABLES
  known,     (* the entities in the database.  A locator is created when a *)
             (* sample needs it: all of them are known                     *)
  data,      (* the samples of each list                                   *)
  last,      (* last_reported_..., of each counter                         *)
  phase,     (* "live", "fresh" (an empty database), "loading", "loaded"   *)
  file,      (* what the last dump wrote                                   *)
  pending,   (* the samples of a file that are still to be loaded          *)
  query,     (* the call of get_data() in progress                         *)
  reported,  (* environment: the value each source has reported            *)
  received,  (* environment: number of samples received                    *)
  calls,     (* environment: number of calls that clear or dump data       *)
  gone       (* history: the sum of the increments that were removed       *)

db == <<known, data, last, phase>>
environment == <<reported, received, calls>>
dvars == <<known, data, last, phase, file, pending, query, reported, received, calls, gone>>

Sample(ts, count, order) == [ts |-> ts, count |-> count, order |-> order]
NoSample == Sample(0, 0, 0)
Samples == [ts : 0 .. MaxTime, count : 0 .. MaxCount, order : 0 .. MaxCount]

(* A byte counter has two digits, count in base 2^64 and magnitude_order.   *)
Value(s) == s.order * Base + s.count

Total(samples) ==
  LET sum[n \in 0 .. Len(samples)] ==
        IF n = 0 THEN 0 ELSE sum[n - 1] + Value(samples[n])
  IN  sum[Len(samples)]

Locators == {e \in Entities : KindOf[e] = "LOCATOR"}

Idle == [at |-> "idle"]
Nothing == [l \in Lists |-> <<>>]
NoReport == [l \in Lists |-> NoSample]

(* The entities were discovered before their samples arrive: that is what   *)
(* ParticipantListener is about.                                            *)
DataInit ==
  /\ known = Entities
  /\ data = Nothing
  /\ last = NoReport
  /\ phase = "live"
  /\ file = [known |-> Locators, data |-> Nothing, last |-> NoReport]
  /\ pending = Nothing
  /\ query = Idle
  /\ reported = [l \in Lists |-> 0]
  /\ received = 0
  /\ calls = 0
  /\ gone = [l \in Lists |-> 0]

----------------------------------------------------------------------------
(* Insertion of samples. *)

(* operator - of ByteCountSample, whose orders are not negative, and of     *)
(* EntityCountSample.                                                       *)
Minus(kind, sample, previous) ==
  IF kind \in ByteCounters
  THEN LET count == (sample.count - previous.count) % Base
           order == sample.order - previous.order
       IN  Sample(sample.ts, count, IF count > sample.count THEN order - 1 ELSE order)
  ELSE Sample(sample.ts, IF sample.count >= previous.count
                         THEN sample.count - previous.count ELSE 0, 0)

(* Mutant: a sample with the time of the last one is stored. *)
IsOld_Equal(l, sample, loading_last) ==
  data[l] # <<>> /\ sample.ts < Last(data[l]).ts

(* Mutant: the last reported value is compared like any other sample. *)
IsOld_NoException(l, sample, loading_last) ==
  data[l] # <<>> /\ sample.ts <= Last(data[l]).ts

(* "Reject samples with old timestamps (unless we are loading last          *)
(* reported)".                                                              *)
IsOld(l, sample, loading_last) ==
  /\ data[l] # <<>>
  /\ sample.ts <= Last(data[l]).ts
  /\ ~(loading_last /\ sample.ts = Last(data[l]).ts)

(* The pointers a running get_data() holds to samples of l that are not     *)
(* among the remaining ones dangle.                                         *)
Dangling(l, remaining) ==
  IF query.at # "selected" THEN query
  ELSE [query EXCEPT !.freed =
          @ \cup {h \in Range(query.held) : h.list = l /\ ~Contains(remaining, h.sample)}]

(* What is stored of a sample: of a counter, the increment since the last   *)
(* report.                                                                  *)
Increment(l, sample) ==
  IF Kind(l) \in Counters THEN Minus(Kind(l), sample, last[l]) ELSE sample

(* Mutant: only the newest sample of a list is kept. *)
insert_OnlyNewest(l, sample) ==
  IF IsOld(l, sample, FALSE) THEN UNCHANGED <<data, last, query>>
  ELSE /\ data' = [data EXCEPT ![l] = <<Increment(l, sample)>>]
       /\ last' = IF Kind(l) \in Counters THEN [last EXCEPT ![l] = sample] ELSE last
       /\ query' = Dangling(l, data'[l])

(* Database::insert() of a sample of an entity that is known.  Of the       *)
(* samples for a sequence number only the last is kept.                     *)
insert(l, sample) ==
  IF IsOld(l, sample, FALSE) THEN UNCHANGED <<data, last, query>>
  ELSE /\ data' = [data EXCEPT ![l] =
                     IF Kind(l) = "SAMPLE_DATAS" THEN <<sample>>
                     ELSE Append(@, Increment(l, sample))]
       /\ last' = IF Kind(l) \in Counters THEN [last EXCEPT ![l] = sample] ELSE last
       /\ query' = Dangling(l, data'[l])

(* A sample arrives.  Of an unknown entity, insert() throws BadParameter.   *)
Receive(l, ts, value) ==
  /\ phase = "live" /\ received < MaxSamples
  /\ reported' = IF Kind(l) \in Counters THEN [reported EXCEPT ![l] = value] ELSE reported
  /\ received' = received + 1
  /\ LET sample == IF Kind(l) \in ByteCounters
                   THEN Sample(ts, value % Base, value \div Base) ELSE Sample(ts, value, 0)
     IN  IF Owner(l) \in known THEN insert(l, sample) ELSE UNCHANGED <<data, last, query>>
  /\ UNCHANGED <<known, phase, file, pending, calls, gone>>

(* The values a source may report: a counter does not decrease; the other   *)
(* values only matter to the aggregation, which the counters exercise.      *)
Reports(l) ==
  IF Kind(l) \in Counters THEN reported[l] .. MaxCount ELSE {1}

(* An entity is discovered, with empty data. *)
Discover(e) ==
  /\ phase = "live"
  /\ e \notin known
  /\ known' = known \cup {e}
  /\ UNCHANGED <<data, last, phase, file, pending, query, environment, gone>>

----------------------------------------------------------------------------
(* Removal, dump and load. *)

(* May the user's other threads remove data now? *)
MayRemove == ConcurrentClear \/ query.at = "idle"

Call == calls < MaxCalls /\ calls' = calls + 1

(* DataContainer::find_by_timestamp_(): the first sample not before t_to.   *)
find_by_timestamp_(samples, t_to) ==
  Min({i \in 1 .. Len(samples) : samples[i].ts >= t_to} \cup {Len(samples) + 1})

(* DataContainer::clear(t_to); the_end_of_time() is later than any sample.  *)
Kept(samples, t_to) ==
  SubSeq(samples, find_by_timestamp_(samples, t_to), Len(samples))

AllDangling(kept) ==
  IF query.at # "selected" THEN query
  ELSE [query EXCEPT !.freed =
          @ \cup {h \in Range(query.held) : ~Contains(kept[h.list], h.sample)}]

(* Mutant: the last reported values are cleared with the data. *)
clear_nts_All(t_to) ==
  /\ data' = [l \in Lists |-> Kept(data[l], t_to)]
  /\ last' = NoReport
  /\ gone' = [l \in Lists |-> gone[l] + Total(data[l]) - Total(data'[l])]
  /\ query' = AllDangling(data')

(* clear_statistics_data_nts_(): the last reported values stay.             *)
clear_nts(t_to) ==
  /\ data' = [l \in Lists |-> Kept(data[l], t_to)]
  /\ UNCHANGED last
  /\ gone' = [l \in Lists |-> gone[l] + Total(data[l]) - Total(data'[l])]
  /\ query' = AllDangling(data')

clear_statistics_data(t_to) ==
  /\ phase \in {"live", "loaded"} /\ MayRemove
  /\ Call
  /\ clear_nts(t_to)
  /\ UNCHANGED <<known, phase, file, pending, reported, received>>

(* clear_inactive_entities() erases an entity with all its data.            *)
Erase(e) ==
  /\ phase \in {"live", "loaded"} /\ MayRemove
  /\ Call
  /\ e \in known
  /\ known' = known \ {e}
  /\ data' = [l \in Lists |-> IF Owner(l) = e THEN <<>> ELSE data[l]]
  /\ last' = [l \in Lists |-> IF Owner(l) = e THEN NoSample ELSE last[l]]
  /\ gone' = [l \in Lists |-> IF Owner(l) = e THEN 0 ELSE gone[l]]
  /\ query' = AllDangling(data')
  /\ UNCHANGED <<phase, file, pending, reported, received>>

(* dump_entity_() and dump_data_(): every entity with its samples and its   *)
(* last reported values.                                                    *)
Dumped == [known |-> known, data |-> data, last |-> last]

(* dump_database(clear). *)
dump_database(clear) ==
  /\ phase \in {"live", "loaded"} /\ (clear => MayRemove)
  /\ Call
  /\ file' = Dumped
  /\ IF clear THEN clear_nts(MaxTime + 1) ELSE UNCHANGED <<data, last, gone, query>>
  /\ UNCHANGED <<known, phase, pending, reported, received>>

(* The program ends and another starts, with an empty database. *)
Restart ==
  /\ phase = "live" /\ query.at = "idle"
  /\ phase' = "fresh"
  /\ known' = Locators
  /\ data' = Nothing
  /\ last' = NoReport
  /\ gone' = [l \in Lists |-> 0]
  /\ UNCHANGED <<file, pending, query, environment>>

(* load_database(): refused unless the database is empty.  It holds the     *)
(* mutex until the end, and takes the entities first.                       *)
LoadBegin ==
  /\ phase = "fresh"
  /\ phase' = "loading"
  /\ known' = file.known
  /\ pending' = file.data
  /\ UNCHANGED <<data, last, file, query, environment, gone>>

(* insert_nts(..., loading): the samples of a list one after the other.     *)
LoadSample(l) ==
  /\ phase = "loading"
  /\ pending[l] # <<>>
  /\ pending' = [pending EXCEPT ![l] = Tail(@)]
  /\ data' = IF IsOld(l, Head(pending[l]), FALSE) THEN data
             ELSE [data EXCEPT ![l] = Append(@, Head(pending[l]))]
  /\ UNCHANGED <<known, last, phase, file, query, environment, gone>>

(* load_data() after the data of a list.  For a counter about one entity it *)
(* takes the last reported value only "if there are at least one" sample.   *)
LoadedLast(l) ==
  IF /\ Kind(l) \in Counters
     /\ TargetKinds(Kind(l)) # {} \/ file.data[l] # <<>>
     /\ ~IsOld(l, file.last[l], TRUE)
  THEN file.last[l] ELSE NoSample

LoadEnd ==
  /\ phase = "loading"
  /\ pending = Nothing
  /\ phase' = "loaded"
  /\ last' = [l \in Lists |-> LoadedLast(l)]
  /\ UNCHANGED <<known, data, file, pending, query, environment, gone>>

----------------------------------------------------------------------------
(* get_data(). *)

(* Mutant: the loop ends at the first sample outside the interval. *)
select_Break(samples, t_from, t_to) ==
  LET outside == {i \in 1 .. Len(samples) : samples[i].ts \notin t_from .. t_to}
  IN  SubSeq(samples, 1, Min(outside \cup {Len(samples) + 1}) - 1)

(* The loop of Database::select() over a list: it ends at the first sample  *)
(* after t_to ("The data is assumed to be ordered by timestamp").           *)
select(samples, t_from, t_to) ==
  LET after == {i \in 1 .. Len(samples) : samples[i].ts > t_to}
      end == Min(after \cup {Len(samples) + 1}) - 1
      found[n \in 0 .. Len(samples)] ==
        IF n = 0 THEN <<>>
        ELSE IF samples[n].ts >= t_from THEN Append(found[n - 1], samples[n])
        ELSE found[n - 1]
  IN  found[end]

(* The pointers select() returns for an entity and its remote.  Those to    *)
(* SAMPLE_DATAS come from the lists of all the sequence numbers, sorted;    *)
(* the order of equal times is not specified.                               *)
Pointers(l, samples) == [i \in 1 .. Len(samples) |-> [list |-> l, sample |-> samples[i]]]

SortedByTime(found) ==
  CHOOSE s \in SetToSeqs(found) :
    \A i, j \in 1 .. Cardinality(found) : i < j => s[i].sample.ts <= s[j].sample.ts

Selected(kind, pair, t_from, t_to) ==
  IF kind = "SAMPLE_DATAS"
  THEN LET lists == {<<kind, pair[1], n>> : n \in SequenceNumbers}
           found == {h \in UNION {Range(Pointers(l, data[l])) : l \in lists} :
                       h.sample.ts \in t_from .. t_to}
       IN  SortedByTime(found)
  ELSE LET l == <<kind, pair[1], pair[2]>> IN Pointers(l, select(data[l], t_from, t_to))

(* GenericIterator::get_value(): a negative order counts as zero. *)
get_value(s) == Max({s.order, 0}) * Base + s.count

(* The aggregation of a bin, for all the aggregators at once.  Where the    *)
(* code has NaN for a bin without samples, count is 0.                      *)
EmptyBin == [none |-> 0, sum |-> 0, max |-> 0, min |-> 0, squares |-> 0, count |-> 0, values |-> <<>>]

(* add_sample() of each aggregator. *)
add_sample(bin, v) ==
  [none |-> IF bin.count = 0 THEN v ELSE bin.none,
   sum |-> bin.sum + v,
   max |-> IF bin.count = 0 THEN v ELSE Max({bin.max, v}),
   min |-> IF bin.count = 0 THEN v ELSE Min({bin.min, v}),
   squares |-> bin.squares + v * v,
   count |-> bin.count + 1,
   values |-> Append(bin.values, v)]

(* finish() of MedianAggregator (twice the median) and of StdDevAggregator  *)
(* (the variance times the square of the count).                            *)
MedianTwice(bin) ==
  LET sorted == SortSeq(bin.values, <)
      index == (bin.count - 1) \div 2 + 1
  IN  IF bin.count % 2 = 0 THEN sorted[index] + sorted[index + 1] ELSE 2 * sorted[index]

VarianceScaled(bin) == bin.count * bin.squares - bin.sum * bin.sum

(* prepare_bins(): the duration of each bin, rounded down. *)
Interval(q) == (q.to - q.from) \div q.bins

(* Mutant: the bin of a sample is rounded up. *)
BinOf_Up(q, ts) == (ts - q.from + Interval(q) - 1) \div Interval(q)

(* The index of the bin of a sample in add_data(). *)
BinOf(q, ts) == (ts - q.from) \div Interval(q)

(* Without bins the samples are copied one by one. *)
Copied(result, held) ==
  [result EXCEPT !.raw = @ \o [i \in 1 .. Len(held) |-> held[i].sample]]

(* add_data().  A sample whose index is not that of a bin is kept aside:    *)
(* the code asserts that there is none.                                     *)
add_data(q, result, held) ==
  LET added[n \in 0 .. Len(held)] ==
        IF n = 0 THEN result
        ELSE LET r == added[n - 1]
                 b == BinOf(q, held[n].sample.ts)
             IN  IF b \in DOMAIN r.bin
                 THEN [r EXCEPT !.bin[b] = add_sample(@, get_value(held[n].sample))]
                 ELSE [r EXCEPT !.outside = @ \cup {held[n]}]
  IN  added[Len(held)]

(* get_data() with the checks of its parameters; select() would throw when  *)
(* the last instant to look at is not after the first.                      *)
get_data(q) ==
  /\ phase \in {"live", "loaded"}
  /\ query.at = "idle"
  /\ q.to > q.from + q.bins
  /\ q.to - 1 > q.from
  /\ \A i \in 1 .. Len(q.pairs) : {q.pairs[i][1], q.pairs[i][2]} \subseteq known \cup {NoKey}
  /\ query' = [at |-> "next", call |-> q, todo |-> q.pairs, held |-> <<>>, freed |-> {},
               wanted |-> {},
               result |-> [raw |-> <<>>, outside |-> {}, bin |-> [b \in 0 .. q.bins - 1 |-> EmptyBin]]]
  /\ UNCHANGED <<db, file, pending, environment, gone>>

(* select() for the next pair of entities, under the shared lock.  It       *)
(* throws when one of the two was erased meanwhile.  wanted is a history of *)
(* what it should find, freed of the pointers that dangled in this call.    *)
Select ==
  /\ query.at = "next"
  /\ query.todo # <<>>
  /\ LET q == query.call
         pair == Head(query.todo)
         interval == {h \in UNION {Range(Pointers(l, data[l])) : l \in
                         {k \in Lists : Kind(k) = q.kind /\ Owner(k) = pair[1]
                            /\ (q.kind = "SAMPLE_DATAS" \/ k[3] = pair[2])}} :
                       q.from <= h.sample.ts /\ h.sample.ts < q.to}
     IN  IF ~({pair[1], pair[2]} \subseteq known \cup {NoKey}) THEN query' = Idle
         ELSE query' = [query EXCEPT !.at = "selected", !.todo = Tail(@),
                          !.held = Selected(q.kind, pair, q.from, q.to - 1),
                          !.wanted = @ \cup interval]
  /\ UNCHANGED <<db, file, pending, environment, gone>>

(* The pointers are followed, without a lock.  What a dangling one yields   *)
(* is undefined: nothing is claimed of the result once freed is not empty.  *)
AddData ==
  /\ query.at = "selected"
  /\ query' = [query EXCEPT !.at = "next", !.held = <<>>,
                            !.result = IF query.call.bins = 0 THEN Copied(@, query.held)
                                       ELSE add_data(query.call, @, query.held)]
  /\ UNCHANGED <<db, file, pending, environment, gone>>

(* finish() and return. *)
Return ==
  /\ query.at = "next"
  /\ query.todo = <<>>
  /\ query' = Idle
  /\ UNCHANGED <<db, file, pending, environment, gone>>

----------------------------------------------------------------------------
DataNext ==
  \/ \E l \in Lists, ts \in 1 .. MaxTime : \E value \in Reports(l) : Receive(l, ts, value)
  \/ \E e \in Entities \ Locators : Discover(e) \/ Erase(e)
  \/ \E t_to \in 2 .. MaxTime + 1 : clear_statistics_data(t_to)
  \/ \E clear \in BOOLEAN : dump_database(clear)
  \/ Restart \/ LoadBegin \/ LoadEnd
  \/ \E l \in Lists : LoadSample(l)
  \/ \E q \in Queries : get_data(q)
  \/ Select \/ AddData \/ Return

DataSpec == DataInit /\ [][DataNext]_dvars

----------------------------------------------------------------------------
(* Types; in particular increments, sums and what was removed are never     *)
(* negative, although they are differences of unsigned counters.            *)
DataTypeOK ==
  /\ known \subseteq Entities
  /\ \A l \in Lists : Range(data[l]) \subseteq Samples /\ last[l] \in Samples
  /\ phase \in {"live", "fresh", "loading", "loaded"}
  /\ query.at \in {"idle", "next", "selected"}
  /\ reported \in [Lists -> 0 .. MaxCount]
  /\ received \in 0 .. MaxSamples /\ calls \in 0 .. MaxCalls
  /\ \A l \in Lists : gone[l] \in 0 .. MaxCount * MaxSamples

(* "a list of elements (StatisticsSample) sorted by timestamp": select()    *)
(* and clear() rely on it, and nothing but the test in insert_nts() on the  *)
(* last sample ensures it, through clears, clocks that step back and loads. *)
SamplesOrdered ==
  \A l \in Lists : \A i, j \in 1 .. Len(data[l]) : i < j => data[l][i].ts < data[l][j].ts

(* No increment is lost or counted twice: what is stored and what was       *)
(* removed add up to the value last reported, also when samples are         *)
(* rejected, data is cleared or dumped and cleared between two samples, and *)
(* a byte counter carries into its second digit.                            *)
IncrementsAddUp ==
  phase = "live" =>
    \A l \in Lists : Kind(l) \in Counters => Value(last[l]) = gone[l] + Total(data[l])

(* A dump loaded into an empty database restores every sample, and the last *)
(* reported value of every counter that has samples.                        *)
LoadRestores ==
  [][phase = "loading" /\ phase' = "loaded" =>
       /\ known' = file.known
       /\ data' = file.data
       /\ \A l \in Lists : file.data[l] # <<>> => last'[l] = file.last[l]]_dvars

(* get_data() follows the pointers of select() after the lock is released.  *)
(* They stay valid while samples arrive if the user removes nothing, except *)
(* those to SAMPLE_DATAS, whose sample is replaced by a newer one.          *)
PointersAlive ==
  query.at # "idle" /\ query.call.kind # "SAMPLE_DATAS" => query.freed = {}

(* Without bins get_data() returns the samples from t_from until before     *)
(* t_to, all of them, whatever the loop in select() skips or breaks on, if  *)
(* no pointer dangled.                                                      *)
RawIsInterval ==
  query.at = "next" /\ query.call.bins = 0 /\ query.freed = {} =>
    /\ Range(query.result.raw) = {h.sample : h \in query.wanted}
    /\ Len(query.result.raw) = Cardinality(query.wanted)

(* Each bin aggregates the samples of its own part of the interval: every   *)
(* statistic is the one its definition gives for that set of samples, if no *)
(* pointer dangled.                                                         *)
BinsAreRight ==
  query.at = "next" /\ query.call.bins > 0 /\ query.freed = {} =>
    \A b \in DOMAIN query.result.bin :
      LET q == query.call
          bin == query.result.bin[b]
          in == {h \in query.wanted : /\ q.from + b * Interval(q) <= h.sample.ts
                                      /\ h.sample.ts < q.from + (b + 1) * Interval(q)}
          v(h) == Value(h.sample)
          values == {v(h) : h \in in}
          atMost(m) == Cardinality({h \in in : 2 * v(h) <= m})
          atLeast(m) == Cardinality({h \in in : 2 * v(h) >= m})
      IN  /\ bin.count = Cardinality(in)
          /\ bin.sum = MapThenSumSet(v, in)
          /\ in # {} =>
               /\ bin.max = Max(values) /\ bin.min = Min(values)
               /\ \E h \in in : v(h) = bin.none
                             /\ \A g \in in : g.list = h.list => h.sample.ts <= g.sample.ts
               /\ 2 * atMost(MedianTwice(bin)) >= bin.count
               /\ 2 * atLeast(MedianTwice(bin)) >= bin.count
               /\ 2 * VarianceScaled(bin) =
                    MapThenSumSet(LAMBDA p : (v(p[1]) - v(p[2])) * (v(p[1]) - v(p[2])), in \X in)

(* The assertion in add_data(): every sample that was selected has a bin.   *)
EverySampleHasABin == query.at # "idle" => query.result.outside = {}
============================================================================
