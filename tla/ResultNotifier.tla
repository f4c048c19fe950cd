--------------------------- MODULE ResultNotifier ---------------------------
(***************************************************************************)
(* The goroutines of notifyResults: they take the results of all detectors *)
(* from one channel, drop the kinds the user did not ask for, and use a    *)
(* shared LRU cache to print a secret that several decoders brought to     *)
(* light only once.                                                        *)
(***************************************************************************)
EXTENDS Naturals, Sequences, SequencesExt, FiniteSets

CONSTANTS
  Results,         \* the results sent on the channel
  Key,             \* detector type, raw text and metadata of each, as one value
  Decoder,         \* the decoder that brought each to light
  Postman,         \* those of a Postman source
  Wanted,          \* the verdicts selected with --results
  NotifierWorkers, \* the notifier goroutines
  CacheSize,       \* entries dedupeCache holds
  NoResult         \* no result

Verdicts == {"verified", "unknown", "unverified"}

ASSUME NotifierAssumption ==
  /\ IsFiniteSet(Results) /\ NoResult \notin Results
  /\ DOMAIN Key = Results /\ DOMAIN Decoder = Results
  /\ Postman \subseteq Results /\ Wanted \subseteq Verdicts
  /\ CacheSize \in Nat \ {0}

VARIABLES
  verdict,          \* what verification said of each result
  incoming,         \* results not received yet; detectors send in any order
  held,             \* the result each notifier is working on
  at,               \* where it is: "receive", "get", "add", "print"
  cache,            \* dedupeCache, the least recently used entry first
  numFoundResults,  \* the wanted results received
  printed,          \* the results given to the printer
  disturbed         \* history: the keys whose entry was evicted, or replaced by a
                    \* notifier for whose result Get would by then have answered otherwise

dedupeVars == <<verdict, incoming, held, at, cache, numFoundResults, printed, disturbed>>

DedupeInit ==
  /\ verdict \in [Results -> Verdicts]
  /\ incoming = Results
  /\ held = [n \in NotifierWorkers |-> NoResult]
  /\ at = [n \in NotifierWorkers |-> "receive"]
  /\ cache = <<>> /\ numFoundResults = 0 /\ printed = {} /\ disturbed = {}

EntriesOf(key) == {e \in ToSet(cache) : e.key = key}
Known(key) == \E i \in DOMAIN cache : cache[i].key = key
CacheIndex(key) == CHOOSE i \in DOMAIN cache : cache[i].key = key
Without(key) == IF Known(key) THEN RemoveAt(cache, CacheIndex(key)) ELSE cache
Goes(n, from, to) == at[n] = from /\ at' = [at EXCEPT ![n] = to]

Entry(r) == [key |-> Key[r], decoder |-> Decoder[r]]

\* The cache after dedupeCache.Add, which replaces the key's entry or evicts
\* the oldest one.
Remember(r) ==
  LET added == Append(Without(Key[r]), Entry(r))
  IN  IF Len(added) > CacheSize THEN Tail(added) ELSE added

\* EveryKeyPrinted, faulty variant: results the filter drops enter the cache.
ReceiveMarksFiltered(n, r) ==
  /\ r \in incoming
  /\ incoming' = incoming \ {r}
  /\ IF verdict[r] \in Wanted
     THEN /\ Goes(n, "receive", "get")
          /\ held' = [held EXCEPT ![n] = r] /\ numFoundResults' = numFoundResults + 1
          /\ UNCHANGED cache
     ELSE at[n] = "receive" /\ cache' = Remember(r) /\ UNCHANGED <<at, held, numFoundResults>>
  /\ UNCHANGED <<verdict, printed, disturbed>>

\* The filters for --results; what passes them is counted.
Receive(n, r) ==
  /\ r \in incoming
  /\ incoming' = incoming \ {r}
  /\ IF verdict[r] \in Wanted
     THEN /\ Goes(n, "receive", "get")
          /\ held' = [held EXCEPT ![n] = r] /\ numFoundResults' = numFoundResults + 1
     ELSE at[n] = "receive" /\ UNCHANGED <<at, held, numFoundResults>>
  /\ UNCHANGED <<verdict, cache, printed, disturbed>>

\* The cache after dedupeCache.Get: an entry that is found becomes the most recently used.
Refresh(r) ==
  IF Known(Key[r]) THEN Append(Without(Key[r]), cache[CacheIndex(Key[r])]) ELSE cache

\* DifferentDecoderOnce, faulty variant: any entry of the key lets it pass.
IsDuplicateOnlyPostman(r) == r \in Postman /\ EntriesOf(Key[r]) # {}

\* The same key with another decoder, or any known key of a Postman source.
IsDuplicate(r) ==
  \E e \in EntriesOf(Key[r]) : e.decoder # Decoder[r] \/ r \in Postman

\* SameDecoderKept, faulty variant: a duplicate is any known key.
GetDropsKnown(n) ==
  LET r == held[n] IN
  /\ at[n] = "get"
  /\ cache' = Refresh(r)
  /\ IF EntriesOf(Key[r]) # {}
     THEN Goes(n, "get", "receive") /\ held' = [held EXCEPT ![n] = NoResult]
     ELSE Goes(n, "get", "add") /\ UNCHANGED held
  /\ UNCHANGED <<verdict, incoming, numFoundResults, printed, disturbed>>

\* The lookup, and what it decides.
Get(n) ==
  LET r == held[n] IN
  /\ at[n] = "get"
  /\ cache' = Refresh(r)
  /\ IF IsDuplicate(r)
     THEN Goes(n, "get", "receive") /\ held' = [held EXCEPT ![n] = NoResult]
     ELSE Goes(n, "get", "add") /\ UNCHANGED held
  /\ UNCHANGED <<verdict, incoming, numFoundResults, printed, disturbed>>

\* dedupeCache.Add; nothing is locked between Get and Add.
CachedKeys(entries) == {e.key : e \in ToSet(entries)}
Add(n) ==
  /\ Goes(n, "add", "print")
  /\ cache' = Remember(held[n])
  /\ disturbed' = disturbed \cup (CachedKeys(cache) \ CachedKeys(cache'))
                   \cup {key \in {Key[held[n]]} : IsDuplicate(held[n])}
  /\ UNCHANGED <<verdict, incoming, held, numFoundResults, printed>>

\* The metrics, and printer.Print.
Notify(n) ==
  /\ Goes(n, "print", "receive")
  /\ printed' = printed \cup {held[n]}
  /\ held' = [held EXCEPT ![n] = NoResult]
  /\ UNCHANGED <<verdict, incoming, cache, numFoundResults, disturbed>>

Quiet == incoming = {} /\ \A n \in NotifierWorkers : at[n] = "receive"

DedupeNext ==
  \/ \E n \in NotifierWorkers : (\E r \in Results : Receive(n, r)) \/ Get(n) \/ Add(n) \/ Notify(n)
  \/ Quiet /\ UNCHANGED dedupeVars \* the channel is closed

DedupeSpec == DedupeInit /\ [][DedupeNext]_dedupeVars

----------------------------------------------------------------------------
(* Properties.                                                             *)

WantedResults == {r \in Results : verdict[r] \in Wanted}

DedupeTypeOK ==
  /\ verdict \in [Results -> Verdicts]
  /\ incoming \in SUBSET Results /\ printed \in SUBSET WantedResults
  /\ held \in [NotifierWorkers -> Results \cup {NoResult}]
  /\ at \in [NotifierWorkers -> {"receive", "get", "add", "print"}]
  /\ \A n \in NotifierWorkers : held[n] = NoResult <=> at[n] = "receive"
  /\ Len(cache) <= CacheSize
  /\ \A i, j \in DOMAIN cache : cache[i].key = cache[j].key => i = j
  /\ numFoundResults \in Nat /\ disturbed \in SUBSET {Key[r] : r \in Results}

(***************************************************************************)
(* Deduplication never loses a secret: for every result that was wanted,   *)
(* one with the same key is printed, however the notifiers interleave and  *)
(* however small the cache is.  HasFoundResults, which decides the exit    *)
(* code, counts before the duplicates are dropped and relies on it.        *)
(***************************************************************************)
EveryKeyPrinted ==
  Quiet => /\ {Key[r] : r \in WantedResults} = {Key[r] : r \in printed}
           /\ numFoundResults > 0 => printed # {}

(***************************************************************************)
(* "We want to avoid duplicate results with different decoder types": all  *)
(* printed results of a key have one decoder, and a Postman source has a   *)
(* key only once.  Two notifiers between Get and Add and an eviction can   *)
(* break this, and nothing else can.                                       *)
(***************************************************************************)
DifferentDecoderOnce ==
  \A r, s \in printed : r # s /\ Key[r] = Key[s] /\ Key[r] \notin disturbed =>
    /\ Decoder[r] = Decoder[s]
    /\ ~(r \in Postman /\ s \in Postman)

(***************************************************************************)
(* "Duplicate results with the same decoder type SHOULD have their own     *)
(* entry in the results list": one is dropped only where a race or an      *)
(* eviction has disturbed the entry of its key.                            *)
(***************************************************************************)
SameDecoderKept ==
  Quiet => \A r \in {x \in WantedResults \ Postman : Key[x] \notin disturbed} :
    (\E s \in printed : Key[s] = Key[r] /\ Decoder[s] = Decoder[r]) => r \in printed
=============================================================================
