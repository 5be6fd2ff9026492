------------------------------ MODULE Detector ------------------------------
(* Detect over a whole document (internal/feed/detector.go, internal/model/      *)
(* change.go), with the entries' own fields: which entries count as the same      *)
(* item, which as the same content, and in which order they are published.        *)
EXTENDS Integers, Sequences, FiniteSets, Functions

CONSTANTS Document,    \* sequences of entries a feed may hold
          MaxVersions

\* An entry: guid and link ("" if missing), title, pub (0 if missing), content, desc, and
\* where its texts have superfluous white space. The author and the date of the update
\* are hashed like the title, which stands for them.
FeedEntry == [guid : STRING, link : STRING, title : STRING, pub : Nat, content : STRING,
              desc : STRING, spaced : {"no", "around", "inside"}]
Entries == UNION {Range(d) : d \in Document}

ASSUME DetectorAssumptions ==
  /\ Entries \subseteq FeedEntry /\ Document \subseteq Seq(Entries)
  /\ MaxVersions \in Nat

VARIABLES document, seen, detected, polling, versions

detectorVars == <<document, seen, detected, polling, versions>>

\* seen: the rows of the feed, identity to hash. All its items may be new.
DetectorInit ==
  /\ document \in Document /\ seen = {} /\ detected = <<>> /\ polling = FALSE /\ versions = 1

-----------------------------------------------------------------------------
\* Without guid and link the hashed title and date identify the item; the title is
\* trimmed but not collapsed.
IdentityKey(e) ==
  IF e.guid # "" THEN <<e.guid>> ELSE IF e.link # "" THEN <<e.link>>
  ELSE <<e.title, e.spaced = "inside", e.pub>>

\* The body is the content, or the description if there is none. The hash is over
\* fields without superfluous white space.
body(e) == IF e.content = "" THEN e.desc ELSE e.content
RawHash(e) == <<e.title, e.link, e.desc, e.content, e.spaced>>
ContentHash(e) == <<e.title, e.link, body(e)>>

\* classify: no change when the row has the entry's hash.
Same(e) == \E row \in seen : row.id = IdentityKey(e) /\ row.hash = ContentHash(e)
InStore(e) == \E row \in seen : row.id = IdentityKey(e)
News(d) == {i \in DOMAIN d : ~Same(d[i])}

\* sort.SliceStable: oldest first, and entries without a date, whose time is the zero
\* time, ahead of the others.
PubBefore(d, i, j) == d[i].pub < d[j].pub \/ (d[i].pub = d[j].pub /\ i < j)
Place(d, S, i) == Cardinality({j \in S : PubBefore(d, j, i)}) + 1
OldestFirst(d, S) == [k \in 1 .. Cardinality(S) |-> CHOOSE i \in S : Place(d, S, i) = k]

ChangeOf(e) == [id |-> IdentityKey(e), hash |-> ContentHash(e), new |-> ~InStore(e)]
Detect(d) == [k \in 1 .. Cardinality(News(d)) |-> ChangeOf(d[OldestFirst(d, News(d))[k]])]

-----------------------------------------------------------------------------
Poll ==
  /\ ~polling /\ polling' = TRUE /\ detected' = Detect(document)
  /\ UNCHANGED <<document, seen, versions>>

\* publish and commit the next change.
Commit ==
  /\ polling /\ detected # <<>>
  /\ seen' = {row \in seen : row.id # Head(detected).id}
               \cup {[id |-> Head(detected).id, hash |-> Head(detected).hash]}
  /\ detected' = Tail(detected) /\ UNCHANGED <<document, polling, versions>>

\* The poll is over; the feed may have changed an entry by the next one.
NextVersion ==
  /\ polling /\ detected = <<>> /\ versions < MaxVersions
  /\ polling' = FALSE /\ versions' = versions + 1
  /\ \E k \in DOMAIN document, e \in Entries : document' = [document EXCEPT ![k] = e]
  /\ UNCHANGED <<seen, detected>>

DetectorNext == Poll \/ Commit \/ NextVersion

DetectorSpec == DetectorInit /\ [][DetectorNext]_detectorVars

-----------------------------------------------------------------------------
\* Two entries of one document that count as one item with two contents.
Ambiguous(d) ==
  \E i, j \in DOMAIN d : IdentityKey(d[i]) = IdentityKey(d[j]) /\ ContentHash(d[i]) # ContentHash(d[j])

Polled == polling /\ detected = <<>>

\* The document with other white space around its texts, or also inside where an entry
\* has a guid or a link, or with another description beside its content.
HasKey(e) == e.guid # "" \/ e.link # ""
Respaced(d) ==
  {[d EXCEPT ![k].spaced = "around"] : k \in {i \in DOMAIN d : HasKey(d[i]) \/ d[i].spaced = "no"}}
    \cup {[d EXCEPT ![k].spaced = "inside"] : k \in {i \in DOMAIN d : HasKey(d[i])}}
    \cup {[d EXCEPT ![k].desc = "other"] : k \in {i \in DOMAIN d : d[i].content # ""}}

\* Once a poll has committed its changes, polling the same document again detects
\* nothing, also if only white space changed. Excepted are documents with two contents
\* for one item: they are published at every poll.
QuietWithoutNews ==
  Polled /\ ~Ambiguous(document) => \A d \in {document} \cup Respaced(document) : Detect(d) = <<>>
=============================================================================
