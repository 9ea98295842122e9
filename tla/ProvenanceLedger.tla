-------------------------- MODULE ProvenanceLedger --------------------------
(***************************************************************************)
(* ProvenanceLedger of verb_authority.py: what record_result retains of a  *)
(* tool result and how is_tainted looks a later value up.                  *)
(*                                                                         *)
(* A JSON value is a record                                                *)
(*   [texts  |-> its string leaves,  keys |-> its object keys,             *)
(*    atoms  |-> the tokens of its other leaves,                           *)
(*    containers |-> the content tokens of its objects and arrays].        *)
(* Strings are opaque: the constants give, for each, its stripped and its  *)
(* canonical form, its shape and what it contains.  One number, Size, is   *)
(* both the characters and the UTF-8 bytes of a string.                    *)
(***************************************************************************)
EXTENDS Naturals, FiniteSets, FiniteSetsExt

CONSTANTS
  Texts,       \* strings
  NoText,      \* no skeleton: too many code points, or too long
  Atoms,       \* tokens of numbers, booleans and null
  Containers,  \* content tokens of objects and arrays
  Documents,   \* the JSON values recorded and looked up
  Contains,    \* <<v, b>>: v is a substring of b
  Strip,       \* str.strip
  Canon,       \* _canonical
  Skeleton,    \* _canonical_ascii_skeleton of the overlong strings
  FoldSize,    \* length of the fold it is made from, blanks included
  Ascii,       \* ASCII strings
  RiskShaped,  \* strings that are an email address or a URL
  Overlong,    \* non-ASCII strings beyond MAX_NFKC_INPUT_CHARS
  Size, Work,  \* length of a string, and its normalisation work
  TokenSize,   \* length of a container token
  MaxEntries, MaxBytes, MaxWork, MaxLookup,
  MaxRecords   \* bound on the epoch, for model checking

\* a JSON value is a leaf or a container, and within the budgets of a snapshot
IsDocument(d) ==
  /\ d.texts \subseteq Texts
  /\ d.keys \subseteq Texts
  /\ d.atoms \subseteq Atoms
  /\ d.containers \subseteq Containers
  /\ IsFiniteSet(d.texts \cup d.keys \cup d.atoms \cup d.containers)
  /\ d.texts \cup d.atoms \cup d.containers # {}

(* The skeleton loses no ASCII destination: folding one code point at a    *)
(* time cannot create or destroy ASCII material (verb_authority.py:2361).  *)
ASSUME SkeletonAssumption ==
  \A t \in Overlong, v \in RiskShaped \cap Ascii :
    /\ <<v, Canon[t]>> \in Contains
    /\ Skeleton[t] # NoText
    => <<v, Skeleton[t]>> \in Contains

ASSUME TextAssumption ==
  /\ NoText \notin Texts
  /\ Atoms \cap Texts = {}
  /\ Contains \subseteq Texts \X Texts
  /\ Strip \in [Texts -> Texts]
  /\ Canon \in [Texts -> Texts]
  /\ Overlong \subseteq Texts \ Ascii
  /\ Skeleton \in [Overlong -> Texts \cup {NoText}]
  /\ FoldSize \in [Overlong -> Nat]
  /\ Size \in [Texts -> Nat]
  /\ Work \in [Texts -> Nat]
  /\ {TokenSize, MaxEntries, MaxBytes, MaxWork, MaxLookup, MaxRecords}
       \subseteq Nat
  /\ \A d \in Documents : IsDocument(d)

VARIABLES
  exact,            \* _tainted
  containers,       \* _tainted_containers
  blobs,            \* _blobs
  canonBlobs,       \* _canon_blobs
  incomplete,       \* _normalization_incomplete
  asciiIncomplete,  \* _ascii_normalization_incomplete
  utf8,             \* _utf8_bytes
  saturated,        \* _saturated
  version,          \* _version
  recorded          \* history: the results recorded so far

stores == <<exact, containers, blobs, canonBlobs, incomplete,
            asciiIncomplete, utf8>>
vars == <<stores, saturated, version, recorded>>

Init ==
  /\ exact = {} /\ containers = {} /\ blobs = {} /\ canonBlobs = {}
  /\ incomplete = FALSE /\ asciiIncomplete = FALSE
  /\ utf8 = 0
  /\ saturated = FALSE
  /\ version = 0
  /\ recorded = {}

---------------------------------------------------------------------------
Total(f, S) == MapThenSumSet(LAMBDA t : f[t], S)

\* the original or the canonical form is an email address or a URL
HasRiskForm(t) ==
  \/ t \in Overlong
  \/ Strip[t] \in RiskShaped
  \/ Canon[Strip[t]] \in RiskShaped

\* string leaves join the search index, of the keys those with a risk form
Searchable(d) == d.texts \cup {k \in d.keys : HasRiskForm(k)}

Leaves(d) == d.texts \cup d.keys \cup d.atoms

\* defect: an object key is not a value of its own
NewExactWithoutKeys(d) == (d.texts \cup d.atoms) \ exact

NewExact(d) == Leaves(d) \ exact
NewContainers(d) == d.containers \ containers

\* defect: keys join the search index whatever their shape
NewBlobsOfAllKeys(d) == (d.texts \cup d.keys) \ blobs

\* defect: a string with exact taint is taken to be indexed already
NewBlobsByExact(d) == Searchable(d) \ (blobs \cup exact)

\* a string already indexed is not normalised again
NewBlobs(d) == Searchable(d) \ blobs

\* what the new blobs add to the canonical index; cut are the overlong ones
\* left without a skeleton
Canonicals(d, cut) ==
  ({Canon[t] : t \in NewBlobs(d) \ Overlong}
     \cup {Skeleton[t] : t \in (NewBlobs(d) \cap Overlong) \ cut})
  \ canonBlobs

\* defect: what is retained already is charged again
NewBytesAgain(d, cut) ==
  Total(Size, d.texts \cup d.keys) + Total(Size, NewBlobs(d))
    + Total(Size, Canonicals(d, cut))
    + TokenSize * Cardinality(NewContainers(d))

NewBytes(d, cut) ==
  Total(Size, NewExact(d) \cap Texts) + Total(Size, NewBlobs(d))
    + Total(Size, Canonicals(d, cut))
    + TokenSize * Cardinality(NewContainers(d))

Entries == Cardinality(exact) + Cardinality(containers)
             + Cardinality(blobs) + Cardinality(canonBlobs)

NewEntries(d, cut) ==
  Cardinality(NewExact(d)) + Cardinality(NewContainers(d))
    + Cardinality(NewBlobs(d)) + Cardinality(Canonicals(d, cut))

Fits(d, cut) == /\ Entries + NewEntries(d, cut) <= MaxEntries
                /\ utf8 + NewBytes(d, cut) <= MaxBytes

\* the overlong blobs of d without a skeleton: those that have none, those
\* whose fold is too long for the text budget even when they come first, and
\* any of those for which it is when they come last.  A skeleton retained
\* already is folded all the same.
Cuts(d) ==
  LET hard == NewBlobs(d) \cap Overlong
      none == {t \in hard : Skeleton[t] = NoText}
      Beyond(t, bytes) == utf8 + bytes + FoldSize[t] > MaxBytes
      first == {t \in hard : Beyond(t, Size[t] + IF t \in exact THEN 0
                                                ELSE Size[t])}
      last == {t \in hard : Beyond(t, NewBytes(d, none \cup {t}))}
  IN  {none \cup first \cup S : S \in SUBSET last}

\* normalisation work: each new blob once, and the keys whose own form
\* decides.  A key that is also a leaf is checked only when it comes first.
KeyWork(K) ==
  Total(Work, {k \in K \ Overlong : Strip[k] \notin RiskShaped})
LeastWork(d) ==
  Total(Work, NewBlobs(d)) + KeyWork(d.keys \ (blobs \cup d.texts))
MostWork(d) == Total(Work, NewBlobs(d)) + KeyWork(d.keys \ blobs)

---------------------------------------------------------------------------
\* record_result: everything fits and is committed together
Commit(d, cut) ==
  /\ ~saturated
  /\ version < MaxRecords
  /\ Fits(d, cut)
  /\ LeastWork(d) <= MaxWork
  /\ exact' = exact \cup NewExact(d)
  /\ containers' = containers \cup NewContainers(d)
  /\ blobs' = blobs \cup NewBlobs(d)
  /\ canonBlobs' = canonBlobs \cup Canonicals(d, cut)
  /\ incomplete' = (incomplete \/ NewBlobs(d) \cap Overlong # {})
  /\ asciiIncomplete' = (asciiIncomplete \/ cut # {})
  /\ utf8' = utf8 + NewBytes(d, cut)
  /\ version' = version + 1
  /\ recorded' = recorded \cup {d}
  /\ UNCHANGED saturated

\* defect: room is made by forgetting what was recorded before
OverflowEvicting(d, cut) ==
  /\ ~Fits(d, cut) \/ MostWork(d) > MaxWork
  /\ exact' = {} /\ containers' = {} /\ blobs' = {} /\ canonBlobs' = {}
  /\ utf8' = 0
  /\ version' = version + 1
  /\ UNCHANGED <<incomplete, asciiIncomplete, saturated, recorded>>

\* _mark_saturated: nothing of the result is retained
Overflow(d, cut) ==
  /\ saturated \/ ~Fits(d, cut) \/ MostWork(d) > MaxWork
  /\ saturated' = TRUE
  /\ version' = IF saturated THEN version ELSE version + 1
  /\ UNCHANGED <<stores, recorded>>

Next == \E d \in Documents : \E cut \in Cuts(d) :
          Commit(d, cut) \/ Overflow(d, cut)

Spec == Init /\ [][Next]_vars

---------------------------------------------------------------------------
\* _is_tainted_string
TaintedText(t) ==
  LET v == Strip[t]
      c == Canon[v]
  IN  \/ t \in Overlong
      \/ t \in exact
      \/ v \in RiskShaped /\ \E b \in blobs : <<v, b>> \in Contains
      \/ /\ c \in RiskShaped
         /\ \/ \E b \in canonBlobs : <<c, b>> \in Contains
            \/ IF c \in Ascii THEN asciiIncomplete ELSE incomplete

\* _is_tainted_value, budgets aside
Recognised(q) ==
  \/ q.atoms \cap exact # {}
  \/ q.containers \cap containers # {}
  \/ \E t \in q.texts : TaintedText(t)
  \/ \E k \in q.keys : \/ k \in exact
                       \/ HasRiskForm(k) /\ TaintedText(k)

\* characters compared for one string, and normalised for all of q's
SearchCost(v, B) == IF v \in RiskShaped
                    THEN Size[v] + Cardinality(B) * Size[v] + Total(Size, B)
                    ELSE 0

LookupCost(q) ==
  Total([t \in Searchable(q) |-> SearchCost(Strip[t], blobs)
                                   + SearchCost(Canon[Strip[t]], canonBlobs)],
        Searchable(q))

TooCostly(q) == \/ LookupCost(q) > MaxLookup
                \/ Total(Work, Searchable(q)) + KeyWork(q.keys) > MaxWork

Matched(q) == Recognised(q) \/ TooCostly(q)

IsTainted(q) == saturated \/ Matched(q)

---------------------------------------------------------------------------
TypeOK ==
  /\ exact \subseteq Texts \cup Atoms
  /\ containers \subseteq Containers
  /\ blobs \subseteq exact \cap Texts
  /\ canonBlobs \subseteq Texts
  /\ incomplete \in BOOLEAN
  /\ asciiIncomplete \in BOOLEAN
  /\ utf8 \in Nat
  /\ saturated \in BOOLEAN
  /\ version \in Nat
  /\ recorded \subseteq Documents

\* text v lexically derives from result d: verbatim, lifted as an address or
\* URL out of d's text, or lifted in a disguise
Derived(v, d) ==
  \/ v \in d.texts \cup d.keys
  \/ Strip[v] \in RiskShaped
       /\ \E t \in Searchable(d) : <<Strip[v], t>> \in Contains
  \/ Canon[Strip[v]] \in RiskShaped
       /\ \E t \in Searchable(d) : <<Canon[Strip[v]], Canon[t]>> \in Contains

CarriesDerived(q, d) ==
  \/ q.atoms \cap d.atoms # {}
  \/ q.containers \cap d.containers # {}
  \/ \E t \in q.texts : Derived(t, d)
  \/ \E k \in q.keys : \/ k \in d.texts \cup d.keys
                       \/ HasRiskForm(k) /\ Derived(k, d)

(* Nothing recorded is ever missed: whatever lexically derives from any    *)
(* result of the session is tainted, in whatever order the results came,   *)
(* whichever strings were indexed before and whichever were too long to be *)
(* normalised (record_result, verb_authority.py:2030 and 2059).            *)
NothingIsMissed ==
  \A d \in recorded, q \in Documents : CarriesDerived(q, d) => IsTainted(q)

(* The false-positive surface stays small: while the session is open a     *)
(* value that is cheap to look up is tainted only if it derives from a     *)
(* result, or is an address that an overlong result may hide.              *)
TaintHasAReason ==
  \A q \in Documents :
    IsTainted(q) /\ ~saturated /\ ~TooCostly(q) =>
      \/ \E d \in recorded : CarriesDerived(q, d)
      \/ (q.texts \cup q.keys) \cap Overlong # {}
      \/ /\ \E t \in q.texts \cup q.keys : Canon[Strip[t]] \in RiskShaped
         /\ \E d \in recorded : Searchable(d) \cap Overlong # {}

(* The running byte counter is exactly what the stores hold, however often *)
(* strings were returned again, and both budgets are kept.                 *)
UsageIsExact ==
  /\ utf8 = Total(Size, exact \cap Texts) + Total(Size, blobs)
              + Total(Size, canonBlobs) + TokenSize * Cardinality(containers)
  /\ utf8 <= MaxBytes
  /\ Entries <= MaxEntries

(* The ledger is the session ledger the runner relies on: no lookup that   *)
(* was tainted ever turns clean, each commit opens one epoch, and the      *)
(* first failed write closes the session and forgets nothing.  That what   *)
(* a commit taints includes its own result is NothingIsMissed.             *)
Session == INSTANCE SessionLedger WITH
  Values <- Documents,
  tainted <- {q \in Documents : Matched(q)}

RefinesSessionLedger == Session!Spec
=============================================================================
