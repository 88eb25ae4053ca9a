--------------------------- MODULE TokenCompletion ---------------------------
(***************************************************************************)
(* Incremental completion of an autocompleter of controls.js: which part   *)
(* of the text a chosen entry replaces.  The token is the one in which the *)
(* text first differs from what it was when typing last paused; its bounds *)
(* are kept from that pause until the next, and used for every choice in   *)
(* between.  (The menu and the requests for it are in Autocompleter.)      *)
(*                                                                         *)
(* A text is a sequence of characters; positions count from 0, as in the   *)
(* code, so the character at position i is text[i + 1].                    *)
(***************************************************************************)
EXTENDS Naturals, Integers, Sequences

CONSTANTS
    Letters, Delimiters, Blanks,    \* options.tokens; white space may be both
    Entries,                        \* what may be offered: texts of letters
    MinChars,                       \* options.minChars, at least 1
    NoBounds,
    MaxLength                       \* bound: characters of the text

VARIABLES
    value,      \* element.value
    old,        \* oldElementValue
    bounds,     \* tokenBounds, NoBounds for null
    offered,    \* choices are shown for the token
    fresh,      \* history: the text is still the one the bounds are of
    edited      \* history: if so, where that text first differed from old

tokenVars == <<value, old, bounds, offered, fresh, edited>>

Characters == Letters \cup Delimiters \cup Blanks
Positions == -1..MaxLength

TokenAssumption ==
    /\ \A entry \in Entries : entry \in Seq(Characters)
    /\ MaxLength \in Nat
    /\ NoBounds \notin Positions \X Positions

TokenTypeOK ==
    /\ \A v \in {value, old} : v \in Seq(Characters) /\ Len(v) <= MaxLength
    /\ bounds \in {NoBounds} \cup (Positions \X Positions)
    /\ {offered, fresh} \subseteq BOOLEAN
    /\ edited \in Positions

TokenInit ==
    /\ value = <<>> /\ old = <<>>
    /\ bounds = NoBounds
    /\ offered = FALSE /\ fresh = FALSE
    /\ edited = 0

----------------------------------------------------------------------------
(* Texts, as the string operations of the language see them. *)

Least(S) == CHOOSE i \in S : \A j \in S : i <= j
Greatest(S) == CHOOSE i \in S : \A j \in S : i >= j

\* substring(a, b): positions are brought into range and into order.
SubString(v, a, b) ==
    LET InRange(p) == Greatest({0, Least({p, Len(v)})})
    IN  SubSeq(v, Least({InRange(a), InRange(b)}) + 1, Greatest({InRange(a), InRange(b)}))

From(v, a) == SubString(v, a, Len(v))

\* strip().
Strip(v) ==
    LET ink == {i \in DOMAIN v : v[i] \notin Blanks}
    IN  IF ink = {} THEN <<>> ELSE SubSeq(v, Least(ink), Greatest(ink))

LeadingBlanks(v) ==
    SubString(v, 0, Least({Len(v)} \cup {i - 1 : i \in {j \in DOMAIN v : v[j] \notin Blanks}}))

\* lastIndexOf and indexOf of the nearest delimiter; lastIndexOf takes a
\* negative position for 0.
DelimiterBefore(v, from) ==
    Greatest({-1} \cup {i \in 0..Greatest({from, 0}) : i < Len(v) /\ v[i + 1] \in Delimiters})

DelimiterAfter(v, from) ==
    Least({Len(v)} \cup {i \in 0..Len(v) - 1 : i >= from /\ v[i + 1] \in Delimiters})

FirstDifferencePos(new, was) ==
    LET boundary == Least({Len(new), Len(was)})
    IN  Least({boundary} \cup {i \in 0..boundary - 1 : new[i + 1] # was[i + 1]})

----------------------------------------------------------------------------
(* The token. *)

\* getTokenBounds() when none are kept.
TokenBounds ==
    LET diff == FirstDifferencePos(value, old)
        offset == IF diff = Len(old) THEN 1 ELSE 0
    IN  <<DelimiterBefore(value, diff + offset - 1) + 1, DelimiterAfter(value, diff + offset)>>

\* getTokenBounds(), given what is kept, and what is kept then: a text that
\* is blank has no token, and that is not kept.
BlankField == Strip(value) = <<>>
BoundsGiven(kept) == IF kept # NoBounds THEN kept ELSE IF BlankField THEN <<-1, 0>> ELSE TokenBounds
KeptAfter(kept) == IF kept = NoBounds /\ BlankField THEN NoBounds ELSE BoundsGiven(kept)

Token(b) == Strip(SubString(value, b[1], b[2]))

\* The user inserts or deletes a character; the menu stays for now.
Type ==
    /\ \E i \in 0..Len(value) :
        \/ /\ Len(value) < MaxLength
           /\ \E c \in Characters :
                value' = SubString(value, 0, i) \o <<c>> \o From(value, i)
        \/ /\ i < Len(value)
           /\ value' = SubString(value, 0, i) \o From(value, i + 1)
    /\ fresh' = FALSE /\ edited' = 0
    /\ UNCHANGED <<old, bounds, offered>>

\* Mutant: the bounds of the last pause are kept.
PauseKeepingBounds ==
    /\ bounds' = KeptAfter(bounds)
    /\ offered' = (Len(Token(BoundsGiven(bounds))) >= MinChars)
    /\ old' = value
    /\ fresh' = TRUE /\ edited' = FirstDifferencePos(value, old)
    /\ UNCHANGED value

\* onObserverEvent(): typing has paused.
Pause ==
    /\ bounds' = KeptAfter(NoBounds)
    /\ offered' = (Len(Token(BoundsGiven(NoBounds))) >= MinChars)
    /\ old' = value
    /\ fresh' = TRUE /\ edited' = FirstDifferencePos(value, old)
    /\ UNCHANGED value

\* activate(), by the page: choices for the token, whatever its length.
Activate ==
    /\ bounds' = KeptAfter(bounds)
    /\ offered' = TRUE
    /\ IF bounds = NoBounds THEN fresh' = TRUE /\ edited' = FirstDifferencePos(value, old)
       ELSE UNCHANGED <<fresh, edited>>
    /\ UNCHANGED <<value, old>>

\* The text with the token replaced; white space before it stays.
Replaced(b, entry) ==
    IF b[1] = -1 THEN entry
    ELSE SubString(value, 0, b[1]) \o LeadingBlanks(From(value, b[1])) \o entry \o From(value, b[2])

\* selectEntry() and updateElement(): the menu goes, the bounds are kept.
Choose(entry) ==
    /\ offered
    /\ value' = Replaced(BoundsGiven(bounds), entry)
    /\ Len(value') <= MaxLength
    /\ old' = value'
    /\ bounds' = KeptAfter(bounds)
    /\ offered' = FALSE
    /\ fresh' = FALSE /\ edited' = 0

TokenNext == Type \/ Pause \/ Activate \/ \E entry \in Entries : Choose(entry)

TokenSpec == TokenInit /\ [][TokenNext]_tokenVars

----------------------------------------------------------------------------
(* Properties. *)

\* The text with the token between positions p and q, which delimiters or the
\* ends of the text enclose, replaced by the entry.
TokenReplaced(p, q, entry) ==
    /\ p <= q
    /\ \A i \in p..q - 1 : value[i + 1] \notin Delimiters
    /\ p = 0 \/ value[p] \in Delimiters
    /\ q = Len(value) \/ value[q + 1] \in Delimiters
    /\ value' = SubString(value, 0, p) \o LeadingBlanks(SubString(value, p, q))
                    \o entry \o From(value, q)

\* L248, L320, L325: the bounds are of another text once the user has typed or
\* a choice was made; the search for the delimiter before the start of the text
\* finds one that is its first character; white space is kept beyond a token
\* that has nothing else.
Stale == ~fresh
DelimiterTypedFirst == edited = 0 /\ value # <<>> /\ value[1] \in Delimiters
NothingTyped == Token(BoundsGiven(bounds)) = <<>>

\* L224-248, L296-334: otherwise a choice replaces exactly the token in which
\* the user last typed, or the one begun by the delimiter typed last: no
\* delimiter and no other token of the text is lost, added or changed.
ReplacesOneToken ==
    offered /\ ~Stale /\ ~DelimiterTypedFirst /\ ~NothingTyped =>
        \A entry \in Entries : Choose(entry) =>
            \E p, q \in 0..Len(value) :
                /\ p <= edited + 1 /\ edited <= q
                /\ TokenReplaced(p, q, entry)

OneTokenIsReplaced == [][ReplacesOneToken]_tokenVars
=============================================================================
