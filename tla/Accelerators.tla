---------------------------- MODULE Accelerators ----------------------------
(***************************************************************************)
(* Which accelerator a node has (core/hardware.py): no scheduler says, so  *)
(* it is read out of the type of a resource and out of the labels of the   *)
(* node, whatever form each was typed in.                                  *)
(*                                                                         *)
(* A token is such a word: the parts whose alias stands in it, the size    *)
(* that it mentions (0: none), and its form:                               *)
(*   "part"      exactly an alias                            a100          *)
(*   "sized"     an alias and a size behind it               a100-80gb     *)
(*   "glued"     the same, without a separator               a10080gb      *)
(*   "product"   an alias within what names a vendor  NVIDIA-A100-80GB-PCIe*)
(*   "slice"     a product of which a part is handed out      ...-MIG-1g.5gb*)
(*   "embedded"  an alias within what names no vendor        rack-a100     *)
(*   "other"     a size of memory, a processor, a network    256g          *)
(***************************************************************************)
EXTENDS Integers, FiniteSetsExt, SequencesExt

CONSTANTS
    Variants,   \* part -> the sizes it ships in
    Uncertain,  \* the parts whose name alone does not pin the size
    Features,   \* part -> what it is capable of
    AliasOrder, \* the parts, the one with the longest alias first
    GluedKnown  \* the parts whose aliases name the glued form too

Parts == DOMAIN Variants
Nothing == "nothing"

\* What the name of a part says of it: its least size, if there are several.  A
\* part of one size may be uncertain too (GB10), and then no label makes it sure.
Named(part) ==
    [part |-> part, size |-> Min(Variants[part]), certain |-> part \notin Uncertain]

-----------------------------------------------------------------------------
(* What one token says.                                                    *)

\* The part it names exactly, with a size behind it or without.
SpecForToken(token) ==
    IF token.form \in {"part", "sized"} \/ (token.form = "glued" /\ token.parts \subseteq GluedKnown)
    THEN CHOOSE p \in token.parts : TRUE
    ELSE Nothing

\* Seeded bug: any alias within a product will do.
LongestAny(parts) == Last(SelectSeq(AliasOrder, LAMBDA p : p \in parts))

\* Of the aliases within a product, the longest.
Longest(parts) == Head(SelectSeq(AliasOrder, LAMBDA p : p \in parts))

InProduct(token) ==
    IF token.form \in {"product", "slice"} /\ token.parts # {} THEN Longest(token.parts) ELSE Nothing

Slice(token) == token.form = "slice"
LegibleSize(token) == IF token.form \in {"sized", "product", "slice"} THEN token.size ELSE 0

\* Seeded bug: the larger of two sizes is believed.
PinLarger(part, tokens) ==
    LET sizes == {LegibleSize(t) : t \in tokens} \cap Variants[part]
    IN IF sizes = {} THEN Named(part) ELSE [Named(part) EXCEPT !.size = Max(sizes), !.certain = TRUE]

\* _pin_memory_from_label: one of the sizes the part ships in, if that is the
\* only one mentioned, and no token says that the card is handed out in slices.
Pin(part, tokens) ==
    LET sizes == {LegibleSize(t) : t \in tokens} \cap Variants[part]
    IN  IF Cardinality(Variants[part]) = 1 \/ (\E t \in tokens : Slice(t)) \/ Cardinality(sizes) # 1
        THEN Named(part)
        ELSE [Named(part) EXCEPT !.size = Max(sizes), !.certain = TRUE]

-----------------------------------------------------------------------------
(* What a node says.                                                       *)

Exact(tokens) == SelectSeq(tokens, LAMBDA t : SpecForToken(t) # Nothing)
Products(tokens) == SelectSeq(tokens, LAMBDA t : InProduct(t) # Nothing)

\* _identify_from_labels: an exact name among the labels, wherever it stands;
\* failing that, a product.  The token is kept: the size is read off no other.
FromLabels(labels) ==
    LET exact == Exact(labels) products == Products(labels)
    IN  IF exact # <<>> THEN <<SpecForToken(Head(exact)), Head(exact)>>
        ELSE IF products # <<>> THEN <<InProduct(Head(products)), Head(products)>>
        ELSE <<>>

\* identify_accelerator: the type of the resource decides the part; a label has a
\* say in the size if it names the same part.
Identify(resource, labels) ==
    LET typed == Exact(resource)
        said == FromLabels(labels)
    IN  IF typed # <<>>
        THEN LET part == SpecForToken(Head(typed))
             IN Pin(part, {Head(typed)} \cup (IF said # <<>> /\ said[1] = part THEN {said[2]} ELSE {}))
        ELSE IF said # <<>> THEN Pin(said[1], {said[2]})
        ELSE [part |-> Nothing, size |-> 0, certain |-> FALSE]

\* supports: capability_gap has no gap where the part is not known.
Supports(part, feature) == part # Nothing /\ feature \in Features[part]
=============================================================================
