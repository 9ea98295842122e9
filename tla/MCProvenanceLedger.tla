------------------------ MODULE MCProvenanceLedger ------------------------
(***************************************************************************)
(* An ASCII address, the same address in a Unicode disguise, prose that   *)
(* contains it without being risk shaped itself, a non-ASCII address, and  *)
(* two overlong texts that hide both: one folds to a skeleton, one is too  *)
(* rich to fold.                                                           *)
(***************************************************************************)
EXTENDS ProvenanceLedger, TLC

CONSTANTS addr, disguised, exotic, prose, proseC, long, longC, longS, rich,
          name, noText, n42, obj

MCTexts == {addr, disguised, exotic, prose, proseC, long, longC, longS, rich,
            name}

MCContains ==
  {<<t, t>> : t \in MCTexts}
    \cup {<<addr, b>> : b \in {prose, proseC, longC, longS}}
    \cup {<<disguised, prose>>, <<exotic, longC>>}

MCStrip == [t \in MCTexts |-> t]
MCCanon == [t \in MCTexts |-> CASE t = disguised -> addr
                                [] t = prose -> proseC
                                [] t \in {long, rich} -> longC
                                [] OTHER -> t]
MCSkeleton == (long :> longS) @@ (rich :> noText)
MCFoldSize == (long :> 2) @@ (rich :> 3)
MCAscii == {addr, prose, proseC, longS, name}
MCSize == [t \in MCTexts |-> IF t \in {long, rich} THEN 3 ELSE 1]
MCWork == [t \in MCTexts |-> IF t \in {exotic, disguised, long} THEN 2
                                ELSE 0]

Doc(texts, keys) ==
  [texts |-> texts, keys |-> keys, atoms |-> {}, containers |-> {}]

MCDocuments ==
  {Doc({addr}, {}), Doc({disguised}, {}), Doc({exotic}, {}), Doc({prose}, {}),
   Doc({long}, {}), Doc({rich}, {}), Doc({name}, {}),
   [Doc({}, {prose}) EXCEPT !.containers = {obj}],
   [Doc({}, {addr, exotic}) EXCEPT !.atoms = {n42}],
   [Doc({disguised}, {disguised}) EXCEPT !.atoms = {n42}],
   Doc({long, exotic}, {prose})}
=============================================================================
