------------------------------ MODULE WeaponMask ------------------------------
(***************************************************************************)
(* Sets of weapons as bit masks, and as text: the second half of           *)
(* src/src/api/weapon.c.  A mask is the set of its bits; the bit of "no    *)
(* weapon" and bits above the last weapon may be among them.               *)
(***************************************************************************)
EXTENDS Text, Weapon

\* The tag column of g_weapon_table.
Tag ==
  [NONE |-> <<110, 111, 110, 101>>, IPV6 |-> <<105, 112, 118, 54>>, LAN |-> <<108, 97, 110>>,
   UPNP |-> <<117, 112, 110, 112>>, NATPMP |-> <<110, 97, 116, 112, 109, 112>>,
   PCP |-> <<112, 99, 112>>, HOLE |-> <<104, 111, 108, 101>>,
   PREDICT |-> <<112, 114, 101, 100, 105, 99, 116>>,
   BIRTHDAY |-> <<98, 105, 114, 116, 104, 100, 97, 121>>,
   MIRROR |-> <<109, 105, 114, 114, 111, 114>>, RELAY |-> <<114, 101, 108, 97, 121>>,
   UPGRADE |-> <<117, 112, 103, 114, 97, 100, 101>>]

COMMA == 44
TOKEN_MAX == 32

ByPriority == [p \in 1..11 |-> CHOOSE w \in Weapons : Priority[w] = p]
InPriority(mask) ==
  LET upto[p \in 0..11] == IF p = 0 THEN <<>>
                           ELSE IF ByPriority[p] \in mask THEN Append(upto[p - 1], ByPriority[p])
                           ELSE upto[p - 1]
  IN  upto[11]

mask_count(mask) == Cardinality(mask \ {NoWeapon})

\* The first weapon of the mask after prev in priority, and the mask without it.
mask_next(mask, prev) ==
  LET later == InPriority({w \in mask \cap Weapons :
                             prev \in Weapons => Priority[w] > Priority[prev]})
  IN  IF later = <<>> THEN [weapon |-> NoWeapon, mask |-> mask]
      ELSE [weapon |-> later[1], mask |-> mask \ {later[1]}]

mask_format(mask, buflen) ==
  LET w == InPriority(mask)
      upto[i \in 0..Len(w)] ==
        IF i = 0 THEN <<>> ELSE upto[i - 1] \o (IF i > 1 THEN <<COMMA>> ELSE <<>>) \o Tag[w[i]]
  IN  Written(upto[Len(w)], buflen)

from_tag(t) ==
  IF \E w \in DOMAIN Tag : Tag[w] = t THEN CHOOSE w \in DOMAIN Tag : Tag[w] = t ELSE NoWeapon

\* Unknown tags are passed over and counted, "none" is passed over.
mask_from_string(s) ==
  LET spaced == [i \in 1..Len(s) |-> IF s[i] \in {SPACE, 9} THEN COMMA ELSE s[i]]
      field == Fields(spaced, COMMA)
      tokens == {i \in 1..Len(field) : field[i] # <<>>}
      Read(t) == IF Len(t) < TOKEN_MAX THEN from_tag(t) ELSE NoWeapon
  IN  [mask    |-> {Read(field[i]) : i \in tokens} \ {NoWeapon},
       unknown |-> Cardinality({i \in tokens :
                                  Read(field[i]) = NoWeapon /\ field[i] # Tag[NoWeapon]})]
=============================================================================
