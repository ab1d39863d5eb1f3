----------------------------- MODULE References -----------------------------
(***************************************************************************)
(* The references_map table: which bullet each [[title]] in a text leads   *)
(* to.  A reference is resolved when its source is saved, to any bullet    *)
(* whose content begins with the title, and otherwise when a bullet of     *)
(* exactly that title is saved later.  Of a text the model keeps what this *)
(* depends on: its title (what is left before the delimiter without        *)
(* markup), the titles that its content, as it is stored, begins with, the *)
(* titles it refers to, and whether it contains "==>".  Titles that differ *)
(* only in case are one.                                                   *)
(***************************************************************************)
EXTENDS Integers, Sequences, FiniteSets, SequencesExt

CONSTANTS
  Rem,       \* ids of bullets
  Title,     \* titles that references name
  NoTitle,   \* the title of a text that no reference names
  Text,      \* what a bullet can say
  Nil        \* no bullet; as a target: NULL

ReferencesAssumption ==
  /\ Nil \notin Rem \union Text
  /\ NoTitle \notin Title
  /\ Text \subseteq [title : Title \union {NoTitle}, begins : SUBSET Title,
                     refs : SUBSET Title, list : BOOLEAN]

ASSUME ReferencesAssumption

VARIABLES
  text,      \* rems.content, Nil when there is no such bullet
  link,      \* references_map: the target of each title that a bullet names
  lost       \* history: the titles whose target was deleted since the
             \* reference was made

There(T) == {r \in Rem : T[r] # Nil}

\* Bullets that content LIKE 'title%' finds.
BeginWith(T, u) == {x \in There(T) : u \in T[x].begins}

\* Variant: the references of the old text stay.
SyncedOver(T, L, r) ==
  LET Found(u) == IF BeginWith(T, u) = {} THEN {Nil} ELSE BeginWith(T, u)
      own == {f \in [T[r].refs \union DOMAIN L[r] -> Rem \union {Nil}] : \A u \in DOMAIN f : f[u] \in Found(u)}
  IN {[s \in Rem |-> IF s = r THEN f ELSE L[s]] : f \in own}

\* Variant: a title takes every reference that names it.
SyncedGreedy(T, L, r) ==
  LET Found(u) == IF BeginWith(T, u) = {} THEN {Nil} ELSE BeginWith(T, u)
      own == {f \in [T[r].refs -> Rem \union {Nil}] : \A u \in DOMAIN f : f[u] \in Found(u)}
  IN {[s \in Rem |-> LET before == IF s = r THEN f ELSE L[s]
                     IN [u \in DOMAIN before |-> IF u = T[r].title THEN r ELSE before[u]]] : f \in own}

\* Variant: nothing is resolved later.
SyncedOnce(T, L, r) ==
  LET Found(u) == IF BeginWith(T, u) = {} THEN {Nil} ELSE BeginWith(T, u)
      own == {f \in [T[r].refs -> Rem \union {Nil}] : \A u \in DOMAIN f : f[u] \in Found(u)}
  IN {[s \in Rem |-> IF s = r THEN f ELSE L[s]] : f \in own}

\* What syncCardsAndRefsTx can make of the links L when r has been saved and
\* the contents are T: the references of r are looked up anew, the query taking
\* any match, and references that led nowhere and name the title of r lead to r.
Synced(T, L, r) ==
  LET Found(u) == IF BeginWith(T, u) = {} THEN {Nil} ELSE BeginWith(T, u)
      own == {f \in [T[r].refs -> Rem \union {Nil}] : \A u \in DOMAIN f : f[u] \in Found(u)}
      Resolved(f) == [u \in DOMAIN f |-> IF f[u] = Nil /\ u = T[r].title THEN r ELSE f[u]]
  IN {[s \in Rem |-> Resolved(IF s = r THEN f ELSE L[s])] : f \in own}

\* What the links Ls can become when r, unless it is Nil, is saved.
Saved(T, Ls, r) == IF r = Nil THEN Ls ELSE UNION {Synced(T, M, r) : M \in Ls}

\* A parent p of what has changed is saved again if it lists its children.
Again(T, p) == IF p # Nil /\ T[p] # Nil /\ T[p].list THEN p ELSE Nil

\* The links and the history L and S, after r and then its parents p and q have
\* been saved, in one transaction; Nil where there is none.
Save(T, L, S, r, p, q) ==
  /\ text' = T
  /\ link' \in Saved(T, Saved(T, Saved(T, {L}, r), Again(T, p)), Again(T, q))
  /\ lost' = [s \in Rem |-> IF s \in {r, Again(T, p), Again(T, q)} THEN {} ELSE S[s]]

\* The foreign keys when the bullets gone are deleted: their references go,
\* and references to them lead nowhere.
Without(L, gone) ==
  [s \in Rem |-> IF s \in gone THEN [u \in {} |-> Nil]
                 ELSE [u \in DOMAIN L[s] |-> IF L[s][u] \in gone THEN Nil ELSE L[s][u]]]

LostWith(gone) ==
  [s \in Rem |-> IF s \in gone THEN {}
                 ELSE lost[s] \union {u \in DOMAIN link[s] : link[s][u] \in gone}]

\* Variant: by target only.
BacklinksByTarget(x) == {s \in There(text) : \E u \in DOMAIN link[s] : link[s][u] = x}

\* GetBacklinks for the id of x: by target, or by the title that x has now.
Backlinks(x) ==
  {s \in There(text) : \E u \in DOMAIN link[s] : link[s][u] = x \/ u = text[x].title}

----------------------------------------------------------------------------
\* A bullet refers to what its text says, whatever it said before, and so a
\* bullet is among the backlinks of each bullet whose title it names.
BacklinksComplete ==
  \A s, x \in There(text) : text[x].title \in text[s].refs => s \in Backlinks(x)

\* "Links notes": whichever of two bullets is written first, a reference leads
\* somewhere if there is a bullet of that title without markup before it, but
\* for a reference whose target was deleted.
NamedIsLinked ==
  \A s, x \in There(text) :
    LET u == text[x].title IN
    u \in text[s].refs /\ u \in text[x].begins /\ u \notin lost[s] => link[s][u] # Nil

\* Saving a bullet leaves the links of others where they lead; only those that
\* led nowhere may come to lead to it.  Those to a bullet that is deleted lead
\* nowhere, or to one of that title that lists its children and is saved again
\* because it has lost one.  (Such a bullet has its own links looked up anew.)
LinksStay ==
  [][\A s \in There(text) : \A u \in DOMAIN link[s] :
       LET x == link[s][u] IN
       text'[s] = text[s] /\ ~text[s].list /\ x # Nil =>
         IF text'[x] # Nil THEN link'[s][u] = x
         ELSE link'[s][u] \in {Nil} \union {p \in There(text) : text[p].list /\ text[p].title = u}
    ]_<<text, link>>
=============================================================================
