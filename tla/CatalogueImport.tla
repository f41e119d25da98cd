-------------------------- MODULE CatalogueImport --------------------------
(***************************************************************************)
(* Loading a house's own list (packages/core/src/csv-import.ts and         *)
(* applyImport in apps/app/src/demo/read-model.ts).  A file is its rows    *)
(* under the columns the person has checked.  A name is what was written:  *)
(* its words, and the dress (punctuation) normalise takes off.             *)
(***************************************************************************)
EXTENDS KitList

CONSTANTS
    MaxQuantity,   \* a row of more units than this is a mistake
    NoCode         \* the cell of a unit code left blank

Blank == -1      \* an empty quantity cell
Garbled == -2    \* one that is not a number

Key(name) == Normalised(name.words)
Spaced(text) == FlattenSeq([i \in DOMAIN text |->
                    IF i = 1 THEN text[i] ELSE <<" ">> \o text[i]])

(* readRows: a row without a name, or whose quantity is not a whole number *)
(* from 1 to MaxQuantity, is rejected.                                     *)
Readable(row) == row.name.words # <<>> /\ row.quantity \in {Blank} \cup 1..MaxQuantity
Quantity(row) == IF row.quantity = Blank THEN 1 ELSE row.quantity

(* planImport.  Only an equal key is the same product, here or earlier in  *)
(* the file; a close one is handed to a person.                            *)
SameKey(name, catalogue) == {p \in DOMAIN catalogue : Key(catalogue[p]) = Key(name)}
Near(name, catalogue) ==
    {p \in DOMAIN catalogue :
        AtLeast(Similarity(Spaced(Key(name)), Spaced(Key(catalogue[p]))), 72)}

Verdict_Merges(file, i, catalogue) ==
    LET name == file[i].name IN
    IF ~Readable(file[i]) THEN [kind |-> "rejected", product |-> 0]
    ELSE IF Near(name, catalogue) # {}
      THEN [kind |-> "existing", product |-> Min(Near(name, catalogue))]
    ELSE [kind |-> "new", product |-> 0]
Verdict(file, i, catalogue) ==
    LET name == file[i].name IN
    IF ~Readable(file[i]) THEN [kind |-> "rejected", product |-> 0]
    ELSE IF \E k \in 1..(i - 1) : Readable(file[k]) /\ Key(file[k].name) = Key(name)
      THEN [kind |-> "in the file", product |-> 0]
    ELSE IF SameKey(name, catalogue) # {}
      THEN [kind |-> "existing", product |-> Min(SameKey(name, catalogue))]
    ELSE [kind |-> IF Near(name, catalogue) # {} THEN "ambiguous" ELSE "new", product |-> 0]

PlanImport(file, catalogue) == [i \in DOMAIN file |-> Verdict(file, i, catalogue)]

(* allocateUnitCodes: numbering goes on past the highest number the prefix *)
(* already has.  A code is its prefix and its number.                      *)
AllocateUnitCodes_Restart(taken, prefix, quantity) == [i \in 1..quantity |-> <<prefix, i>>]
AllocateUnitCodes(taken, prefix, quantity) ==
    LET used == {c[2] : c \in {x \in taken : x[1] = prefix}}
    IN  [i \in 1..quantity |-> <<prefix, Max({0} \cup used) + i>>]

(* applyImport, row by row.  A product is created once for each spelling   *)
(* the file uses and the catalogue did not resolve; a unit without a code  *)
(* answers to its own id.                                                  *)
ApplyRow(book, row, verdict) ==
    LET made == {p \in book.made : book.catalogue[p] = row.name}
        product == IF verdict.kind = "existing" THEN verdict.product
                   ELSE IF made # {} THEN Min(made)
                   ELSE Len(book.catalogue) + 1
        fresh == product > Len(book.catalogue)
        n == Quantity(row)
        taken == {book.units[u].code : u \in DOMAIN book.units}
        codes == IF row.code = NoCode
                 THEN [i \in 1..n |-> <<NoCode, Len(book.units) + i>>]
                 ELSE AllocateUnitCodes(taken, row.code, n)
    IN  [catalogue |-> IF fresh THEN Append(book.catalogue, row.name) ELSE book.catalogue,
         made |-> IF fresh THEN book.made \cup {product} ELSE book.made,
         units |-> book.units \o
             [i \in 1..n |-> [product |-> product, name |-> row.name, code |-> codes[i],
                              here |-> TRUE, fit |-> TRUE]]]

ApplyImport(catalogue, units, file, plan) ==
    FoldLeft(LAMBDA book, i : IF plan[i].kind = "rejected" THEN book
                              ELSE ApplyRow(book, file[i], plan[i]),
             [catalogue |-> catalogue, made |-> {}, units |-> units],
             [i \in DOMAIN file |-> i])
=============================================================================
