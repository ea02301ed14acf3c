------------------------------- MODULE RustNames -------------------------------
(***************************************************************************)
(* The Rust names of ASN.1 names, letter by letter: those of the Rust      *)
(* model (src/asn1rs-model/src/model/rust/mod.rs) and those the generator  *)
(* makes of them once more (src/asn1rs-model/src/gen/rust/mod.rs).         *)
(*                                                                         *)
(* A name is a sequence of letters, digits, "-" and "_".                   *)
(***************************************************************************)
EXTENDS Naturals, Sequences, SequencesExt

Lower == [A |-> "a", B |-> "b", C |-> "c", D |-> "d", E |-> "e", F |-> "f", G |-> "g",
          H |-> "h", I |-> "i", J |-> "j", K |-> "k", L |-> "l", M |-> "m", N |-> "n",
          O |-> "o", P |-> "p", Q |-> "q", R |-> "r", S |-> "s", T |-> "t", U |-> "u",
          V |-> "v", W |-> "w", X |-> "x", Y |-> "y", Z |-> "z"]
Upper == AntiFunction(Lower)

IsUpper(c) == c \in DOMAIN Lower
IsLower(c) == c \in DOMAIN Upper
IsAlphabetic(c) == IsUpper(c) \/ IsLower(c)
ToLower(c) == IF IsUpper(c) THEN Lower[c] ELSE c
ToUpper(c) == IF IsLower(c) THEN Upper[c] ELSE c
IsBreak(c) == c \in {"-", "_"}

ToUpperCase(name) == [i \in DOMAIN name |-> ToUpper(name[i])]
NextIsLower(name, i) == i < Len(name) /\ IsLower(name[i + 1])

-----------------------------------------------------------------------------
(* The Rust model *)

\* Words begin with a capital, and a row of capitals keeps only the first and
\* those that begin a word.
rust_variant_name(name) ==
    LET step(st, i) ==
            IF IsBreak(name[i]) THEN [st EXCEPT !.nextUpper = TRUE, !.prevUpper = FALSE]
            ELSE IF st.nextUpper /\ ~st.prevUpper
            THEN [out |-> Append(st.out, ToUpper(name[i])), nextUpper |-> FALSE, prevUpper |-> TRUE]
            ELSE [st EXCEPT
                    !.out = Append(@, IF st.prevUpper /\ ~NextIsLower(name, i)
                                      THEN ToLower(name[i]) ELSE name[i]),
                    !.prevUpper = IsUpper(name[i])]
    IN  FoldLeftDomain(step, [out |-> <<>>, nextUpper |-> TRUE, prevUpper |-> FALSE], name).out

rust_struct_or_enum_name(name) == rust_variant_name(name)

\* Where a new word begins.
PadsDigits(st, c, pad) ==
    /\ pad
    /\ st.prevAlphabetic # IsAlphabetic(c)
    /\ ~IsBreak(c)
    /\ st.out # <<>>
    /\ Last(st.out) # "_"
BeginsWord(st, name, i) ==
    /\ IsUpper(name[i])
    /\ st.out # <<>>
    /\ st.prevAlphabetic
    /\ ~st.prevLowered \/ NextIsLower(name, i)

rust_module_name(name, pad) ==
    LET step(st, i) ==
            LET c == name[i]
                padded == IF PadsDigits(st, c, pad) THEN Append(st.out, "_") ELSE st.out
                begun == IF BeginsWord([st EXCEPT !.out = padded], name, i)
                         THEN Append(padded, "_") ELSE padded
            IN  [out |-> Append(begun, IF IsBreak(c) THEN "_" ELSE ToLower(c)),
                 prevLowered |-> IsUpper(c),
                 prevAlphabetic |-> IsAlphabetic(c)]
    IN  FoldLeftDomain(step, [out |-> <<>>, prevLowered |-> FALSE, prevAlphabetic |-> FALSE],
                       name).out

rust_field_name(name) == rust_module_name(name, FALSE)
rust_constant_name(name) == ToUpperCase(rust_module_name(name, TRUE))

-----------------------------------------------------------------------------
(* The generator *)

KEYWORDS ==
    {<<"u","s","e">>, <<"m","o","d">>, <<"c","o","n","s","t">>, <<"t","y","p","e">>,
     <<"p","u","b">>, <<"e","n","u","m">>, <<"s","t","r","u","c","t">>,
     <<"i","m","p","l">>, <<"t","r","a","i","t">>}

WithoutHyphens(name) == [i \in DOMAIN name |-> IF name[i] = "-" THEN "_" ELSE name[i]]

\* RustCodeGenerator::rust_field_name, rust_variant_name and rust_module_name
GeneratedFieldName(name) ==
    LET field == WithoutHyphens(name)
    IN  IF field \in KEYWORDS THEN Append(field, "_") ELSE field

GeneratedVariantName(name) ==
    LET step(st, i) ==
            IF st.next THEN [out |-> Append(st.out, ToUpper(name[i])), next |-> FALSE]
            ELSE IF IsBreak(name[i]) THEN [st EXCEPT !.next = TRUE]
            ELSE [st EXCEPT !.out = Append(@, name[i])]
    IN  FoldLeftDomain(step, [out |-> <<>>, next |-> TRUE], name).out

GeneratedModuleName(name) ==
    LET step(st, i) ==
            LET c == name[i]
                begins == IsUpper(c) /\ st.out # <<>> /\ (~st.lowered \/ NextIsLower(name, i))
                begun == IF begins THEN Append(st.out, "_") ELSE st.out
            IN  [out |-> Append(begun, IF c = "-" THEN "_" ELSE ToLower(c)),
                 lowered |-> IsUpper(c)]
    IN  FoldLeftDomain(step, [out |-> <<>>, lowered |-> FALSE], name).out
=============================================================================
