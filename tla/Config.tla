------------------------------- MODULE Config -------------------------------
(***************************************************************************)
(* Load and Fields of lib/config, as operators on the type of the          *)
(* configuration and the environment.  Both walk the struct depth first:   *)
(* a type is the sequence of its fields that are no structs, in that order, *)
(* each with the names of the structs it is in, outermost first, and its   *)
(* own; a field is exported when all of these names are.                   *)
(*                                                                         *)
(* A rune is a letter, upper or lower case, or another character.  Of the  *)
(* texts of values few occur, and Numbers says which of them are numbers;  *)
(* an int32 has Int32 bits here.                                           *)
(***************************************************************************)
EXTENDS Integers, Sequences, SequencesExt

CONSTANTS
    Letters,        \* the letters that names are made of
    Numbers,        \* the function from the texts of numbers to the numbers
    Int32           \* the bits of an int32

ASSUME Int32Assumption == Int32 \in Nat \ {0}

------------------------------------------------------------------------------
(* Keys *)

Lower(l) == [char |-> l, upper |-> FALSE]
Upper(l) == [char |-> l, upper |-> TRUE]

IsUpper(r) == r.upper
IsLower(r) == r.char \in Letters /\ ~r.upper

\* Mutant of Splits: an acronym swallows the word after it.
SplitsAfterLower(s, i) == i > 1 /\ IsUpper(s[i]) /\ IsLower(s[i - 1])

\* Whether camelToSnake puts an underscore before a rune.
Splits(s, i) ==
    /\ i > 1
    /\ IsUpper(s[i])
    /\ \/ IsLower(s[i - 1])
       \/ IsUpper(s[i - 1]) /\ i < Len(s) /\ IsLower(s[i + 1])

camelToSnake(s) ==
    FlattenSeq([i \in DOMAIN s |->
        (IF Splits(s, i) THEN <<Lower("_")>> ELSE <<>>) \o <<Lower(s[i].char)>>])

\* buildKey, from the outermost struct inwards.
buildKey(path) ==
    FlattenSeq([i \in DOMAIN path |->
        (IF i = 1 THEN <<>> ELSE <<Lower(".")>>) \o camelToSnake(path[i])])

\* FormatKey and Read of envSource.
FormatKey(key) == [i \in DOMAIN key |->
    IF key[i].char = "." THEN Lower("_")
    ELSE [key[i] EXCEPT !.upper = @ \/ key[i].char \in Letters]]

------------------------------------------------------------------------------
(* Values *)

LowBits(n) == ((n + 2 ^ (Int32 - 1)) % 2 ^ Int32) - 2 ^ (Int32 - 1)

\* Whether setField returns no error.
Parses(kind, raw) ==
    CASE kind = "string" -> TRUE
      [] kind \in {"int", "int32", "float"} -> raw \in DOMAIN Numbers
      [] kind = "duration" -> raw \in {"0", "1h"}
      [] kind = "bool" -> raw \in {"0", "1", "true"}
      [] OTHER -> FALSE

\* What setField stores.  SetInt keeps the low bits of a number.
setField(kind, raw) ==
    CASE kind \in {"int", "float"} -> [number |-> Numbers[raw]]
      [] kind = "int32" -> [number |-> LowBits(Numbers[raw])]
      [] kind = "bool" -> [truth |-> raw \in {"1", "true"}]
      [] OTHER -> [text |-> raw]

------------------------------------------------------------------------------
(* Load *)

\* Mutant of Key: load does not pass the prefix on.
KeyWithoutPrefix(field) == FormatKey(buildKey(<<Last(field.path)>>))

\* The variable that load reads.
Key(field) == FormatKey(buildKey(field.path))

HasDefault(field) == field.default # ""

\* Whether load finds a text for the field, and which.
Finds(field, env) == Key(field) \in DOMAIN env \/ HasDefault(field)

Raw(field, env) == IF Key(field) \in DOMAIN env THEN env[Key(field)] ELSE field.default

FieldFails(field, env) ==
    IF Finds(field, env) THEN ~Parses(field.kind, Raw(field, env)) ELSE ~field.optional

Exported(type) == SelectSeq(type.fields, LAMBDA f : f.exported)

\* The fields before the first one that fails are set; an optional one may keep
\* its zero.
load(type, env) ==
    LET fields == Exported(type)
        failed == {k \in 1 .. Len(fields) : FieldFails(fields[k], env)}
        passed == {k \in 1 .. Len(fields) : \A j \in failed : k < j}
    IN  [ok |-> failed = {},
         value |-> [k \in passed |->
            IF Finds(fields[k], env) THEN setField(fields[k].kind, Raw(fields[k], env))
            ELSE [zero |-> TRUE]]]

\* type.env is the place of the field that GetEnv returns, 0 without GetEnv.
Load(type, env) ==
    LET loaded == load(type, env)
        valid == type.env # 0 /\ loaded.ok =>
                    loaded.value[type.env] \in {[text |-> "dev"], [text |-> "prod"]}
    IN  [ok |-> loaded.ok /\ valid, value |-> loaded.value]

------------------------------------------------------------------------------
(* Fields *)

FieldInfo(field) ==
    [Key |-> buildKey(field.path), HasDefault |-> HasDefault(field),
     Default |-> field.default, SourceKey |-> FormatKey(buildKey(field.path))]

Fields(type) == [k \in 1 .. Len(Exported(type)) |-> FieldInfo(Exported(type)[k])]

------------------------------------------------------------------------------
(* What they are for *)

Runes == [char : STRING, upper : BOOLEAN]

IsAcronym(word) == \A i \in DOMAIN word : IsUpper(word[i])

\* A word begins in upper case and goes on with a lower-case letter and without
\* upper case, or it is an acronym.
IsWord(word) ==
    /\ word \in Seq(Runes) /\ word # <<>>
    /\ IsUpper(word[1])
    /\ \/ IsAcronym(word)
       \/ IsLower(word[2]) /\ \A i \in 2 .. Len(word) : ~IsUpper(word[i])

Name(words) == FlattenSeq(words)

\* Two acronyms in a row, or a word after a digit, cannot be told apart.
Separable(words) ==
    \A n \in 1 .. Len(words) - 1 :
        /\ ~(IsAcronym(words[n]) /\ IsAcronym(words[n + 1]))
        /\ Last(words[n]).char \in Letters

\* The snake is the words with underscores in between.
SnakeTellsWords(words) ==
    Separable(words) =>
        camelToSnake(Name(words)) =
            FlattenSeq([n \in DOMAIN words |->
                (IF n = 1 THEN <<>> ELSE <<Lower("_")>>)
                \o [i \in DOMAIN words[n] |-> Lower(words[n][i].char)]])

\* What a text means, for a number that fits: nothing is said of others.
Means(value, kind, text) ==
    CASE kind \in {"string", "duration"} -> value = [text |-> text]
      [] kind = "bool" -> value = [truth |-> text # "0"]
      [] kind \in {"int", "float"} -> value = [number |-> Numbers[text]]
      [] kind = "int32" -> LowBits(Numbers[text]) = Numbers[text] => value = [number |-> Numbers[text]]
      [] OTHER -> FALSE

\* What Load leaves in a field is what Fields lets one expect.
FieldsTellLoad(type, env) ==
    LET info == Fields(type)
        loaded == Load(type, env)
    IN  /\ loaded.ok => DOMAIN loaded.value = DOMAIN info
        /\ \A k \in DOMAIN loaded.value :
              LET kind == Exported(type)[k].kind IN
              IF info[k].SourceKey \in DOMAIN env
              THEN Means(loaded.value[k], kind, env[info[k].SourceKey])
              ELSE IF info[k].HasDefault THEN Means(loaded.value[k], kind, info[k].Default)
              ELSE loaded.value[k] = [zero |-> TRUE]

\* A variable decides over the fields that Fields lists for it, and no others.
VariableDecidesItsFields(type, env, variable) ==
    LET without == Load(type, [v \in DOMAIN env \ {variable} |-> env[v]])
        with == Load(type, env)
    IN  \A k \in DOMAIN with.value \cap DOMAIN without.value :
            with.value[k] # without.value[k] => Fields(type)[k].SourceKey = variable
==============================================================================
