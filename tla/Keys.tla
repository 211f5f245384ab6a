---------------------------------- MODULE Keys ----------------------------------
(***************************************************************************)
(* The keys of sort.c: what -k means, begfield, limfield, keycompare and   *)
(* compare.  A line is a sequence of characters, which are numbers,        *)
(* without its end.  A position in a line is the number of characters      *)
(* before it.  Left out: locales, and the orders of -n, -g, -h, -M, -R     *)
(* and -V, which libraries or other algorithms define.                     *)
(***************************************************************************)
EXTENDS Integers, Sequences, SequencesExt

CONSTANTS blanks, TAB_DEFAULT, SIZE_MAX

\* The key that -k F.C,F.C is parsed to: fields and characters that are not given are 0.
key_of(def, options) ==
  LET schar == IF def.schar = 0 THEN 0 ELSE def.schar - 1
  IN [sword |-> IF def.sword = 1 /\ schar = 0 THEN SIZE_MAX ELSE def.sword - 1,
      schar |-> schar,
      eword |-> IF def.eword = 0 THEN SIZE_MAX ELSE def.eword - 1,
      echar |-> IF def.eword = 0 THEN 0 ELSE def.echar] @@ options

\* A key without options takes the global ones; the global ones are the key if there is no -k.
default_key_compare(key) ==
  key.ignore = {} /\ key.translate = <<>> /\ ~ key.skipsblanks /\ ~ key.skipeblanks
inherited(keys, gkey) ==
  IF keys = <<>> THEN IF default_key_compare(gkey) THEN <<>>
                      ELSE <<[sword |-> SIZE_MAX, schar |-> 0, eword |-> SIZE_MAX, echar |-> 0] @@ gkey>>
  ELSE [k \in DOMAIN keys |->
          IF default_key_compare(keys[k]) /\ ~ keys[k].reverse THEN gkey @@ keys[k] ELSE keys[k]]

\* The first position from ptr on whose character is not in a set, or is, or the end.
Past(line, ptr, chars) ==
  Min({p \in ptr..Len(line) : p = Len(line) \/ line[p + 1] \notin chars})
UpTo(line, ptr, chars) ==
  Min({p \in ptr..Len(line) : p = Len(line) \/ line[p + 1] \in chars})

RECURSIVE SkipFields(_, _, _)
SkipFields(line, ptr, count) ==
  IF ptr = Len(line) \/ count = 0 THEN ptr
  ELSE SkipFields(line, UpTo(line, Past(line, ptr, blanks), blanks), count - 1)

\* With -t, each field but the last of them is skipped with the tab behind it.
RECURSIVE SkipTabs(_, _, _, _, _)
SkipTabs(line, ptr, count, tab, pastLast) ==
  IF ptr = Len(line) \/ count = 0 THEN ptr
  ELSE LET end == UpTo(line, ptr, {tab})
       IN SkipTabs(line, IF end < Len(line) /\ (count > 1 \/ pastLast) THEN end + 1 ELSE end,
                   count - 1, tab, pastLast)

begfield(line, key, tab) ==
  LET field == IF tab # TAB_DEFAULT THEN SkipTabs(line, 0, key.sword, tab, TRUE)
               ELSE SkipFields(line, 0, key.sword)
      ptr == IF key.skipsblanks THEN Past(line, field, blanks) ELSE field
  IN Min({Len(line), ptr + key.schar})

limfield_PastTab(line, key, tab) ==   \* mutant: the tab behind the last field belongs to it
  LET eword == IF key.echar = 0 THEN key.eword + 1 ELSE key.eword
      field == IF tab # TAB_DEFAULT THEN SkipTabs(line, 0, eword, tab, TRUE)
               ELSE SkipFields(line, 0, eword)
      ptr == IF key.skipeblanks THEN Past(line, field, blanks) ELSE field
  IN IF key.echar = 0 THEN field ELSE Min({Len(line), ptr + key.echar})
limfield(line, key, tab) ==
  LET eword == IF key.echar = 0 THEN key.eword + 1 ELSE key.eword
      field == IF tab # TAB_DEFAULT THEN SkipTabs(line, 0, eword, tab, key.echar # 0)
               ELSE SkipFields(line, 0, eword)
      ptr == IF key.skipeblanks THEN Past(line, field, blanks) ELSE field
  IN IF key.echar = 0 THEN field ELSE Min({Len(line), ptr + key.echar})

\* texta and lima: where a key is in a line.  Field ends before field starts are empty fields.
KeyText(line, key, tab) ==
  LET lim == IF key.eword = SIZE_MAX THEN Len(line) ELSE limfield(line, key, tab)
      text == IF key.sword # SIZE_MAX THEN begfield(line, key, tab)
              ELSE IF key.skipsblanks THEN Past(line, 0, blanks) ELSE 0
      kept == SelectSeq(SubSeq(line, text + 1, lim), LAMBDA c : c \notin key.ignore)
  IN [i \in DOMAIN kept |-> IF key.translate = <<>> THEN kept[i] ELSE key.translate[kept[i]]]

memcmp(a, b) ==
  LET n == Min({Len(a), Len(b)})
      differ == {i \in 1..n : a[i] # b[i]}
  IN IF differ # {} THEN a[Min(differ)] - b[Min(differ)]
     ELSE IF Len(a) < Len(b) THEN 0 - 1 ELSE IF Len(a) # Len(b) THEN 1 ELSE 0

\* The keys one after the other, until one differs.
RECURSIVE keycompare(_, _, _, _)
keycompare(a, b, keylist, tab) ==
  IF keylist = <<>> THEN 0
  ELSE LET key == Head(keylist)
           diff == memcmp(KeyText(a, key, tab), KeyText(b, key, tab))
       IN IF diff = 0 THEN keycompare(a, b, Tail(keylist), tab)
          ELSE IF key.reverse THEN 0 - diff ELSE diff

\* o is a record of keylist, tab, unique, stable and reverse.
compare(a, b, o) ==
  LET diff == keycompare(a, b, o.keylist, o.tab)
  IN IF o.keylist # <<>> /\ (diff # 0 \/ o.unique \/ o.stable) THEN diff
     ELSE IF o.reverse THEN 0 - memcmp(a, b) ELSE memcmp(a, b)
=============================================================================
