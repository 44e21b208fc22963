----------------------------- MODULE VersionLock -----------------------------
(***************************************************************************)
(* The readers of versions.lock.yaml: validate-version-lock.awk, which     *)
(* reads it line by line and refuses what is not two-space mappings and    *)
(* scalar lists, and the lookups of verify-m0.sh and doctor.sh, which look *)
(* for a path without building a tree.  A line is what these programs can  *)
(* tell apart; a value is named by the number of its line, and is text:    *)
(* that a reader takes true or 1e3 for something else is left out.         *)
(***************************************************************************)
EXTENDS Integers, Sequences

CONSTANTS
    Keys,       \* keys that occur
    MaxSpaces,  \* bound on the indentation of a line
    MaxLines    \* bound on the length of a lock; blank lines, which all skip, do not count

\* A key begins with a letter (line 62 of the validator), a list item with a hyphen.
ASSUME KeysAreNames == "-" \notin Keys
ASSUME BoundsAreNumbers == MaxSpaces \in Nat /\ MaxLines \in Nat

\* "key" is `key:` or `key: value`: one plain word, the text of quoted or several words, or the
\* "empty" text `""`, which scalar lets pass (line 12).  "item" is `- value`, and "url" one
\* with a colon in its value.  "other" is any line that is refused whatever its context: tabs,
\* padding, comments, flow forms, bad keys and bad scalars.
Line == [spaces : 0..MaxSpaces, form : {"key", "item", "url", "other"}, key : Keys \cup {"-"},
         tail : {"none", "word", "text", "empty"}]
Lines == {l \in Line :
    \/ l.form = "key" /\ l.key # "-"
    \/ l.form \in {"item", "url"} /\ l.key = "-" /\ l.tail = "text"
    \/ l.form = "other" /\ l.key = "-" /\ l.tail = "none" /\ l.spaces = 0}

VARIABLES
    lock,           \* the lines read so far
    previous_depth, \* of the line before, or -1
    container,      \* "map" or "list" for every open depth, from 0
    path,           \* the open keys, from depth 0
    seen,           \* full paths of keys
    awaiting,       \* TRUE after a key without a value
    verdict         \* "reading", "accepted" or "refused"

vars == <<lock, previous_depth, container, path, seen, awaiting, verdict>>

Init ==
    /\ lock = <<>> /\ previous_depth = -1 /\ container = <<"map">> /\ path = <<>>
    /\ seen = {} /\ awaiting = FALSE /\ verdict = "reading"

Depth(l) == l.spaces \div 2
Kind(l)  == IF l.form = "key" THEN "map" ELSE "list"

\* The root begins at column one; a child is one level deeper, and only below a key that
\* has no value; and such a key has one.
Indents(l) ==
    \/ previous_depth < 0 /\ Depth(l) = 0
    \/ previous_depth >= 0 /\ Depth(l) = previous_depth + 1 /\ awaiting
    \/ Depth(l) <= previous_depth /\ ~awaiting

\* Mutant: a dedent leaves what is deeper open.
ContainersKept(l) == IF Depth(l) = Len(container) THEN Append(container, Kind(l)) ELSE container

\* Opening a child appends its kind; a dedent closes what is deeper.
Containers(l) ==
    IF Depth(l) = Len(container) THEN Append(container, Kind(l))
                                 ELSE SubSeq(container, 1, Depth(l) + 1)

FullPath(l) == Append(SubSeq(path, 1, Depth(l)), l.key)

\* Mutant: nobody looks for a path that was there before.
FitsAgain(l) ==
    /\ l.form # "other" /\ l.spaces % 2 = 0 /\ Indents(l)
    /\ Containers(l)[Depth(l) + 1] = Kind(l)

Fits(l) ==
    /\ l.form # "other" /\ l.spaces % 2 = 0 /\ Indents(l)
    /\ Containers(l)[Depth(l) + 1] = Kind(l)
    /\ l.form = "key" => FullPath(l) \notin seen

\* One line: the first test that fails ends the reading.
Read(l) ==
    /\ verdict = "reading" /\ Len(lock) < MaxLines
    /\ lock' = Append(lock, l)
    /\ IF Fits(l)
       THEN /\ previous_depth' = Depth(l) /\ container' = Containers(l)
            /\ IF l.form = "key"
               THEN path' = FullPath(l) /\ seen' = seen \cup {FullPath(l)} /\ awaiting' = (l.tail = "none")
               ELSE awaiting' = FALSE /\ path' = SubSeq(path, 1, Depth(l)) /\ UNCHANGED seen
            /\ UNCHANGED verdict
       ELSE verdict' = "refused" /\ UNCHANGED <<previous_depth, container, path, seen, awaiting>>

\* Mutant: a lock may end with a key that has neither value nor child.
EndAwaiting ==
    /\ verdict = "reading"
    /\ verdict' = IF lock # <<>> THEN "accepted" ELSE "refused"
    /\ UNCHANGED <<lock, previous_depth, container, path, seen, awaiting>>

End ==
    /\ verdict = "reading"
    /\ verdict' = IF lock # <<>> /\ ~awaiting THEN "accepted" ELSE "refused"
    /\ UNCHANGED <<lock, previous_depth, container, path, seen, awaiting>>

Next == End \/ \E l \in Lines : Read(l)

Spec == Init /\ [][Next]_vars

-----------------------------------------------------------------------------
(* The lookups, of a lock s.                                               *)
Numbers(s) == 1..Len(s)
First(S)   == IF S = {} THEN 0 ELSE CHOOSE n \in S : \A m \in S : n <= m

\* lock_get: the path so far, w, after line l.  What has a colon sets its depth and clears
\* what is deeper, an item too; what has none is passed over.
Cleared == [d \in 1..MaxSpaces \div 2 + 1 |-> "."]
Track(w, l) ==
    IF l.form = "item" THEN w
    ELSE [d \in DOMAIN Cleared |-> IF d <= Depth(l) THEN w[d] ELSE IF d = Depth(l) + 1 THEN l.key ELSE "."]
PathsAfter(s) ==
    LET after[k \in 0..Len(s)] == IF k = 0 THEN Cleared ELSE Track(after[k - 1], s[k])
    IN  after
GetPath(s, n) == SubSeq(PathsAfter(s)[n], 1, Depth(s[n]) + 1)

\* The first line with that path, unless nothing is left of its value: locked refuses those.
Locked(s, wanted) ==
    LET n == First({k \in Numbers(s) : s[k].form # "item" /\ GetPath(s, k) = wanted}) IN
    IF n # 0 /\ s[n].tail \notin {"none", "empty"} THEN n ELSE 0

\* Mutant: the end of the section is not noticed.
DoctorEndless(s, indent, section, field) ==
    LET start == First({n \in Numbers(s) : s[n].spaces = indent /\ s[n].key = section})
    IN  First({n \in Numbers(s) : start # 0 /\ n > start /\ s[n].key = field})

\* locked_tools_field and locked_container_platform of doctor.sh: behind the line of the
\* section, at its indentation, the first line that begins with the field, at whatever
\* depth, unless another line at the section's indentation comes first.
DoctorLine(s, indent, section, field) ==
    LET opens == {n \in Numbers(s) : s[n].spaces = indent /\ s[n].key = section /\ s[n].tail = "none"}
        start == First(opens)
        ends  == {n \in Numbers(s) \ opens : n > start /\ s[n].spaces = indent}
        hit   == First({n \in Numbers(s) \ opens : n > start /\ (s[n].key = field \/ n \in ends)})
    IN  IF start = 0 \/ hit \in ends THEN 0 ELSE hit

\* What is printed of that line is its second word: the value n if it is one plain word, and
\* else -n, the first word of the value with the quotes that it has.
Doctor(s, indent, section, field) ==
    LET n == DoctorLine(s, indent, section, field) IN
    IF n = 0 \/ s[n].tail = "none" THEN 0 ELSE IF s[n].tail = "word" THEN n ELSE -n

-----------------------------------------------------------------------------
(* What a general YAML reader makes of the lines of s.                     *)

\* Every line belongs to the nearest one above it that is indented less.
Parent(s, n) ==
    LET above == {m \in 1..n - 1 : s[m].spaces < s[n].spaces} IN
    IF above = {} THEN 0 ELSE CHOOSE m \in above : \A k \in above : k <= m
Children(s, n) == {m \in Numbers(s) : Parent(s, m) = n}

\* The keys on the way from the root to each line.
KeysTo(s) ==
    LET to[k \in 0..Len(s)] == IF k = 0 THEN <<>> ELSE Append(to[Parent(s, k)], s[k].key)
    IN  to

Yaml(s, wanted) == {n \in Numbers(s) : s[n].form = "key" /\ s[n].tail # "none" /\ KeysTo(s)[n] = wanted}

\* "two-space mappings and scalar lists" as a tree: one kind below one parent, two spaces
\* deeper, no key twice, and children below the keys without a value and nowhere else.
Siblings(s, k, m) ==
    Kind(s[k]) = Kind(s[m]) /\ (k # m /\ s[k].form = "key" => s[k].key # s[m].key)
Supported(s) ==
    /\ s # <<>> /\ \A n \in Numbers(s) : s[n].form # "other"
    /\ \A n \in Children(s, 0) : s[n].spaces = 0 /\ s[n].form = "key"
    /\ \A n \in Numbers(s) :
          /\ \A m \in Children(s, n) : s[m].spaces = s[n].spaces + 2
          /\ (Children(s, n) # {}) = (s[n].form = "key" /\ s[n].tail = "none")
    /\ \A n \in {0} \cup Numbers(s) : \A k, m \in Children(s, n) : Siblings(s, k, m)

-----------------------------------------------------------------------------
Paths == UNION {[1..d -> Keys] : d \in DOMAIN Cleared}

TypeOK ==
    /\ lock \in Seq(Lines) /\ Len(lock) <= MaxLines
    /\ previous_depth \in -1..MaxSpaces \div 2 /\ container \in Seq({"map", "list"})
    /\ Len(container) = IF previous_depth < 0 THEN 1 ELSE previous_depth + 1
    /\ path \in Seq(Keys) /\ seen \subseteq Paths
    /\ awaiting \in BOOLEAN /\ verdict \in {"reading", "accepted", "refused"}

\* The validator, which keeps a stack and a set of paths, accepts exactly the locks that
\* are such a tree, and refuses the others at the line that spoils them.
AcceptsTheSubset == verdict # "reading" => (verdict = "accepted" <=> Supported(lock))

\* "so verify-m0's path lookup cannot disagree with a general YAML reader" (line 2): of an
\* accepted lock, every path, those that are not there too, has one value in both.  The one
\* exception is an empty text: YAML finds it, and verify-m0.sh stops with "empty lock field".
LookupAgrees == verdict = "accepted" => \A wanted \in Paths :
    {n \in Yaml(lock, wanted) : lock[n].tail # "empty"} = {Locked(lock, wanted)} \ {0}

\* doctor.sh looks up three fields in another way.  It finds the line that verify-m0.sh finds
\* when the section's name occurs once at its indentation and the field is not also the name
\* of something nested before it; of that line it reads the same value when that is one plain
\* word, and only a piece of it otherwise; and what it finds of a root section lies in that
\* section.  (Of supplyTools it would go on to a later root key: it looks for an end at two
\* spaces.)
Alone(s, n) == \A m \in Numbers(s) \ {n} : s[m].spaces = s[n].spaces => s[m].key # s[n].key
DoctorAgrees == verdict = "accepted" =>
    \A n \in Numbers(lock), field \in Keys :
        LET r == Doctor(lock, lock[n].spaces, lock[n].key, field)
            v == Locked(lock, KeysTo(lock)[n] \o <<field>>)
        IN  lock[n].form = "key" =>
            /\ v # 0 /\ Alone(lock, n) /\ (\A m \in n + 1..v - 1 : lock[m].key # field) =>
                  r = IF lock[v].tail = "word" THEN v ELSE -v
            /\ lock[n].spaces = 0 /\ r # 0 =>
                  KeysTo(lock)[IF r < 0 THEN -r ELSE r][1] = lock[n].key

=============================================================================
