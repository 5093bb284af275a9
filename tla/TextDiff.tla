------------------------------ MODULE TextDiff ------------------------------
(***************************************************************************)
(* The comparison of two versions of a text artifact                       *)
(* (src/artifact-text-diff.ts): a longest common subsequence, or what a    *)
(* common prefix and suffix leave of larger files; then line numbers,      *)
(* collapsed context and, of a long result, the middle left out.           *)
(***************************************************************************)
EXTENDS Naturals, Sequences, FiniteSets

Seqs == INSTANCE SequencesExt

CONSTANTS TextLines,        \* the different lines there are
          MaxDiffLines, MaxCells, ContextLines, MaxRendered   \* the limits of the code

ASSUME DiffAssumption ==
    /\ {MaxDiffLines, MaxCells, ContextLines, MaxRendered} \subseteq Nat \ {0}
    /\ MaxRendered > 2

VARIABLES before, after, diff

diffVars == <<before, after, diff>>

NoDiff == [kind |-> "none"]

\* A text has at least one line; files beyond the limit are compared too.
Texts == UNION {[1 .. n -> TextLines] : n \in 1 .. MaxDiffLines + 1}

DiffInit == before \in Texts /\ after \in Texts /\ diff = NoDiff
---------------------------------------------------------------------------
Equal(l) == [kind |-> "equal", text |-> l]
Added(l) == [kind |-> "added", text |-> l]
Removed(l) == [kind |-> "removed", text |-> l]
Each(Op(_), s) == [i \in DOMAIN s |-> Op(s[i])]

Cells(b, a) == (0 .. Len(b)) \X (0 .. Len(a))

\* The matrix of lcsOperations: of every two prefixes.
Matrix(b, a) ==
    LET matrix[c \in Cells(b, a)] ==
            LET i == c[1]
                j == c[2]
            IN  IF i = 0 \/ j = 0 THEN 0
                ELSE IF b[i] = a[j] THEN matrix[<<i - 1, j - 1>>] + 1
                ELSE IF matrix[<<i - 1, j>>] > matrix[<<i, j - 1>>] THEN matrix[<<i - 1, j>>]
                ELSE matrix[<<i, j - 1>>]
    IN  matrix

LcsOperations(b, a) ==
    LET matrix == Matrix(b, a)
        walk[c \in Cells(b, a)] ==
            LET i == c[1]
                j == c[2]
            IN  IF i = 0 /\ j = 0 THEN <<>>
                ELSE IF i > 0 /\ j > 0 /\ b[i] = a[j] THEN Append(walk[<<i - 1, j - 1>>], Equal(b[i]))
                ELSE IF j > 0 /\ (i = 0 \/ matrix[<<i, j - 1>>] >= matrix[<<i - 1, j>>])
                THEN Append(walk[<<i, j - 1>>], Added(a[j]))
                ELSE Append(walk[<<i - 1, j>>], Removed(b[i]))
    IN  walk[<<Len(b), Len(a)>>]

CommonPrefix(b, a) ==
    CHOOSE n \in 0 .. Len(b) : n <= Len(a) /\ (n = Len(b) \/ n = Len(a) \/ b[n + 1] # a[n + 1])
        /\ \A k \in 1 .. n : b[k] = a[k]

\* MUTANT: the suffix may reach into the prefix of the shorter text.
SuffixOverlapping(b, a, prefix) == CommonPrefix(Seqs!Reverse(b), Seqs!Reverse(a))

CommonSuffix(b, a, prefix) ==
    LET rest == SubSeq(b, prefix + 1, Len(b)) IN
    CommonPrefix(Seqs!Reverse(rest), Seqs!Reverse(SubSeq(a, prefix + 1, Len(a))))

FallbackOperations(b, a) ==
    LET p == CommonPrefix(b, a)
        s == CommonSuffix(b, a, p)
    IN  Each(Equal, SubSeq(b, 1, p)) \o Each(Removed, SubSeq(b, p + 1, Len(b) - s))
        \o Each(Added, SubSeq(a, p + 1, Len(a) - s)) \o Each(Equal, SubSeq(b, Len(b) - s + 1, Len(b)))

Count(rows, kinds) == Cardinality({k \in DOMAIN rows : rows[k].kind \in kinds})

\* An operation with the lines it is at, 0 on the side it is not on.
Numbered(ops) ==
    [k \in DOMAIN ops |->
        LET upTo == SubSeq(ops, 1, k)
            line(kind) == IF ops[k].kind \in {"equal", kind} THEN Count(upTo, {"equal", kind}) ELSE 0
        IN  [kind |-> ops[k].kind, text |-> ops[k].text,
             beforeLine |-> line("removed"), afterLine |-> line("added"), skipped |-> 0]]

Skip(n) == [kind |-> "context", text |-> "", beforeLine |-> 0, afterLine |-> 0, skipped |-> n]

\* Where the group of equal rows that k is in begins and ends.
GroupStart(rows, k) ==
    CHOOSE i \in 1 .. k : (\A m \in i .. k : rows[m].kind = "equal") /\ (i = 1 \/ rows[i - 1].kind # "equal")
GroupEnd(rows, k) ==
    CHOOSE j \in k .. Len(rows) :
        (\A m \in k .. j : rows[m].kind = "equal") /\ (j = Len(rows) \/ rows[j + 1].kind # "equal")

\* Of a long group of equal rows the first and last ones stay.
Collapsed(rows) ==
    Seqs!FlattenSeq([k \in DOMAIN rows |->
        IF rows[k].kind # "equal" THEN <<rows[k]>>
        ELSE LET first == GroupStart(rows, k)
                 last == GroupEnd(rows, k)
                 size == last - first + 1
             IN  IF size <= 2 * ContextLines \/ k < first + ContextLines \/ k > last - ContextLines
                 THEN <<rows[k]>>
                 ELSE IF k = first + ContextLines THEN <<Skip(size - 2 * ContextLines)>> ELSE <<>>])

Truncated(rows) ==
    LET head == (MaxRendered - 1) \div 2
        tail == MaxRendered - head - 1
    IN  SubSeq(rows, 1, head) \o <<Skip(Len(rows) - head - tail)>> \o SubSeq(rows, Len(rows) - tail + 1, Len(rows))

ArtifactTextDiff(b, a) ==
    LET ops == IF Len(b) * Len(a) <= MaxCells THEN LcsOperations(b, a) ELSE FallbackOperations(b, a)
        rows == IF Count(ops, {"added", "removed"}) = 0 THEN <<>> ELSE Collapsed(Numbered(ops))
    IN  [kind |-> "diff", addedLines |-> Count(ops, {"added"}), removedLines |-> Count(ops, {"removed"}),
         unchangedLines |-> Count(ops, {"equal"}), truncated |-> Len(rows) > MaxRendered,
         lines |-> IF Len(rows) > MaxRendered THEN Truncated(rows) ELSE rows]

Compared ==
    /\ diff = NoDiff
    /\ diff' = IF Len(before) > MaxDiffLines \/ Len(after) > MaxDiffLines THEN [kind |-> "refused"]
               ELSE ArtifactTextDiff(before, after)
    /\ UNCHANGED <<before, after>>

DiffSpec == DiffInit /\ [][Compared]_diffVars
---------------------------------------------------------------------------
\* Where rows of the comparison stand in the texts: as many lines before as
\* the rows there show or skip.
Span(rows, kinds) ==
    LET f[k \in 0 .. Len(rows)] ==
            IF k = 0 THEN 0
            ELSE f[k - 1] + (IF rows[k].kind = "context" THEN rows[k].skipped
                             ELSE IF rows[k].kind \in kinds THEN 1 ELSE 0)
    IN  f[Len(rows)]

\* The longest common subsequences, by their definition.
CommonLength(b, a) ==
    LET common == {s \in SUBSET DOMAIN b :
            \E f \in [s -> DOMAIN a] : \A i, j \in s : b[i] = a[f[i]] /\ (i < j => f[i] < f[j])}
    IN  CHOOSE n \in 0 .. Len(b) : (\E s \in common : Cardinality(s) = n)
            /\ \A s \in common : Cardinality(s) <= n

\* The comparison tells the truth about both texts: its counts make up each of
\* them, every row shows the line of that number, a row that says so is in both
\* texts, what is skipped is unchanged, line by line, up to the next row; nothing is shown
\* of equal texts, and small ones are compared with as few changes as can be.
DiffIsFaithful ==
    diff.kind = "diff" =>
        LET rows == diff.lines IN
        /\ diff.unchangedLines + diff.removedLines = Len(before)
        /\ diff.unchangedLines + diff.addedLines = Len(after)
        /\ (rows = <<>>) = (before = after)
        /\ Len(rows) <= MaxRendered
        /\ \A k \in DOMAIN rows :
             /\ rows[k].kind \in {"equal", "removed"} => before[rows[k].beforeLine] = rows[k].text
             /\ rows[k].kind \in {"equal", "added"} => after[rows[k].afterLine] = rows[k].text
        /\ rows # <<>> /\ ~diff.truncated =>
             /\ Span(rows, {"equal", "removed"}) = Len(before)
             /\ Span(rows, {"equal", "added"}) = Len(after)
             /\ \A k \in DOMAIN rows :
                  LET b == Span(SubSeq(rows, 1, k), {"equal", "removed"})
                      a == Span(SubSeq(rows, 1, k), {"equal", "added"})
                  IN  /\ rows[k].kind \in {"equal", "removed"} => rows[k].beforeLine = b
                      /\ rows[k].kind \in {"equal", "added"} => rows[k].afterLine = a
                      /\ \A i \in 0 .. rows[k].skipped - 1 : before[b - i] = after[a - i]
        /\ Len(before) * Len(after) <= MaxCells => diff.unchangedLines = CommonLength(before, after)
=============================================================================
