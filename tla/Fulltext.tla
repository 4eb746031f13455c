------------------------------ MODULE Fulltext ------------------------------
(***************************************************************************)
(* The full-text indexes of maharit-core/src/fulltext.rs.  A text is a     *)
(* sequence of characters; Tokenize folds its case and cuts it into words. *)
(* A document is a property of a node.  An index keeps, for every token,   *)
(* the documents it occurs in and the positions there, and the length of   *)
(* each document.                                                          *)
(*                                                                         *)
(* Scores are floating-point numbers that only order the answer: a search  *)
(* is modelled as the set of nodes it returns.                             *)
(***************************************************************************)
EXTENDS Integers, Sequences, FiniteSets, SequencesExt, FiniteSetsExt

NoEntries == [x \in {} |-> x]

(* Characters are numbers: 1 to 10 are lower-case letters and 11 to 20 the *)
(* same in upper case; 0 stands for every character that is not part of a  *)
(* word.                                                                   *)
Lower(w) == [i \in DOMAIN w |-> IF w[i] \in 11 .. 20 THEN w[i] - 10 ELSE w[i]]

(* The words between separators, as <<first, last>> positions. *)
WordSpans(s) ==
    {<<i, j>> \in (1 .. Len(s)) \X (1 .. Len(s)) :
        /\ i <= j
        /\ \A k \in i .. j : s[k] # 0
        /\ i = 1 \/ s[i - 1] = 0
        /\ j = Len(s) \/ s[j + 1] = 0}
Words(s) ==
    LET ordered == SetToSortSeq(WordSpans(s), LAMBDA x, y : x[1] < y[1])
    IN [i \in DOMAIN ordered |-> SubSeq(s, ordered[i][1], ordered[i][2])]

Tokenize(s) == Words(Lower(s))

-----------------------------------------------------------------------------
(* Edit distance, row by row as levenshtein_distance fills its two vectors. *)

Least(S) == CHOOSE x \in S : \A y \in S : x <= y

EditRow(a, b, prev, i) ==
    LET curr[j \in 0 .. Len(b)] ==
          IF j = 0 THEN i
          ELSE Least({prev[j] + 1, curr[j - 1] + 1,
                      prev[j - 1] + IF a[i] = b[j] THEN 0 ELSE 1})
    IN curr

EditDistanceOf(a, b) ==
    LET row[i \in 0 .. Len(a)] ==
          IF i = 0 THEN [j \in 0 .. Len(b) |-> j] ELSE EditRow(a, b, row[i - 1], i)
    IN row[Len(a)][Len(b)]

Levenshtein(a, b) == IF Len(a) < Len(b) THEN EditDistanceOf(b, a) ELSE EditDistanceOf(a, b)

-----------------------------------------------------------------------------
(* Inverted index *)

EmptyInverted ==
    [post |-> NoEntries, len |-> NoEntries, totalDocs |-> 0, totalLength |-> 0]

Postings(ix, t) == IF t \in DOMAIN ix.post THEN ix.post[t] ELSE NoEntries
DocumentsWithToken(ix, t) == DOMAIN Postings(ix, t)

PositionsOf(tokens, t) == {i \in DOMAIN tokens : tokens[i] = t}

(* The postings of a document that is indexed again are replaced token by  *)
(* token: a token that only the old text had keeps its entry.              *)
AddDocument(ix, d, text) ==
    LET tokens == Tokenize(text)
        known == d \in DOMAIN ix.len
        old == IF known THEN ix.len[d] ELSE 0
        toks == Range(tokens)
    IN [post |-> [t \in DOMAIN ix.post \cup toks |->
                    IF t \in toks
                    THEN [x \in DocumentsWithToken(ix, t) \cup {d} |->
                            IF x = d THEN PositionsOf(tokens, t) ELSE ix.post[t][x]]
                    ELSE ix.post[t]],
        len |-> [x \in DOMAIN ix.len \cup {d} |-> IF x = d THEN Len(tokens) ELSE ix.len[x]],
        totalDocs |-> IF known THEN ix.totalDocs ELSE ix.totalDocs + 1,
        totalLength |-> (ix.totalLength - old) + Len(tokens)]

Less(n, k) == IF n > k THEN n - k ELSE 0

RemoveDocument(ix, d) ==
    LET known == d \in DOMAIN ix.len
        left == [t \in DOMAIN ix.post |-> Restrict(ix.post[t], DOMAIN ix.post[t] \ {d})]
    IN [post |-> Restrict(left, {t \in DOMAIN left : DOMAIN left[t] # {}}),
        len |-> Restrict(ix.len, DOMAIN ix.len \ {d}),
        totalDocs |-> IF known THEN Less(ix.totalDocs, 1) ELSE ix.totalDocs,
        totalLength |-> IF known THEN Less(ix.totalLength, ix.len[d]) ELSE ix.totalLength]

PhraseInDoc(ix, tokens, d) ==
    /\ tokens # <<>>
    /\ d \in DocumentsWithToken(ix, tokens[1])
    /\ \E s \in ix.post[tokens[1]][d] : \A k \in 2 .. Len(tokens) :
          /\ d \in DocumentsWithToken(ix, tokens[k])
          /\ (s + k) - 1 \in ix.post[tokens[k]][d]

FuzzyTokens(ix, term, max) == {t \in DOMAIN ix.post : Levenshtein(term, t) <= max}

-----------------------------------------------------------------------------
(* Queries.  A query is a record of its words and of its form: "words",    *)
(* "phrase" (quoted) or "fuzzy" (term~ or term~n, the text before the ~    *)
(* taken as one term).                                                     *)

NodesOfDocs(D) == {d[1] : d \in D}

DocsWithAll(ix, tokens) ==
    IF tokens = <<>> THEN {}
    ELSE {d \in DocumentsWithToken(ix, tokens[1]) :
            \A i \in DOMAIN tokens : d \in DocumentsWithToken(ix, tokens[i])}

DocsWithAny(ix, toks) == UNION {DocumentsWithToken(ix, t) : t \in toks}

SearchKeywords(ix, tokens) == NodesOfDocs(DocsWithAny(ix, Range(tokens)))

SearchPhrase(ix, tokens) ==
    NodesOfDocs({d \in DocsWithAll(ix, tokens) : PhraseInDoc(ix, tokens, d)})

SearchFuzzy(ix, term, max) == NodesOfDocs(DocsWithAny(ix, FuzzyTokens(ix, Lower(term), max)))

SearchIndex(ix, q) ==
    CASE q.form = "phrase" -> SearchPhrase(ix, Tokenize(q.text))
      [] q.form = "fuzzy" -> SearchFuzzy(ix, q.text, q.max)
      [] OTHER -> SearchKeywords(ix, Tokenize(q.text))

(* contains() asks for every word where search() asks for one. *)
ContainsQuery(ix, q) ==
    CASE q.form = "phrase" -> SearchPhrase(ix, Tokenize(q.text))
      [] q.form = "fuzzy" -> SearchFuzzy(ix, q.text, q.max)
      [] OTHER -> NodesOfDocs(DocsWithAll(ix, Tokenize(q.text)))

-----------------------------------------------------------------------------
(* The manager: a function from index names to [label, props, inv]. *)

FtCreateIndex(ft, name, label, props) ==
    [x \in DOMAIN ft \cup {name} |->
        IF x = name THEN [label |-> label, props |-> props, inv |-> EmptyInverted] ELSE ft[x]]

FtDropIndex(ft, name) == Restrict(ft, DOMAIN ft \ {name})

(* Adds the documents of one node to one index: texts maps the indexed     *)
(* properties that hold a string to their text.                            *)
AddNodeDocuments(inv, n, props, texts) ==
    FoldSet(LAMBDA p, acc : AddDocument(acc, <<n, p>>, texts[p]), inv,
            props \cap DOMAIN texts)

FtIndexNode(ft, n, label, texts) ==
    [x \in DOMAIN ft |->
        IF ft[x].label = label
        THEN [ft[x] EXCEPT !.inv = AddNodeDocuments(@, n, ft[x].props, texts)]
        ELSE ft[x]]

=============================================================================
