------------------------------- MODULE ZethaIndex -------------------------------
(***************************************************************************)
(* ZethaINDEX.hpp: the inverted index that build_index makes of documents,  *)
(* the file it is saved in and loaded from, and what queries find in it.    *)
(* Words and texts are sequences of characters; document ids and positions  *)
(* count from 1. What the loops of the code pick from a sequence is said by *)
(* the places that are picked, in ascending order.                          *)
(***************************************************************************)
EXTENDS Integers, SequencesExt, Functions

CONSTANTS
  Options,     \* what build_index is called with: records
               \*   files    sequence of [path, name, extension, adapter, text]
               \*   filter   sequence of rules, see Meets
               \*   stemming, stopwords   "none" or another word
  LowerOf,     \* characters of tokens -> the same in lower case
  CharOrder,   \* those, in the order of their codes
  Endings,     \* what stem drops, in the order it tries
  Stopwords,   \* smart_stopwords()
  StringOrder, \* the metadata strings, in ascending order
  NumberOf     \* those that are numbers -> their value

\* An order names each of its elements once; a lower-case character is one of a
\* token, and its own lower case.
ASSUME IndexAssumption ==
  /\ CharOrder \in Seq(Range(CharOrder)) /\ IsInjective(CharOrder)
  /\ StringOrder \in Seq(Range(StringOrder)) /\ IsInjective(StringOrder)
  /\ {"path", "name", "extension"} \subseteq Range(StringOrder)
  /\ \A c \in DOMAIN LowerOf : /\ LowerOf[c] \in DOMAIN LowerOf \cap Range(CharOrder)
                              /\ LowerOf[LowerOf[c]] = LowerOf[c]
  /\ Endings \in Seq(Seq(Range(CharOrder)))
  /\ \A options \in Options :
       /\ options.files \in Seq(Range(options.files))
       /\ \A file \in Range(options.files) : /\ {file.path, file.name, file.extension} \subseteq Range(StringOrder)
                                            /\ file.text \in Seq(Range(file.text))

VARIABLES
  built,   \* {} or {the options of the last build_index}
  index,   \* {} or {[documents, terms]}
  zidx     \* {} or {the file}

indexVars == <<built, index, zidx>>

IndexInit == built = {} /\ index = {} /\ zidx = {}

-----------------------------------------------------------------------------
(* Sequences.                                                              *)

\* The elements of a set in the order R, as a std::map or std::sort has them.
Ascending(S, R) ==
  [i \in 1..Cardinality(S) |-> CHOOSE x \in S : Cardinality({y \in S : <<y, x>> \in R}) = i - 1]

InOrder(S) == Ascending(S, {p \in S \X S : p[1] < p[2]})

\* What a sequence has of a set, where it has it.
Kept(seq, S) == LET places == InOrder({i \in DOMAIN seq : seq[i] \in S})
                IN  [n \in DOMAIN places |-> seq[places[n]]]

Rank(char) == SelectInSeq(CharOrder, LAMBDA c : c = char)

\* Lexicographic, as std::sort has it.
Before(v, w) ==
  LET n == Len(LongestCommonPrefix({v, w}))
  IN  n < Len(w) /\ (n < Len(v) => Rank(v[n + 1]) < Rank(w[n + 1]))

-----------------------------------------------------------------------------
(* Words.                                                                  *)

\* The runs of characters of tokens, in lower case.
Tokenize(text) ==
  LET Token(i) == i \in DOMAIN text /\ text[i] \in DOMAIN LowerOf
      End(i)   == Max({j \in i..Len(text) : \A k \in i..j : Token(k)})
      starts   == InOrder({i \in DOMAIN text : Token(i) /\ ~Token(i - 1)})
      Word(i)  == [k \in 1..(End(i) - i + 1) |-> LowerOf[text[i + k - 1]]]
  IN  [n \in DOMAIN starts |-> Word(starts[n])]

\* The first suffix that leaves more than two characters.
Stem(token, mode) ==
  LET Drops(suffix) == Len(token) > Len(suffix) + 2 /\ IsSuffix(suffix, token)
      i == SelectInSeq(Endings, Drops)
  IN  IF mode = "none" \/ i = 0 THEN token ELSE SubSeq(token, 1, Len(token) - Len(Endings[i]))

Stops(word, mode) == mode # "none" /\ word \in Stopwords

WordsOf(tokens, options) ==
  LET stems == [i \in DOMAIN tokens |-> Stem(tokens[i], options.stemming)]
  IN  Kept(stems, {w \in Range(stems) : ~Stops(w, options.stopwords)})

-----------------------------------------------------------------------------
(* Documents and the filter.                                               *)

\* HtmlTextAdapter: what ends a tag becomes a blank, and nothing else of it is left.
Untagged(html) ==
  LET InTag(i) == \E j \in 1..(i - 1) : html[j] = "<" /\ \A k \in j..(i - 1) : html[k] # ">"
      places   == InOrder({i \in DOMAIN html : html[i] = ">" \/ (html[i] # "<" /\ ~InTag(i))})
  IN  [n \in DOMAIN places |-> IF html[places[n]] = ">" THEN " " ELSE html[places[n]]]

ExtractText(file) == IF file.adapter = "html" THEN Untagged(file.text) ELSE file.text

Metadata(file) == [path |-> file.path, name |-> file.name, extension |-> file.extension]

OrderOf(string) == SelectInSeq(StringOrder, LAMBDA s : s = string)

\* Two numbers compare as numbers, anything else as strings.
ComparesAs(v, op, w) ==
  LET Key(s) == IF v \in DOMAIN NumberOf /\ w \in DOMAIN NumberOf THEN NumberOf[s] ELSE OrderOf(s)
  IN  CASE op = "==" -> Key(v) = Key(w)
        [] op = "!=" -> Key(v) # Key(w)
        [] op = "<"  -> Key(v) < Key(w)
        [] op = "<=" -> Key(v) <= Key(w)
        [] op = ">"  -> Key(v) > Key(w)
        [] op = ">=" -> Key(v) >= Key(w)

LowerCase(word) == [i \in DOMAIN word |-> LowerOf[word[i]]]

Meets(rule, metadata, text, words) ==
  CASE rule.kind = "token"    -> Contains(words, LowerCase(rule.value))
    [] rule.kind = "has_any"  -> \E v \in rule.values : Contains(words, LowerCase(v))
    [] rule.kind = "metadata" -> /\ rule.key \in DOMAIN metadata
                                 /\ ComparesAs(metadata[rule.key], rule.op, rule.value)
    [] rule.kind = "regex"    -> rule.value \in SubSeqs(text)

DocumentOf(file, options) ==
  [path     |-> file.path,
   adapter  |-> file.adapter,
   metadata |-> Metadata(file),
   tokens   |-> WordsOf(Tokenize(ExtractText(file)), options)]

\* filter_matches, on the words that are left after stemming.
Accepted(file, options) ==
  LET document == DocumentOf(file, options)
  IN  \A rule \in Range(options.filter) :
        rule.require = Meets(rule, document.metadata, ExtractText(file), document.tokens)

Documents(options) ==
  LET files == Kept(options.files, {f \in Range(options.files) : Accepted(f, options)})
  IN  [i \in DOMAIN files |-> DocumentOf(files[i], options)]

-----------------------------------------------------------------------------
(* The index and its file.                                                 *)

PositionsOf(word, words) == InOrder({p \in DOMAIN words : words[p] = word})

\* MUTANT: a position is counted per word instead of per document.
PostingsByCount(word, documents) ==
  LET docs == InOrder({d \in DOMAIN documents : Contains(documents[d].tokens, word)})
  IN  [i \in DOMAIN docs |->
        [doc |-> docs[i],
         positions |-> [n \in DOMAIN PositionsOf(word, documents[docs[i]].tokens) |-> n]]]

Postings(word, documents) ==
  LET docs == InOrder({d \in DOMAIN documents : Contains(documents[d].tokens, word)})
  IN  [i \in DOMAIN docs |->
        [doc |-> docs[i], positions |-> PositionsOf(word, documents[docs[i]].tokens)]]

Terms(documents) ==
  LET words == UNION {Range(documents[d].tokens) : d \in DOMAIN documents}
      terms == Ascending(words, {p \in words \X words : Before(p[1], p[2])})
  IN  [i \in DOMAIN terms |-> [term |-> terms[i], postings |-> Postings(terms[i], documents)]]

BuildIndex(options) ==
  LET documents == Documents(options)
  IN  /\ built' = {options}
      /\ index' = {[documents |-> documents, terms |-> Terms(documents)]}
      /\ UNCHANGED zidx

\* A std::map is written in the order of its keys.
Pairs(metadata) ==
  LET names == DOMAIN metadata
      keys  == Ascending(names, {p \in names \X names : OrderOf(p[1]) < OrderOf(p[2])})
  IN  [i \in DOMAIN keys |-> <<keys[i], metadata[keys[i]]>>]

\* Each term leaves out what it shares with the one before it; the words of
\* the documents are not written.
WrittenIndex(idx) ==
  [documents |-> [i \in DOMAIN idx.documents |->
      [path     |-> idx.documents[i].path,
       adapter  |-> idx.documents[i].adapter,
       metadata |-> Pairs(idx.documents[i].metadata)]],
   terms |-> [i \in DOMAIN idx.terms |->
      LET term   == idx.terms[i].term
          shared == IF i = 1 THEN 0 ELSE Len(LongestCommonPrefix({idx.terms[i - 1].term, term}))
      IN  [prefix   |-> shared,
           suffix   |-> SubSeq(term, shared + 1, Len(term)),
           postings |-> idx.terms[i].postings]]]

SaveIndex == \E idx \in index : zidx' = {WrittenIndex(idx)} /\ UNCHANGED <<built, index>>

\* metadata[read_string(in)] = read_string(in): the right side is read first,
\* so the key that was written becomes the value, and the last one wins.
ReadPairs(pairs) ==
  [v \in {pairs[i][2] : i \in DOMAIN pairs} |-> pairs[Max({i \in DOMAIN pairs : pairs[i][2] = v})][1]]

ReadTerms(entries) ==
  LET read[n \in 0..Len(entries)] ==
        IF n = 0 THEN <<>>
        ELSE LET previous == IF n = 1 THEN <<>> ELSE read[n - 1][n - 1].term
             IN  Append(read[n - 1],
                        [term     |-> SubSeq(previous, 1, entries[n].prefix) \o entries[n].suffix,
                         postings |-> entries[n].postings])
  IN  read[Len(entries)]

ReadBack(f) ==
  [documents |-> [i \in DOMAIN f.documents |->
      [path     |-> f.documents[i].path,
       adapter  |-> f.documents[i].adapter,
       metadata |-> ReadPairs(f.documents[i].metadata),
       tokens   |-> <<>>]],
   terms |-> ReadTerms(f.terms)]

\* Every command but build begins with it.
LoadIndex == \E f \in zidx : index' = {ReadBack(f)} /\ built' = {} /\ UNCHANGED zidx

IndexNext == \/ \E options \in Options : BuildIndex(options)
             \/ SaveIndex
             \/ LoadIndex

IndexSpec == IndexInit /\ [][IndexNext]_indexVars

-----------------------------------------------------------------------------
(* Queries.                                                                *)

DocsOf(entry) == [i \in DOMAIN entry.postings |-> entry.postings[i].doc]

\* MUTANT: the first row counts from 1.
DistanceFromOne(v, w) ==
  LET d[p \in (0..Len(v)) \X (0..Len(w))] ==
        LET i == p[1]
            j == p[2]
        IN  CASE i = 0 -> j + 1
              [] i # 0 /\ j = 0 -> i
              [] OTHER -> Min({d[<<i - 1, j>>] + 1, d[<<i, j - 1>>] + 1,
                               d[<<i - 1, j - 1>>] + (IF v[i] = w[j] THEN 0 ELSE 1)})
  IN  d[<<Len(v), Len(w)>>]

EditDistance(v, w) ==
  LET d[p \in (0..Len(v)) \X (0..Len(w))] ==
        LET i == p[1]
            j == p[2]
        IN  CASE i = 0 -> j
              [] j = 0 -> i
              [] OTHER -> Min({d[<<i - 1, j>>] + 1, d[<<i, j - 1>>] + 1,
                               d[<<i - 1, j - 1>>] + (IF v[i] = w[j] THEN 0 ELSE 1)})
  IN  d[<<Len(v), Len(w)>>]

\* The documents of the word itself or else, one after the other, those of all
\* the terms near it: a document may be listed twice.
Hits(idx, word, fuzzy_distance) ==
  LET exact == {t \in Range(idx.terms) : t.term = word}
      near  == {t \in Range(idx.terms) : /\ Len(t.term) - Len(word) \in -fuzzy_distance..fuzzy_distance
                                         /\ EditDistance(word, t.term) <= fuzzy_distance}
      hits  == Kept(idx.terms, IF exact # {} THEN exact ELSE near)
  IN  FlattenSeq([i \in DOMAIN hits |-> DocsOf(hits[i])])

\* all_terms, prefix_search
AllTerms(idx) == [i \in DOMAIN idx.terms |-> idx.terms[i].term]
PrefixSearch(idx, prefix) == Kept(AllTerms(idx), {term \in Range(AllTerms(idx)) : IsPrefix(prefix, term)})

\* query: its words are neither stemmed nor looked up among the stopwords.
QueryIndex(idx, text, fuzzy_distance) ==
  LET words == Tokenize(text)
      all   == [i \in DOMAIN words |-> [term |-> words[i], docs |-> Hits(idx, words[i], fuzzy_distance)]]
  IN  Kept(all, {hit \in Range(all) : hit.docs # <<>>})

-----------------------------------------------------------------------------
\* The postings of a term are its places in the documents, each in the one
\* posting of its document, and the terms are the words of the documents; the terms
\* ascend, so that those with a common prefix stand together.
GivesTheWords(idx) ==
  /\ \A t \in Range(idx.terms), d \in DOMAIN idx.documents :
       LET tokens == idx.documents[d].tokens
           at     == {p \in DOMAIN tokens : tokens[p] = t.term}
           mine   == {i \in DOMAIN t.postings : t.postings[i].doc = d}
       IN  /\ mine = {} <=> at = {}
           /\ \A i \in mine : mine = {i} /\ Range(t.postings[i].positions) = at
  /\ \A i \in 2..Len(idx.terms) : Before(idx.terms[i - 1].term, idx.terms[i].term)
  /\ Range(AllTerms(idx)) = UNION {Range(idx.documents[d].tokens) : d \in DOMAIN idx.documents}
  /\ \A i \in DOMAIN idx.terms : \A n \in 0..Len(idx.terms[i].term) :
       LET found == PrefixSearch(idx, SubSeq(idx.terms[i].term, 1, n))
       IN  \E j, k \in DOMAIN idx.terms : i \in j..k /\ found = SubSeq(AllTerms(idx), j, k)

\* What is loaded is what was saved, but for the words of the documents, and
\* for the metadata, whose keys and values change places (591); of keys that
\* had the same value the last is left.
ComesBack(idx) ==
  LET back == ReadBack(WrittenIndex(idx))
  IN  /\ back.terms = idx.terms
      /\ \A d \in DOMAIN idx.documents :
           LET was == idx.documents[d].metadata
               is  == back.documents[d].metadata
           IN  /\ DOMAIN is = Range(was)
               /\ \A k \in DOMAIN was :
                    \/ is[was[k]] = k
                    \/ was[is[was[k]]] = was[k] /\ OrderOf(k) < OrderOf(is[was[k]])

\* An index that was built has all the words of its documents and nothing
\* else; every index, built or loaded, comes back when it is saved.
IndexKeepsTheWords == \A idx \in index :
  /\ built # {} => GivesTheWords(idx)
  /\ ComesBack(idx)

\* One character left out, put in or exchanged, or none.
OneEdit(v, w) ==
  \/ v = w
  \/ \E i \in DOMAIN v : RemoveAt(v, i) = w
  \/ \E i \in DOMAIN w : RemoveAt(w, i) = v
  \/ Len(v) = Len(w) /\ \E i \in DOMAIN v : \A j \in DOMAIN v : j # i => v[j] = w[j]

\* A word of a document that the stemmer leaves alone and that is no stopword
\* leads to that document (645: one that it changes may lead nowhere), and a
\* query leads only to documents that have the word or, when no document has
\* it, a word one edit away.
QueryFindsTheWords == \A options \in built, idx \in index :
  \A f \in Range(options.files) :
    \A word \in Range(Tokenize(ExtractText(f))) :
      LET hits == QueryIndex(idx, word, 1)
          docs == UNION {Range(hits[i].docs) : i \in DOMAIN hits}
          have == {d \in DOMAIN idx.documents : Contains(idx.documents[d].tokens, word)}
          near == {d \in DOMAIN idx.documents : \E w \in Range(idx.documents[d].tokens) : OneEdit(word, w)}
      IN  /\ docs = IF have # {} THEN have ELSE near
          /\ (Accepted(f, options) /\ Contains(Tokenize(ExtractText(f)), word)
                /\ Stem(word, options.stemming) = word /\ ~Stops(word, options.stopwords))
               => \E d \in docs : idx.documents[d].path = f.path
=============================================================================
