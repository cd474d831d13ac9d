------------------------------ MODULE Strings ------------------------------
(* The dynamic strings (ESTR) of a thread: the cache they are taken from, with  *)
(* a bit for each that is in use, the ones made when the cache is empty, and   *)
(* the operations that write into them and let them grow. Of a text only its   *)
(* length is kept.                                                             *)
EXTENDS Integers, Sequences, FiniteSetsExt

CONSTANTS StatusWords, Bits,   \* ESTR_STATUS_ELEM_COUNT, and the 32 bits of a word
          Default,             \* DEFAULT_ESTR_SIZE and DEFAULT_ESTR
          MaxExtra, MaxText, MaxLen    \* bounds

Cached == 0..StatusWords * Bits - 1
Extra == StatusWords * Bits..StatusWords * Bits + MaxExtra - 1

VARIABLES str,       \* the strings there are: text length, ->len, bytes allocated
          status,    \* lpbStatus, a word of bits each
          held,      \* history: the strings that functions have taken, in order
          reading    \* pBat_EsGet in progress: the string, where the text goes on,
                     \* how many characters are to come and whether a newline ends them

strVars == <<str, status, held, reading>>

String(text, len) == [text |-> text, len |-> len, bytes |-> len]
Unusable == [text |-> 0, len |-> 0, bytes |-> 0]     \* malloc failed; ->len is never read
Idle == [s |-> -1]

(* __fast_compute_size: the default size, doubled until it is enough *)
Sizes == {Default * 2^k : k \in 0..MaxText}
Size(s) == Min({size \in Sizes : size >= s})

\* With the texts there are, doubling ends.
ASSUME StringsAssumption ==
    /\ StatusWords \in Nat /\ Bits \in Nat \ {0} /\ Default \in Nat \ {0}
    /\ MaxExtra \in Nat /\ MaxText \in Nat /\ MaxLen \in Nat
    /\ Sizes \subseteq Nat /\ \E size \in Sizes : size > MaxText

On(i) == status[i \div Bits][i % Bits] = 1
SetStatus(i, b) == status' = [status EXCEPT ![i \div Bits][i % Bits] = b]
Free(w) == {j \in 0..Bits - 1 : status[w][j] = 0}

\* pBat_EsCacheBuild: a string that cannot be allocated keeps its bit
StrInit == /\ \E failed \in SUBSET Cached :
                 /\ str = [i \in Cached |-> IF i \in failed THEN Unusable ELSE String(0, Default)]
                 /\ status = [w \in 0..StatusWords - 1 |-> [j \in 0..Bits - 1 |-> IF w * Bits + j \in failed THEN 1 ELSE 0]]
           /\ held = <<>>
           /\ reading = Idle

\* Does not set the bit.
EsInitUnmarked ==
    \E w \in 0..StatusWords - 1 : /\ Free(w) # {}
                                  /\ held' = Append(held, w * Bits + Min(Free(w)))
                                  /\ UNCHANGED <<str, status, reading>>

(* pBat_EsCacheInit: the first bit that is off, else a string of its own *)
EsInitCached ==
    LET words == {w \in 0..StatusWords - 1 : Free(w) # {}}
        i == Min(words) * Bits + Min(Free(Min(words)))
    IN  /\ words # {}
        /\ held' = Append(held, i)
        /\ SetStatus(i, 1)
        /\ UNCHANGED <<str, reading>>
EsInit ==
    /\ \A w \in 0..StatusWords - 1 : Free(w) = {}
    /\ \E i \in Extra \ DOMAIN str :
          /\ \A j \in Extra \ DOMAIN str : i <= j
          /\ str' = [j \in DOMAIN str \cup {i} |-> IF j = i THEN String(0, Default) ELSE str[j]]
          /\ held' = Append(held, i)
    /\ UNCHANGED <<status, reading>>

(* A string of the cache goes back to the size it had, if realloc can *)
EsFreeCached(k) ==
    LET i == held[k] IN
    /\ held' = SubSeq(held, 1, k - 1) \o SubSeq(held, k + 1, Len(held))
    /\ reading.s # i
    /\ IF i \in Cached
       THEN /\ SetStatus(i, 0)
            /\ \/ str' = [str EXCEPT ![i] = String(0, Default)]
               \/ str[i].len # Default /\ str' = [str EXCEPT ![i].text = 0]
       ELSE str' = [j \in DOMAIN str \ {i} |-> str[j]] /\ UNCHANGED status
    /\ UNCHANGED reading

(* EsCpy, EsCpyN, EsCpyE: size bytes are needed; without memory nothing changes *)
Write(i, text) ==
    LET size == Size(text + 1) IN
    IF str[i].len < size
    THEN \/ str' = [str EXCEPT ![i] = String(text, size)]
         \/ UNCHANGED str
    ELSE str' = [str EXCEPT ![i].text = text]

EsCpy(k, text) == Write(held[k], text) /\ UNCHANGED <<status, held, reading>>
(* EsCat, EsCatN, EsCatE; EsReplace builds a new text and copies it *)
EsCat(k, more) ==
    /\ str[held[k]].text + more <= MaxText
    /\ Write(held[k], str[held[k]].text + more)
    /\ UNCHANGED <<status, held, reading>>

(* EsGet: at the end of the file the string keeps what it held *)
EsGet(k, come, newline) ==
    /\ reading = Idle
    /\ come > 0 /\ str[held[k]].len < MaxLen
    /\ reading' = [s |-> held[k], at |-> 0, room |-> str[held[k]].len, come |-> come, newline |-> newline]
    /\ UNCHANGED <<str, status, held>>

(* One fgets of room bytes at the cursor, and what follows it *)
Taken == IF reading.come < reading.room - 1 THEN reading.come ELSE reading.room - 1
Fgets ==
    LET i == reading.s
        end == reading.at + Taken
        complete == Taken = reading.come /\ reading.newline
        read == [str EXCEPT ![i].text = end]
        grown == [read EXCEPT ![i].len = 2 * @, ![i].bytes = 2 * @]
    IN  /\ reading # Idle
        /\ IF reading.come = 0 \/ complete      \* no more, or the newline was found
           THEN /\ str' = IF reading.come = 0 THEN str ELSE read
                /\ reading' = Idle
           ELSE \/ /\ str' = grown
                   /\ reading' = [reading EXCEPT !.at = str[i].len - 1, !.room = str[i].len + 1, !.come = @ - Taken]
                \/ str' = read /\ reading' = Idle
        /\ UNCHANGED <<status, held>>

StrNext == \/ EsInitCached \/ EsInit \/ Fgets
           \/ reading = Idle /\ \E k \in DOMAIN held :
                 \/ EsFreeCached(k)
                 \/ \E text \in 0..MaxText : EsCpy(k, text) \/ EsCat(k, text)
                 \/ \E come \in 1..MaxText, newline \in BOOLEAN : EsGet(k, come, newline)

StrSpec == StrInit /\ [][StrNext]_strVars

-----------------------------------------------------------------------------
(* The text and its NUL are in the bytes of the string, at every size it takes
   and whatever realloc refused, also while a line is read piece by piece. *)
Fits ==
    /\ \A k \in DOMAIN held : LET s == str[held[k]] IN s.text < s.bytes /\ s.len = s.bytes
    /\ reading # Idle => reading.at + reading.room <= str[reading.s].bytes

(* No two functions get the same string, and only strings that have a buffer;
   a bit that is on is a string in use or one that was never allocated. *)
OneUser ==
    /\ \A j, k \in DOMAIN held : held[j] = held[k] => j = k
    /\ \A k \in DOMAIN held : held[k] \in DOMAIN str /\ str[held[k]].bytes > 0
    /\ \A i \in Cached : On(i) <=> \/ str[i] = Unusable
                                   \/ \E k \in DOMAIN held : held[k] = i

\* Texts fit in their strings, at every size the strings take, and a string has one user.
StringsFit == Fits /\ OneUser
=============================================================================
