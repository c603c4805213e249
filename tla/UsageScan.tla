------------------------------ MODULE UsageScan ------------------------------
(***************************************************************************)
(* What the relay makes of the bytes it forwards                           *)
(* (internal/router/router.go: the loop body of streamResponseWithUsage,   *)
(* internal/usage/reporter.go: ParseSSE).                                  *)
(*                                                                         *)
(* Each chunk is searched for the end marker (DoneMarker) and appended to  *)
(* usageTail.  Everything up to the last empty line is then parsed for     *)
(* usage and dropped.  What JSON a line holds is a parameter: Usage gives  *)
(* the token count of the lines that report one above zero.                *)
(***************************************************************************)
EXTENDS DoneMarker, FiniteSetsExt

CONSTANTS
  NewLine,     \* the byte that ends a line
  Return,      \* the byte some providers send before it
  Usage        \* line -> the usage it reports

NoUsage == 0

ASSUME NewLineAssumption == {NewLine, Return} \subseteq Bytes
ASSUME UsageAssumption ==
  \A line \in DOMAIN Usage : /\ Usage[line] # NoUsage
                             /\ \A i \in DOMAIN line : line[i] # NewLine

VARIABLES
  usageTail,     \* text since the last empty line
  streamUsage    \* the usage parsed last

collected == <<usageTail, streamUsage>>

UsageInit ==
  /\ Init
  /\ usageTail = <<>>
  /\ streamUsage = NoUsage

\* The positions at which an empty line is complete.
Separators(s) == {i \in 2 .. Len(s) : s[i - 1] = NewLine /\ s[i] = NewLine}

\* The lines of s that report usage, by their first and last position.
UsageLines(s) ==
  {span \in (1 .. Len(s)) \X (1 .. Len(s)) :
     /\ span[1] <= span[2]
     /\ span[1] > 1 => s[span[1] - 1] = NewLine
     /\ span[2] < Len(s) => s[span[2] + 1] = NewLine
     /\ SubSeq(s, span[1], span[2]) \in DOMAIN Usage}

\* The usage of the last such line.  Splitting at empty lines before splitting
\* at line ends makes no difference to the lines that are not empty.
ParseSSE(s) ==
  IF UsageLines(s) = {} THEN NoUsage
  ELSE LET last == CHOOSE span \in UsageLines(s) :
                     \A other \in UsageLines(s) : other[1] <= span[1]
       IN Usage[SubSeq(s, last[1], last[2])]

\* Mutant: a chunk with an empty line in it is parsed without the text that
\* was waiting for it.
Collect_ForgetsTail(chunk) ==
  IF Separators(chunk) = {}
  THEN usageTail' = usageTail \o chunk /\ UNCHANGED streamUsage
  ELSE LET end    == Max(Separators(chunk))
           parsed == ParseSSE(SubSeq(chunk, 1, end))
       IN /\ streamUsage' = IF parsed # NoUsage THEN parsed ELSE streamUsage
          /\ usageTail' = SubSeq(chunk, end + 1, Len(chunk))

Collect(chunk) ==
  LET text == usageTail \o chunk
  IN IF Separators(text) = {}
     THEN usageTail' = text /\ UNCHANGED streamUsage
     ELSE LET end    == Max(Separators(text))
              parsed == ParseSSE(SubSeq(text, 1, end))
          IN /\ streamUsage' = IF parsed # NoUsage THEN parsed ELSE streamUsage
             /\ usageTail' = SubSeq(text, end + 1, Len(text))

Forward(chunk) == Scan(chunk) /\ Collect(chunk)

UsageNext ==
  \E n \in 1 .. MaxChunk :
    /\ Len(stream) + n <= MaxStream
    /\ \E chunk \in [1 .. n -> Bytes] : Forward(chunk)

UsageSpec == UsageInit /\ [][UsageNext]_<<vars, collected>>

-----------------------------------------------------------------------------
\* However the stream was cut into chunks, the usage that is billed is the
\* last one reported before the last empty line: none is missed because a read
\* ended inside its line, none is taken from half a line, and what is kept is
\* the text that is still waiting for its empty line.
UsageIsExact ==
  \E k \in 0 .. Len(stream) :
    /\ k > 0 => k \in Separators(stream)
    /\ usageTail = SubSeq(stream, k + 1, Len(stream))
    /\ Separators(usageTail) = {}
    /\ streamUsage = ParseSSE(SubSeq(stream, 1, k))

\* docs/standards.md: a provider's response is never buffered as a whole.
\* Once the provider has sent a complete event (its lines may end in a return
\* and a new line), part of the stream has been let go of.
EndsLine(s, i)  == s[i] = NewLine
EmptyLine(s, i) == \/ EndsLine(s, i - 1)
                   \/ i > 2 /\ s[i - 1] = Return /\ EndsLine(s, i - 2)
EventComplete(s) ==
  \E i \in 2 .. Len(s) :
    EndsLine(s, i) /\ EmptyLine(s, i) /\ s[1] \notin {NewLine, Return}

NeverBufferedWhole == EventComplete(stream) => usageTail # stream
=============================================================================
