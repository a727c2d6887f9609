----------------------------- MODULE FileTools ------------------------------
(***************************************************************************)
(* One file in the working directory, and the tools of two agents that     *)
(* share it, a kernel and its background subagent (tools/edit.go,          *)
(* multiedit.go, write.go, read.go): a file is read in one step and        *)
(* replaced in two, for os.WriteFile truncates it first and may then fail, *)
(* and nothing locks it between them.  The calls of one kernel are serialised by ToolBatch;  *)
(* those of two kernels are not.                                           *)
(*                                                                         *)
(* A file is a sequence of lines.  What an edit looks for is a line.       *)
(***************************************************************************)
EXTENDS Integers, Sequences, SequencesExt

CONSTANTS
  Agents,    \* the kernels
  Original,  \* what the file contains at first
  EditLists, \* the edits of a call: sequences of [old, new, all]
  Contents,  \* what may be written as a whole
  LongLine,  \* a line the scanner gives up on: more than 64 KB
  WideLine,  \* a line that takes up the room of two in an answer
  Limit,     \* lines of a page
  Room,      \* MaxToolOutputChars, in lines
  MaxChanges \* bound: calls that change the file

ASSUME FileAssumption ==
  /\ Limit \in Nat \ {0} /\ Room \in Nat \ {0} /\ MaxChanges \in Nat
  /\ LongLine # WideLine
  /\ \A text \in {Original} \cup Contents : text \in Seq(Range(text))
  /\ \A list \in EditLists : list \in Seq(Range(list))

VARIABLES
  disk,      \* the file on disk
  tool,      \* the call of each agent that changes it
  reader,    \* what each agent has read, page by page
  promised,  \* the file as the successful calls would have it, one after the other
  crossed,   \* has a call written between another's read and write?
  torn,      \* has a write begun and not ended since the file was last written whole?
  edits

fileVars == <<disk, tool, reader, promised, crossed, torn, edits>>

NoTool   == [pc |-> "idle", edits |-> <<>>, new |-> <<>>]
Unread   == [at |-> 1, seen |-> <<>>, told |-> "more", total |-> 0, same |-> TRUE]

FileInit ==
  /\ disk = Original /\ promised = Original
  /\ tool = [a \in Agents |-> NoTool] /\ reader = [a \in Agents |-> Unread]
  /\ crossed = FALSE /\ torn = FALSE /\ edits = 0

----------------------------------------------------------------------------
(* edit and multiedit.                                                      *)

Count(content, old) == Len(SelectSeq(content, LAMBDA line : line = old))

Swap(content, e) ==
  [i \in DOMAIN content |-> IF content[i] = e.old THEN e.new ELSE content[i]]

\* One edit of the list; the first that fails fails the call.  edit is multiedit with
\* a single edit.
ApplyEdit(r, e) ==
  LET n == Count(r.content, e.old)
  IN  IF ~r.ok \/ n = 0 \/ (n > 1 /\ ~e.all) THEN [r EXCEPT !.ok = FALSE]
        ELSE [r EXCEPT !.content = Swap(@, e)]

ApplyEdits(content, list) == FoldLeft(ApplyEdit, [ok |-> TRUE, content |-> content], list)

\* Mutant of ReadAndEdit: what the edits before a failing one made is written.
ReadAndEditPartly(a, list) ==
  /\ tool[a].pc = "idle" /\ edits < MaxChanges
  /\ tool' = [tool EXCEPT ![a] =
       [pc |-> "write", edits |-> list, new |-> ApplyEdits(disk, list).content]]
  /\ edits' = edits + 1
  /\ UNCHANGED <<disk, reader, promised, crossed, torn>>

\* os.ReadFile and the edits in memory; an error of theirs leaves the file alone.
ReadAndEdit(a, list) ==
  /\ tool[a].pc = "idle" /\ edits < MaxChanges
  /\ LET r == ApplyEdits(disk, list) IN
     tool' = IF r.ok
               THEN [tool EXCEPT ![a] = [pc |-> "write", edits |-> list, new |-> r.content]]
               ELSE tool
  /\ edits' = edits + 1
  /\ UNCHANGED <<disk, reader, promised, crossed, torn>>

\* write, which reads nothing.
Write(a, content) ==
  /\ tool[a].pc = "idle" /\ edits < MaxChanges
  /\ tool' = [tool EXCEPT ![a] = [pc |-> "write", edits |-> <<>>, new |-> content]]
  /\ edits' = edits + 1
  /\ UNCHANGED <<disk, reader, promised, crossed, torn>>

\* The file changes under the calls of others that have read it, and under readers.
Under(a) ==
  /\ crossed' = (crossed \/ \E b \in Agents \ {a} : tool[b].pc # "idle")
  /\ reader' = [b \in Agents |-> [reader[b] EXCEPT !.same = FALSE]]

\* os.WriteFile: open with O_TRUNC, then write.  It may fail at either: the call is
\* answered with the error, and the file is as it was, or what was written of it.
OpenFails(a) ==
  /\ tool[a].pc = "write"
  /\ tool' = [tool EXCEPT ![a] = NoTool]
  /\ UNCHANGED <<disk, reader, promised, crossed, torn, edits>>

WriteFails(a) ==
  /\ tool[a].pc = "truncated"
  /\ \E n \in 0..Len(tool[a].new) : disk' = SubSeq(tool[a].new, 1, n)
  /\ Under(a) /\ torn' = TRUE
  /\ tool' = [tool EXCEPT ![a] = NoTool]
  /\ UNCHANGED <<promised, edits>>

Truncate(a) ==
  /\ tool[a].pc = "write"
  /\ disk' = <<>> /\ Under(a)
  /\ tool' = [tool EXCEPT ![a].pc = "truncated"]
  /\ UNCHANGED <<promised, torn, edits>>

WriteOut(a) ==
  /\ tool[a].pc = "truncated"
  /\ disk' = tool[a].new /\ Under(a)
  /\ LET r == ApplyEdits(promised, tool[a].edits) IN
     promised' = IF tool[a].edits = <<>> THEN tool[a].new
                   ELSE IF r.ok THEN r.content ELSE promised
  /\ tool' = [tool EXCEPT ![a] = NoTool]
  /\ torn' = (torn /\ tool[a].edits # <<>>)
  /\ UNCHANGED edits

\* The process that runs both dies.
ToolsDie ==
  /\ \E a \in Agents : tool[a].pc # "idle"
  /\ torn' = (torn \/ \E a \in Agents : tool[a].pc = "truncated")
  /\ tool' = [a \in Agents |-> NoTool] /\ reader' = [a \in Agents |-> Unread]
  /\ UNCHANGED <<disk, promised, crossed, edits>>

----------------------------------------------------------------------------
(* read.                                                                    *)

LongLines(content) == {i \in DOMAIN content : content[i] = LongLine}

\* The lines the loop over the scanner gets: up to one that is too long, whose error is
\* ignored.
Scanned(content) ==
  LET long == LongLines(content)
  IN  IF long = {} THEN content
        ELSE SubSeq(content, 1, (CHOOSE i \in long : \A j \in long : i <= j) - 1)

\* Mutant of HasMore: the error of the scanner is taken for the end of the file.
HasMoreToScan(content, at) == Len(Scanned(content)) >= at + Limit

\* The scan went beyond the page; or it met a line that is too long, and the second
\* scanner.Scan() hands out what is left in the buffer.
HasMore(content, at) ==
  Len(Scanned(content)) >= at + Limit \/ LongLines(content) # {}

Width(lines) == Len(lines) + Count(lines, WideLine)

\* A page from `at`.  TruncateToolOutput cuts an answer at its end, where the hint
\* for the next page is, and names the file with the whole of it.
Read(a) ==
  /\ reader[a].told = "more"
  /\ LET lines == Scanned(disk)
         n     == Len(lines)
         r     == reader[a]
         last  == IF r.at + Limit - 1 < n THEN r.at + Limit - 1 ELSE n
         page  == SubSeq(lines, r.at, last)
     IN  reader' = [reader EXCEPT ![a] =
           IF Width(page) > Room THEN [r EXCEPT !.told = "cut"]
           ELSE IF HasMore(disk, r.at)
             THEN [r EXCEPT !.seen = r.seen \o page, !.at = r.at + Len(page)]
           ELSE [r EXCEPT !.seen = r.seen \o page, !.told = "end", !.total = n]]
  /\ UNCHANGED <<disk, tool, promised, crossed, torn, edits>>

\* The agent starts over.
Reread(a) ==
  /\ reader[a].told # "more"
  /\ reader' = [reader EXCEPT ![a] = Unread]
  /\ UNCHANGED <<disk, tool, promised, crossed, torn, edits>>

----------------------------------------------------------------------------
FileNext ==
  \/ \E a \in Agents :
       \/ \E list \in EditLists : ReadAndEdit(a, list)
       \/ \E content \in Contents : Write(a, content)
       \/ Truncate(a) \/ OpenFails(a) \/ WriteOut(a) \/ WriteFails(a)
       \/ Read(a) \/ Reread(a)
  \/ ToolsDie

FileSpec == FileInit /\ [][FileNext]_fileVars

----------------------------------------------------------------------------
\* When no call has written between the read and the write of another, the file is what
\* the calls that were answered with success make of it one after the other, and those
\* answered with an error have left no trace, not even of the edits of their list that
\* came before the failing one.  A write that fails or dies once it has opened the file
\* does leave one, which edits build upon; the next `write` to succeed removes it.
EditsCompose ==
  ~crossed /\ ~torn /\ (\A a \in Agents : tool[a].pc # "truncated") => disk = promised

\* An agent that follows the hints of read has seen each line before its next page once
\* and in order, if nobody wrote meanwhile, and is told of the end, with the number of
\* the lines, only when it has seen the file to its last line.  At a line that is too
\* long it is not: it is sent back there with every page.
PagesCover ==
  \A a \in Agents : reader[a].same =>
    /\ reader[a].told = "more" =>
         reader[a].seen = SubSeq(disk, 1, reader[a].at - 1)
    /\ reader[a].told = "end" =>
         reader[a].seen = disk /\ reader[a].total = Len(disk)
=============================================================================
