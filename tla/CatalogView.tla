------------------------------ MODULE CatalogView ------------------------------
(***************************************************************************)
(* What the two catalogue endpoints of the server promise, as if each      *)
(* request were one look at the catalogue file: an answer tells what is in *)
(* place at the moment it is given, and "unavailable" is only said when    *)
(* nothing fit to be served is there, or the file changed while the        *)
(* request was on its way.                                                 *)
(***************************************************************************)
EXTENDS Naturals

CONSTANTS Requests, Contents, Served, None

File        == [content : Contents, stamp : Nat \ {0}]
NoFile      == [content |-> None, stamp |-> 0]
Unavailable == [content |-> None, stamp |-> 0]

VARIABLES
  disk,      \* the catalogue file in place
  asked,     \* Requests -> "none", "meta" or "catalog"
  disturbed, \* Requests -> did the file change since the request came
  answer     \* Requests -> what it was answered

vars == <<disk, asked, disturbed, answer>>

Init ==
  /\ disk = NoFile
  /\ asked = [r \in Requests |-> "none"]
  /\ disturbed = [r \in Requests |-> FALSE]
  /\ answer = [r \in Requests |-> Unavailable]

Change ==
  /\ disk' \in File \cup {NoFile}
  /\ disturbed' = [r \in Requests |-> TRUE]
  /\ UNCHANGED <<asked, answer>>

Ask(r) ==
  /\ asked[r] = "none"
  /\ asked' \in {[asked EXCEPT ![r] = kind] : kind \in {"meta", "catalog"}}
  /\ disturbed' = [disturbed EXCEPT ![r] = FALSE]
  /\ UNCHANGED <<disk, answer>>

\* The metadata name the contents (by their digest) and the file they are in;
\* the download is the contents alone.
Answer(r) ==
  /\ asked[r] # "none"
  /\ asked' = [asked EXCEPT ![r] = "none"]
  /\ \/ /\ disk.content \in Served
        /\ answer' = [answer EXCEPT ![r] =
             [content |-> disk.content,
              stamp   |-> IF asked[r] = "meta" THEN disk.stamp ELSE 0]]
     \/ /\ disk.content \notin Served \/ disturbed[r]
        /\ answer' = [answer EXCEPT ![r] = Unavailable]
  /\ UNCHANGED <<disk, disturbed>>

Next == Change \/ \E r \in Requests : Ask(r) \/ Answer(r)

Spec == Init /\ [][Next]_vars

================================================================================
