------------------------------ MODULE Uploads ------------------------------
(***************************************************************************)
(* The photographs of the books in hand on their way to the queue: one      *)
(* BookUploads for each book (src/lib/photoUploads.ts, src/app/             *)
(* bookInHand.tsx), and the attach at the other end (server/index.ts,       *)
(* server/queue.ts), which makes a capture of a photograph that names none. *)
(* An answer may be lost, and the screen may have moved on to the next book *)
(* while photographs of the last are still travelling.                      *)
(***************************************************************************)
EXTENDS Naturals, Sequences, FiniteSetsExt

CONSTANTS Chains,       \* books in hand
          Retries,      \* RETRY_DELAYS_MS.length
          MaxSends

ASSUME UploadsAssumption == Retries \in Nat /\ MaxSends \in Nat

VARIABLES chain,        \* of each book: the capture known, the request awaited
          post,         \* the requests of the shutter, as the server has them
          capture       \* the captures there have been: there, or deleted

uploadVars == <<chain, post, capture>>

NoCapture == 0
Captures == DOMAIN capture
IsThere(c) == c \in Captures /\ capture[c] = "there"

-----------------------------------------------------------------------------
UploadsInit ==
  /\ chain = [k \in Chains |-> [known |-> NoCapture, at |-> 0, tries |-> 0, lost |-> FALSE]]
  /\ post = <<>>
  /\ capture = <<>>

Asked(k) ==
  /\ Len(post) < MaxSends
  /\ post' = Append(post, [stage |-> "sent", chain |-> k, to |-> chain[k].known])

MutAdd(k) ==
  /\ Asked(k)
  /\ chain' = [chain EXCEPT ![k].at = Len(post) + 1, ![k].tries = 0]
  /\ UNCHANGED capture
\* add: one photograph after every one before it has settled.
Add(k) ==
  /\ chain[k].at = 0
  /\ Asked(k)
  /\ chain' = [chain EXCEPT ![k].at = Len(post) + 1, ![k].tries = 0]
  /\ UNCHANGED capture

\* attempt: the network gave up, or a proxy answered for the server.  The request
\* may never arrive, may be under way, and may be done.
AskAgain(k) ==
  /\ chain[k].at # 0
  /\ chain[k].tries < Retries
  /\ Asked(k)
  /\ chain' = [chain EXCEPT ![k].at = Len(post) + 1, ![k].tries = @ + 1, ![k].lost = TRUE]
  /\ UNCHANGED capture
GiveUp(k) ==
  /\ chain[k].at # 0
  /\ \/ chain[k].tries = Retries /\ chain' = [chain EXCEPT ![k].at = 0, ![k].lost = TRUE]
     \/ post[chain[k].at].stage = "failed" /\ chain' = [chain EXCEPT ![k].at = 0]
  /\ UNCHANGED <<post, capture>>
Answered(k) ==
  /\ chain[k].at # 0
  /\ post[chain[k].at].stage = "done"
  /\ chain' = [chain EXCEPT ![k].at = 0, ![k].known = post[chain[k].at].to]
  /\ UNCHANGED <<post, capture>>

\* attach: the lookup of the capture named, then the transaction, onto it or onto
\* a new one.
Lookup(i) ==
  /\ post[i].stage = "sent"
  /\ post' = [post EXCEPT ![i].stage = "found", ![i].to = IF IsThere(@) THEN @ ELSE NoCapture]
  /\ UNCHANGED <<chain, capture>>
Attach(i) ==
  /\ post[i].stage = "found"
  /\ post[i].to # NoCapture
  /\ post' = [post EXCEPT ![i].stage = IF IsThere(post[i].to) THEN "done" ELSE "failed"]
  /\ UNCHANGED <<chain, capture>>
Create(i) ==
  /\ post[i].stage = "found"
  /\ post[i].to = NoCapture
  /\ capture' = Append(capture, "there")
  /\ post' = [post EXCEPT ![i].stage = "done", ![i].to = Len(capture) + 1]
  /\ UNCHANGED chain

\* DELETE /api/books/:id, from another screen
DeleteCapture(c) ==
  /\ capture[c] = "there"
  /\ capture' = [capture EXCEPT ![c] = "deleted"]
  /\ UNCHANGED <<chain, post>>

UploadsNext ==
  \/ \E k \in Chains : Add(k) \/ AskAgain(k) \/ GiveUp(k) \/ Answered(k)
  \/ \E i \in DOMAIN post : Lookup(i) \/ Attach(i) \/ Create(i)
  \/ \E c \in Captures : DeleteCapture(c)

UploadsSpec == UploadsInit /\ [][UploadsNext]_uploadVars

-----------------------------------------------------------------------------
(* Properties *)

Done == {i \in DOMAIN post : post[i].stage = "done"}

\* The photographs of one book go to one capture, as long as no answer was lost
\* and the capture was not deleted under them; and whatever is lost, deleted or
\* still travelling when the screen moves on, two books never share a capture
\* ("a second photograph sent before the first has answered has no capture to
\* name, and would start a second book").
OneBookOneCapture ==
  \A i, j \in Done :
    IF post[i].chain = post[j].chain
      THEN \/ post[i].to = post[j].to
           \/ chain[post[i].chain].lost
           \/ capture[Min({post[i].to, post[j].to})] = "deleted"
      ELSE post[i].to # post[j].to
=============================================================================
