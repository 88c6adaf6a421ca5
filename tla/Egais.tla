------------------------------- MODULE Egais -------------------------------
(***************************************************************************)
(* Documents for EGAIS: stored as PENDING, sent to the UTM in the same     *)
(* request, and marked with the outcome.  No worker looks at them again:   *)
(* a document whose request is cut short stays PENDING, and one whose      *)
(* answer is late is FAILED although the UTM has it.                       *)
(*                                                                         *)
(* The address of the UTM is a credential of the integration, which its    *)
(* settings save by reading the row, merging and writing it back in a      *)
(* second statement: of two saves, or a save and a clear, one is lost.     *)
(***************************************************************************)
EXTENDS Integers, FiniteSets

CONSTANTS Sender, MaxDocs,
          MaxSaves,  \* bound: saves of the settings under way
          None

Doc == 1..MaxDocs
DocStatus == {"PENDING", "ACCEPTED", "FAILED"}

EgaisAssumption ==
  /\ None \notin Doc /\ None \notin DocStatus
  /\ MaxDocs \in Nat /\ MaxSaves \in Nat

VARIABLES
  documents,   \* status of egais_document by id, None until it is inserted
  utm,         \* how often the UTM has taken a document
  integration, \* integration_settings of EGAIS_UTM, None when there is no row
  saving,      \* the rows that saves under way are about to write
  sending,     \* the request of each sender
  answerLost, cutShort  \* documents whose answer, or whose request, was lost; no code reads them

settings == <<integration, saving>>
egaisVars == <<documents, utm, settings, sending, answerLost, cutShort>>

NoSending == [stage |-> "idle", doc |-> None, outcome |-> None]

EgaisInit ==
  /\ documents = [d \in Doc |-> None] /\ utm = [d \in Doc |-> 0] /\ integration = None /\ saving = {}
  /\ sending = [s \in Sender |-> NoSending] /\ answerLost = {} /\ cutShort = {}

At(s, stage) == sending[s].stage = stage

\* The credentials stored, merged with those given: an empty one deletes the
\* key, one left out keeps it; enabled unless said otherwise.
Merged(url, enabled) ==
  [utmUrl |-> CASE url = "given" -> TRUE
                [] url = "empty" -> FALSE
                [] url = "left out" -> integration # None /\ integration.utmUrl,
   enabled |-> enabled]

SaveRead(url, enabled) ==
  /\ Cardinality(saving) < MaxSaves
  /\ saving' = saving \cup {Merged(url, enabled)}
  /\ UNCHANGED <<documents, utm, integration, sending, answerLost, cutShort>>

\* INSERT ... ON CONFLICT DO UPDATE with what was read before, whatever happened since.
SaveWrite(row) ==
  /\ integration' = row /\ saving' = saving \ {row}
  /\ UNCHANGED <<documents, utm, sending, answerLost, cutShort>>

Clear ==
  /\ integration' = None
  /\ UNCHANGED <<documents, utm, saving, sending, answerLost, cutShort>>

CreateDoc(s, d) ==
  /\ At(s, "idle") /\ documents[d] = None /\ \A k \in 1..d-1 : documents[k] # None
  /\ documents' = [documents EXCEPT ![d] = "PENDING"]
  /\ sending' = [sending EXCEPT ![s] = [stage |-> "url", doc |-> d, outcome |-> None]]
  /\ UNCHANGED <<utm, settings, answerLost, cutShort>>

\* Without an address, or with the integration disabled, the document is not sent.
utmURL == integration # None /\ integration.enabled /\ integration.utmUrl

FindUtm(s) ==
  /\ At(s, "url")
  /\ sending' = [sending EXCEPT ![s].stage = IF utmURL THEN "send" ELSE "result",
                                ![s].outcome = IF utmURL THEN None ELSE "FAILED"]
  /\ UNCHANGED <<documents, utm, settings, answerLost, cutShort>>

\* SendDoc: the UTM takes the document or does not, and the answer comes or does not.
SendDoc(s, taken, answered) ==
  LET d == sending[s].doc IN
  /\ At(s, "send")
  /\ utm' = IF taken THEN [utm EXCEPT ![d] = @ + 1] ELSE utm
  /\ answerLost' = IF taken /\ ~answered THEN answerLost \cup {d} ELSE answerLost
  /\ sending' = [sending EXCEPT ![s].stage = "result",
                                ![s].outcome = IF taken /\ answered THEN "ACCEPTED" ELSE "FAILED"]
  /\ UNCHANGED <<documents, settings, cutShort>>

\* Mutant of SetResult: the status of a reply, whatever was answered.
SetResultAccepted(s) ==
  /\ At(s, "result")
  /\ documents' = [documents EXCEPT ![sending[s].doc] = "ACCEPTED"]
  /\ sending' = [sending EXCEPT ![s] = NoSending]
  /\ UNCHANGED <<utm, settings, answerLost, cutShort>>

SetResult(s) ==
  /\ At(s, "result")
  /\ documents' = [documents EXCEPT ![sending[s].doc] = sending[s].outcome]
  /\ sending' = [sending EXCEPT ![s] = NoSending]
  /\ UNCHANGED <<utm, settings, answerLost, cutShort>>

\* The process stops, the client goes away (the UPDATE then fails with the
\* request's context) or the UPDATE fails: its error is ignored.
CutShort(s) ==
  /\ ~At(s, "idle")
  /\ cutShort' = cutShort \cup {sending[s].doc}
  /\ sending' = [sending EXCEPT ![s] = NoSending]
  /\ UNCHANGED <<documents, utm, settings, answerLost>>

EgaisNext ==
  \/ \E url \in {"given", "empty", "left out"}, enabled \in BOOLEAN : SaveRead(url, enabled)
  \/ \E row \in saving : SaveWrite(row)
  \/ Clear
  \/ \E s \in Sender :
       \/ \E d \in Doc : CreateDoc(s, d)
       \/ FindUtm(s) \/ SetResult(s) \/ CutShort(s)
       \/ \E taken, answered \in BOOLEAN : SendDoc(s, taken, answered)

-----------------------------------------------------------------------------
\* The status of a document tells what the UTM has, but for a lost answer or
\* request: ACCEPTED is taken, once; FAILED is taken only if its answer was
\* lost; PENDING is under way or was cut short (CreateDoc).
StatusTellsTruth ==
  \A d \in Doc :
    /\ documents[d] = "ACCEPTED" => utm[d] = 1
    /\ documents[d] = "FAILED" => utm[d] = IF d \in answerLost THEN 1 ELSE 0
    /\ documents[d] = "PENDING" => d \in cutShort \/ \E s \in Sender : sending[s].doc = d
    /\ documents[d] = None => utm[d] = 0

=============================================================================
