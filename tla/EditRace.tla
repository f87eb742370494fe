------------------------------ MODULE EditRace ------------------------------
(***************************************************************************)
(* HelpRequestUpdateView as it runs beside the service functions.  It      *)
(* reads the request without a lock, validates the form against what it    *)
(* read, saves every column of the object it holds, status and published_at *)
(* included, and only then calls after_edit, which locks.  Everything else *)
(* may happen between these four steps.                                    *)
(***************************************************************************)
EXTENDS Lifecycle

VARIABLE form  \* the edit in progress

raceVars == <<vars, form>>

NoForm == [step |-> "none"]

\* What the view holds: the columns it read and will write back, what the
\* recipient typed, and which kinds of fields changed.
FormType ==
  [step : {"read", "checked", "saved"},
   status : Editable, age : 0 .. AgeMax, published : BOOLEAN,
   needed : 1 .. MaxNeeded, homeVisit : BOOLEAN, late : -Lead .. LateMax,
   moved : BOOLEAN, content : BOOLEAN]

RaceTypeOK == TypeOK /\ form \in FormType \cup {NoForm}

-----------------------------------------------------------------------------

\* dispatch, get_object and the form's own validation
FormRead ==
  /\ form = NoForm
  /\ status \in Editable
  /\ \E n \in NeededChoices, visit, text \in BOOLEAN, date \in -Lead .. 0 :
       form' = [step |-> "read", status |-> status, age |-> age, published |-> published,
                needed |-> n, homeVisit |-> visit, late |-> date,
                moved |-> date # late \/ visit # homeVisit,
                content |-> text \/ visit # homeVisit]
  /\ UNCHANGED vars

\* editable_fields_error: the responses are read anew, the status is the one read
FormCheck ==
  /\ form.step = "read"
  /\ \/ /\ EditAllowed(form.status, form.needed, form.moved)
        /\ form' = [form EXCEPT !.step = "checked"]
     \/ /\ ~EditAllowed(form.status, form.needed, form.moved)
        /\ form' = NoForm
  /\ UNCHANGED vars

\* super().form_valid: ModelForm.save writes the whole row
FormSave ==
  /\ form.step = "checked"
  /\ status' = form.status /\ age' = form.age /\ published' = form.published
  /\ needed' = form.needed /\ homeVisit' = form.homeVisit /\ late' = form.late
  /\ form' = [form EXCEPT !.step = "saved"]
  /\ UNCHANGED <<response, done, trust, others, due>>

\* after_edit deciding from the request the view holds
FormAfterEditUnlocked ==
  /\ form.step = "saved"
  /\ \/ form.status = "rejected" /\ MoveTo("pending_moderation") /\ UNCHANGED response
     \/ form.status # "rejected" /\ AfterEdit(needed, form.content)
  /\ form' = NoForm
  /\ UNCHANGED <<done, needed, homeVisit, published, late, trust, others, due>>

\* after_edit, with the request read again under its lock
FormAfterEdit ==
  /\ form.step = "saved"
  /\ AfterEdit(needed, form.content)
  /\ form' = NoForm
  /\ UNCHANGED <<done, needed, homeVisit, published, late, trust, others, due>>

\* The dates the view holds are absolute, so the ages it will write grow too.
Later(r) ==
  [r EXCEPT !.late = IF @ < LateMax THEN @ + 1 ELSE @,
            !.age = IF @ < AgeMax THEN @ + 1 ELSE @]

RaceTick == Tick /\ form' = IF form = NoForm THEN form ELSE Later(form)

RaceInit == Init /\ form = NoForm

RaceNext ==
  \/ ServiceStep /\ UNCHANGED form
  \/ RaceTick
  \/ FormRead
  \/ form # NoForm /\ (FormCheck \/ FormSave \/ FormAfterEdit)

RaceSpec == RaceInit /\ [][RaceNext]_raceVars

-----------------------------------------------------------------------------
(* What the race cannot break *)

\* RaceInv: the variables have their types, and RaceWorkIsSound.
\* The save can only bring back a status in which editing is allowed, so work
\* is still never under way without a volunteer, with somebody waiting to be
\* answered, or with the confirmation asked for too early.
RaceWorkIsSound ==
  /\ status \in Working => Team # {}
  /\ status \in Working \cup Closed => Waiting = {}
  /\ status = "awaiting_confirmation" => AllDone(Team, done)

RaceInv == RaceTypeOK /\ RaceWorkIsSound

\* Nothing but the save of a form that was read before leaves a closed state.
OnlyAStaleFormReopens ==
  [][(status \in Closed) /\ status' \notin Closed
       => form.step = "checked" /\ form.status = status' /\ UNCHANGED response]_raceVars
=============================================================================
