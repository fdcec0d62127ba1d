---------------------------- MODULE VirtioInput ----------------------------
(***************************************************************************)
(* The virtio keyboard, mouse and tablet (virtio.c) and their driver.      *)
(*                                                                         *)
(* An event of the host is several entries of the queue, the last of them  *)
(* SYN, and is cut short when the guest has no buffer left.  The driver    *)
(* asks the configuration space which codes there are, gives all its       *)
(* buffers, and gives each back when it has read it; like Linux's input    *)
(* core it ignores codes the device has not declared.                      *)
(***************************************************************************)
EXTENDS Integers, Sequences, SequencesExt

CONSTANTS
  UsedButton,     \* the buttons of the pointer the host's user touches
  UsedKey,        \* and the keys of the keyboard
  EventQueueNum, EventIdxSpace

ASSUME EventQueueNumAssumption == EventQueueNum \in Nat \ {0}
ASSUME EventIdxSpaceAssumption ==
  EventIdxSpace \in Nat /\ EventIdxSpace > EventQueueNum /\ EventIdxSpace % EventQueueNum = 0

Q == INSTANCE VirtQueue WITH QueueNum <- EventQueueNum, IdxSpace <- EventIdxSpace

VARIABLES
  (* the device *)
  input_type,       \* s1->type
  events,           \* queue 0
  input_ready,            \* qs->ready
  buttons_state,
  config,           \* config_space: select, subsel, size and what follows
  (* the driver *)
  asked,            \* what it has still to ask, as <<select, subsel>>
  chosen,           \* how many of the two it has written
  codes,            \* what it was told
  buffer,           \* head -> the event written there
  event_used,       \* its place in the used ring
  pressed,          \* the buttons it believes pressed
  (* history *)
  held,             \* the keys the host holds
  unsure            \* buttons of an event cut short after their entry

inputVars == <<input_type, events, input_ready, buttons_state, config,
               asked, chosen, codes, buffer, event_used, pressed, held, unsure>>
driverVars == <<asked, chosen, codes, event_used, pressed>>

\* The buttons of a mouse; they also stand for the keys of a keyboard.
buttons_list == <<"BTN_LEFT", "BTN_RIGHT", "BTN_MIDDLE">>
Button == ToSet(buttons_list)

ASSUME UsedAssumption == UsedButton \subseteq Button /\ UsedKey \subseteq Button

InputType == {"KEYBOARD", "MOUSE", "TABLET"}
NoEvent == [code |-> "NONE", value |-> 0]
Syn == [code |-> "SYN", value |-> 0]

\* What the driver asks for, and in which order.
Questions(t) ==
  << <<"ID_NAME", "NONE">>, <<"EV_BITS", "REP">>, <<"EV_BITS", "KEY">>, <<"EV_BITS", "REL">>,
     <<"EV_BITS", "ABS">>, <<"EV_BITS", "LED">> >>
  \o IF t = "TABLET" THEN << <<"ABS_INFO", "ABS_X">>, <<"ABS_INFO", "ABS_Y">> >> ELSE <<>>

InputInit ==
  /\ input_type \in InputType
  /\ events = Q!QueueInit
  /\ input_ready = FALSE
  /\ buttons_state = {}
  /\ config = [select |-> "UNSET", subsel |-> "NONE", size |-> 0, data |-> {}]
  /\ asked = Questions(input_type)
  /\ chosen = 0
  /\ codes = {}
  /\ buffer = [h \in Q!Desc |-> NoEvent]
  /\ event_used = 0
  /\ pressed = {}
  /\ held = {}
  /\ unsure = {}

-----------------------------------------------------------------------------
(* The configuration space                                                 *)

\* The codes of a type of event; {} where nothing is declared.
Declared(t, ev) ==
  CASE ev = "KEY" -> Button
    [] ev = "REL" /\ t = "MOUSE" -> {"REL_X", "REL_Y", "REL_WHEEL"}
    [] ev = "REL" /\ t = "TABLET" -> {"REL_WHEEL"}
    [] ev = "ABS" /\ t = "TABLET" -> {"ABS_X", "ABS_Y"}
    [] OTHER -> {}

\* virtio_input_config_write.  To EV_REP a keyboard answers with a size only.
ConfigAnswer(c, t) ==
  CASE c.select = "UNSET" -> c
    [] c.select = "ID_NAME" -> [c EXCEPT !.size = 1, !.data = {"name"}]
    [] c.select = "EV_BITS" /\ Declared(t, c.subsel) # {} ->
         [c EXCEPT !.size = 1, !.data = Declared(t, c.subsel)]
    [] c.select = "EV_BITS" /\ Declared(t, c.subsel) = {} ->
         [c EXCEPT !.size = IF t = "KEYBOARD" /\ c.subsel = "REP" THEN 1 ELSE 0]
    [] c.select = "ABS_INFO" ->
         IF t = "TABLET" /\ c.subsel \in {"ABS_X", "ABS_Y"}
         THEN [c EXCEPT !.size = 1, !.data = {"range"}] ELSE c
    [] OTHER -> [c EXCEPT !.size = 0]

\* virtio_config_write: after every byte the device looks at the whole.
WriteConfig(c) == config' = ConfigAnswer(c, input_type)

Select ==
  /\ asked # <<>>
  /\ chosen < 2
  /\ WriteConfig(IF chosen = 0 THEN [config EXCEPT !.select = Head(asked)[1]]
                 ELSE [config EXCEPT !.subsel = Head(asked)[2]])
  /\ chosen' = chosen + 1
  /\ UNCHANGED <<input_type, events, input_ready, buttons_state, asked, codes, buffer, event_used,
                 pressed, held, unsure>>

ReadAnswer ==
  /\ chosen = 2
  /\ codes' = IF Head(asked)[1] = "EV_BITS" /\ Head(asked)[2] # "REP" /\ config.size > 0
              THEN codes \union config.data ELSE codes
  /\ asked' = Tail(asked)
  /\ chosen' = 0
  /\ UNCHANGED <<input_type, events, input_ready, buttons_state, config, buffer, event_used,
                 pressed, held, unsure>>

-----------------------------------------------------------------------------
(* The driver's queue                                                      *)

SetupEvents ==
  /\ ~input_ready
  /\ asked = <<>>
  /\ input_ready' = TRUE
  /\ events' = [events EXCEPT !.avail_ring = [i \in Q!Desc |-> i],
                               !.avail_idx = EventQueueNum]
  /\ UNCHANGED <<input_type, buttons_state, config, driverVars, buffer, held, unsure>>

\* virtio_reset: the buttons, and the configuration space, stay as they are.  The
\* driver begins anew with empty rings.
ResetInput ==
  /\ input_ready
  /\ input_ready' = FALSE
  /\ events' = Q!EmptyRings(Q!VirtioReset(events))
  /\ buffer' = [h \in Q!Desc |-> NoEvent]
  /\ asked' = Questions(input_type)
  /\ codes' = {}
  /\ event_used' = 0
  /\ pressed' = {}
  /\ unsure' = Button
  /\ UNCHANGED <<input_type, buttons_state, config, chosen, held>>

Applied(on, e, known) ==
  IF e.code \notin Button \intersect known THEN on
  ELSE IF e.value = 1 THEN on \union {e.code} ELSE on \ {e.code}

ReadEvent ==
  /\ input_ready
  /\ event_used # events.used_idx
  /\ LET h == Q!UsedDesc(events, event_used)
     IN  /\ pressed' = Applied(pressed, buffer[h], codes)
         /\ events' = Q!AddAvail(Q!InterruptAck(events, {Q!UsedBuffer}), h)
         /\ buffer' = [buffer EXCEPT ![h] = NoEvent]
  /\ event_used' = Q!NextIdx(event_used)
  /\ UNCHANGED <<input_type, input_ready, buttons_state, config, asked, chosen, codes, held, unsure>>

-----------------------------------------------------------------------------
(* The device                                                              *)

Room == IF input_ready THEN (events.avail_idx - events.last_avail_idx) % EventIdxSpace ELSE 0

\* virtio_input_queue_event, for the entries of an event until one fails.
Sent(entries) == IF Len(entries) <= Room THEN entries ELSE SubSeq(entries, 1, Room)

PutEvent(s, e) ==
  LET h == Q!NextDesc(s.q)
  IN  [q |-> Q!ConsumeDesc(Q!Advance(s.q), h), buffer |-> [s.buffer EXCEPT ![h] = e]]

QueueEvents(entries) ==
  LET s == FoldLeft(PutEvent, [q |-> events, buffer |-> buffer], Sent(entries))
  IN  /\ events' = s.q
      /\ buffer' = s.buffer

CodesOf(entries) == {entries[i].code : i \in DOMAIN entries}
Key(b, on) == [code |-> b, value |-> IF on THEN 1 ELSE 0]

send_key_event(b, down) ==
  LET entries == <<Key(b, down), Syn>>
  IN  /\ input_type = "KEYBOARD"
      /\ down # (b \in held)
      /\ QueueEvents(entries)
      /\ held' = IF down THEN held \union {b} ELSE held \ {b}
      /\ unsure' = IF Room = 0 THEN unsure \union {b} ELSE unsure \ {b}
      /\ UNCHANGED <<input_type, input_ready, buttons_state, config, driverVars>>

Moved(t) == IF t = "MOUSE" THEN <<[code |-> "REL_X", value |-> 0], [code |-> "REL_Y", value |-> 0]>>
            ELSE <<[code |-> "ABS_X", value |-> 0], [code |-> "ABS_Y", value |-> 0]>>
Wheel == [code |-> "REL_WHEEL", value |-> 0]

\* the new buttons are noted before they are told
NewButtonsEarly(buttons, all) == buttons

\* Noted once every change has been told: before SYN.
NewButtons(buttons, all) == IF all THEN buttons ELSE buttons_state

send_mouse_event(turned, buttons) ==
  LET Change(i) == LET b == buttons_list[i]
                   IN  IF (b \in buttons) # (b \in buttons_state)
                       THEN <<Key(b, b \in buttons)>> ELSE <<>>
      before == Moved(input_type) \o (IF turned THEN <<Wheel>> ELSE <<>>)
      keys == Change(1) \o Change(2) \o Change(3)
      entries == before \o keys \o <<Syn>>
      told == CodesOf(Sent(entries)) \intersect Button
      all == Len(before \o keys) <= Room
  IN  /\ input_type \in {"MOUSE", "TABLET"}
      /\ QueueEvents(entries)
      /\ buttons_state' = NewButtons(buttons, all)
      /\ unsure' = IF all THEN unsure \ told ELSE unsure \union told
      /\ UNCHANGED <<input_type, input_ready, config, driverVars, held>>

InputNext ==
  \/ Select \/ ReadAnswer \/ SetupEvents \/ ResetInput \/ ReadEvent
  \/ \E b \in UsedKey, down \in BOOLEAN : send_key_event(b, down)
  \/ \E turned \in BOOLEAN, buttons \in SUBSET UsedButton : send_mouse_event(turned, buttons)

-----------------------------------------------------------------------------
InputSpec == InputInit /\ [][InputNext]_inputVars

-----------------------------------------------------------------------------
Selector == {"UNSET", "ID_NAME", "EV_BITS", "ABS_INFO"}
Subselector == {"NONE", "REP", "KEY", "REL", "ABS", "LED", "ABS_X", "ABS_Y"}
Code == Button \union {"REL_X", "REL_Y", "REL_WHEEL", "ABS_X", "ABS_Y", "SYN", "NONE"}
Text == Code \union {"name", "range"}
Config == [select : Selector, subsel : Subselector, size : {0, 1}, data : SUBSET Text]
Event == [code : Code, value : {0, 1}]

InputTypeOK ==
  /\ input_type \in InputType
  /\ Q!QueueTypeOK(events)
  /\ input_ready \in BOOLEAN
  /\ buttons_state \subseteq Button
  /\ config \in Config
  /\ asked \in Seq(Selector \X Subselector)
  /\ chosen \in 0 .. 2
  /\ codes \subseteq Text
  /\ buffer \in [Q!Desc -> Event]
  /\ event_used \in Q!Idx
  /\ pressed \subseteq Button /\ held \subseteq Button /\ unsure \subseteq Button

\* The events the driver has still to read, and what it will believe then: of a
\* code it knows the last of them decides.
Unread ==
  LET heads == Q!Entries(events.used_ring, event_used, events.used_idx)
  IN  [k \in DOMAIN heads |-> buffer[heads[k]]]
TellingOf(unread, b) == {k \in DOMAIN unread : unread[k].code = b}
Believed(on, unread, known) ==
  {b \in Button : LET telling == TellingOf(unread, b)
                  IN  IF b \notin known \/ telling = {} THEN b \in on
                      ELSE unread[Max(telling)].value = 1}
AfterUnread == Believed(pressed, Unread, codes)

\* Whatever events are cut short for want of buffers, and however the guest is
\* behind with its queue, once it has read what is there it believes of every
\* button what the device does.  Left out are the buttons told in an event cut
\* short after their entry, until they are told again, and those of before a reset
\* (virtio_input_send_mouse_event, virtio_input_config_write).
ButtonsAgree ==
  LET known == IF input_type = "KEYBOARD" THEN held ELSE buttons_state
  IN  input_ready => \A b \in Button \ unsure : b \in AfterUnread <=> b \in known
=============================================================================
