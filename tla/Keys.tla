-------------------------------- MODULE Keys --------------------------------
(***************************************************************************)
(* From a keystroke to what the terminal reads (st-native/src/input.rs,    *)
(* st-client-core/src/keys.rs) and the chords the app claims (props.rs).   *)
(* What is sent is a sequence of characters; a decimal parameter of a      *)
(* control sequence is one element of it.                                  *)
(***************************************************************************)
EXTENDS Naturals, Sequences, SequencesExt, FiniteSets

ESC == 27
Par(n) == 1000000 + n
Csi(params, final) == <<ESC, 91>> \o params \o <<final>>

Mods == {"shift", "alt", "ctrl", "super"}
XtermParam(mods) ==
  1 + (IF "shift" \in mods THEN 1 ELSE 0) + (IF "alt" \in mods THEN 2 ELSE 0) + (IF "ctrl" \in mods THEN 4 ELSE 0)
IsPlain(mods) == XtermParam(mods) = 1

(* The keys by what gpui calls them, with the characters of the layout      *)
Named == {"enter", "tab", "backspace", "escape", "up", "left", "home", "insert", "pagedown", "f1", "f3", "f5", "f12", "f13"}
Layout == {<<"a", 97, 65>>, <<"c", 99, 67>>, <<"f", 102, 70>>, <<"i", 105, 73>>, <<"m", 109, 77>>, <<"h", 104, 72>>,
           <<"[", 91, 123>>, <<"/", 47, 63>>, <<"2", 50, 64>>, <<"8", 56, 42>>, <<"-", 45, 95>>, <<"space", 32, 32>>,
           <<"*", 42, 42>>, <<"eacute", 233, 201>>}
Keypad == {"kp5", "kpenter", "kpplus"}

(* A key event: a named or keypad key, or the character the layout made     *)
Events == [key : Named \cup Keypad, ch : {0}, mods : SUBSET Mods]
          \cup [key : {"char"}, ch : UNION {{l[2], l[3]} : l \in Layout}, mods : SUBSET Mods]

MetaPrefixed(bytes, mods) == (IF "alt" \in mods THEN <<ESC>> ELSE <<>>) \o bytes
AltPrefixed(bytes, mods, config) == IF config.alt_sends_esc THEN MetaPrefixed(bytes, mods) ELSE bytes

TildeKey(code, mods) == Csi(IF IsPlain(mods) THEN <<Par(code)>> ELSE <<Par(code), 59, Par(XtermParam(mods))>>, 126)
(* Mutant: application cursor keys come before modifiers *)
CursorKey_App(final, mods, app) ==
  IF app THEN <<ESC, 79, final>>
  ELSE IF ~IsPlain(mods) THEN Csi(<<Par(1), 59, Par(XtermParam(mods))>>, final) ELSE Csi(<<>>, final)

CursorKey(final, mods, app) ==
  IF ~IsPlain(mods) THEN Csi(<<Par(1), 59, Par(XtermParam(mods))>>, final)
  ELSE IF app THEN <<ESC, 79, final>> ELSE Csi(<<>>, final)
FunctionTilde == <<15, 17, 18, 19, 20, 21, 23, 24>>

ToLower(ch) == IF ch \in 65..90 \cup 192..222 THEN ch + 32 ELSE ch
ControlByte(ch) ==
  CASE ToLower(ch) \in 97..122 -> <<ToLower(ch) - 96>>
    [] ch \in {32, 64, 50} -> <<0>> [] ch \in {91, 51} -> <<27>> [] ch \in {92, 52} -> <<28>>
    [] ch \in {93, 53} -> <<29>> [] ch \in {94, 54} -> <<30>> [] ch \in {95, 55, 47} -> <<31>>
    [] ch \in {56, 63} -> <<127>> [] OTHER -> <<>>

(* Nothing is <<>>: no key sends no character                               *)
EncodeChar(ch, mods, config) ==
  LET base == IF "ctrl" \in mods THEN ControlByte(ch) ELSE <<ch>>
  IN IF base = <<>> THEN <<>> ELSE AltPrefixed(base, mods, config)

EncodeKeypad(key, mods, modes, config) ==
  IF "app_keypad" \in modes /\ IsPlain(mods)
  THEN <<ESC, 79, CASE key = "kp5" -> 117 [] key = "kpenter" -> 77 [] key = "kpplus" -> 107>>
  ELSE IF key = "kpenter" THEN MetaPrefixed(<<13>>, mods)
  ELSE EncodeChar(IF key = "kp5" THEN 53 ELSE 43, mods, config)

(* The Kitty protocol, where a key's own sequence is ambiguous              *)
EncodeKitty(e, mods, config) ==
  LET text == IF config.alt_sends_esc THEN mods ELSE mods \ {"alt"}
      own == IF e.key = "char" THEN text ELSE mods
      code == CASE e.key = "escape" -> {27}
                [] e.key \in {"enter", "kpenter"} /\ ~IsPlain(mods) -> {13}
                [] e.key = "tab" /\ ~IsPlain(mods) -> {9}
                [] e.key = "backspace" /\ ~IsPlain(mods) -> {127}
                [] e.key = "char" /\ text \cap {"ctrl", "alt"} # {} -> {ToLower(e.ch)}
                [] OTHER -> {}
  IN {Csi(IF IsPlain(own) THEN <<Par(c)>> ELSE <<Par(c), 59, Par(XtermParam(own))>>, 117) : c \in code}

EncodeLegacy(e, mods, modes, config) ==
  LET app == "app_cursor" \in modes
      del == config.backspace_sends_del # ("ctrl" \in mods)
  IN CASE e.key = "char" -> EncodeChar(e.ch, mods, config)
       [] e.key = "enter" -> MetaPrefixed(<<13>>, mods)
       [] e.key = "tab" -> IF "shift" \in mods THEN Csi(<<>>, 90) ELSE MetaPrefixed(<<9>>, mods)
       [] e.key = "escape" -> MetaPrefixed(<<ESC>>, mods)
       [] e.key = "backspace" -> MetaPrefixed(<<IF del THEN 127 ELSE 8>>, mods)
       [] e.key = "up" -> CursorKey(65, mods, app)
       [] e.key = "left" -> CursorKey(68, mods, app)
       [] e.key = "home" -> CursorKey(72, mods, app)
       [] e.key = "insert" -> TildeKey(2, mods)
       [] e.key = "pagedown" -> TildeKey(6, mods)
       [] e.key \in {"f1", "f3"} ->
            LET final == IF e.key = "f1" THEN 80 ELSE 82
            IN IF IsPlain(mods) THEN <<ESC, 79, final>> ELSE CursorKey(final, mods, app)
       [] e.key = "f5" -> TildeKey(FunctionTilde[1], mods)
       [] e.key = "f12" -> TildeKey(FunctionTilde[8], mods)
       [] e.key = "f13" -> <<>>
       [] e.key \in Keypad -> EncodeKeypad(e.key, mods, modes, config)

(* A chord with Super is the app's; on Enter it is the newline chord        *)
EncodeKey(e, modes, config) ==
  LET newline == e.key \in {"enter", "kpenter"}
      mods == IF "super" \in e.mods THEN (e.mods \ {"super"}) \cup {"alt"} ELSE e.mods
      kitty == IF "kitty" \in modes THEN EncodeKitty(e, mods, config) ELSE {}
  IN IF "super" \in e.mods /\ ~newline THEN <<>>
     ELSE IF kitty # {} THEN CHOOSE bytes \in kitty : TRUE ELSE EncodeLegacy(e, mods, modes, config)

(***************************************************************************)
(* Chords, and what becomes of a keystroke                                 *)
(***************************************************************************)
ChordString(mods, key) ==
  LET Part(flag, name) == IF flag \in mods THEN <<name, "-">> ELSE <<>>
  IN Part("ctrl", "ctrl") \o Part("alt", "alt") \o Part("shift", "shift") \o Part("super", "cmd") \o <<key>>

Flag == [ctrl |-> "ctrl", control |-> "ctrl", alt |-> "alt", opt |-> "alt", shift |-> "shift",
         cmd |-> "super", super |-> "super", win |-> "super"]

(* Chord::parse: split at "-", which is also a key                          *)
ParseChord(string) ==
  LET split == FoldLeft(LAMBDA parts, t : IF t = "-" THEN Append(parts, "")
                                          ELSE [parts EXCEPT ![Len(parts)] = t], <<"">>, string)
      segments == IF Last(split) = "" /\ Len(split) > 1
                  THEN [Front(split) EXCEPT ![Len(split) - 1] = "-"] ELSE split
      names == ToSet(Front(segments))
  IN IF names \subseteq DOMAIN Flag THEN {[mods |-> {Flag[n] : n \in names}, key |-> Last(segments)]} ELSE {}

Matches(chord, mods, key) == chord.mods = mods /\ chord.key \in {"*", key}
Claims(passthrough, mods, key) == \E chord \in passthrough : Matches(chord, mods, key)

(* Ctrl and Super chords produce no text, though the platform may say so    *)
CommittedText(stroke) ==
  IF stroke.mods \cap {"ctrl", "super"} # {} \/ \E i \in DOMAIN stroke.char : stroke.char[i] < 32 THEN <<>> ELSE stroke.char

Character(stroke) ==
  LET text == CommittedText(stroke)
  IN IF stroke.key = "space" THEN {32} ELSE IF Len(text) = 1 THEN {text[1]} ELSE {l[2] : l \in {l \in Layout : l[1] = stroke.key}}

HandleKey(stroke, passthrough, modes, config) ==
  LET text == CommittedText(stroke)
      Sent(key, ch) == EncodeKey([key |-> key, ch |-> ch, mods |-> stroke.mods], modes, config)
      bytes == IF stroke.key \in Named THEN Sent(stroke.key, 0)
               ELSE IF Len(text) > 1 THEN AltPrefixed(text, stroke.mods, config)
               ELSE IF Character(stroke) = {} THEN <<>> ELSE Sent("char", CHOOSE c \in Character(stroke) : TRUE)
  IN IF Claims(passthrough, stroke.mods, stroke.key) THEN [does |-> "passthrough", bytes |-> <<>>]
     ELSE [does |-> IF bytes = <<>> THEN "ignore" ELSE "send", bytes |-> bytes]

(* Pasted text without an end-of-paste marker in it                         *)
PreparePaste(text, modes, config) ==
  LET Normal(body, i) == CASE text[i] = 10 -> IF i > 1 /\ text[i - 1] = 13 THEN body ELSE Append(body, 13)
                           [] OTHER -> Append(body, text[i])
      body == FoldLeft(LAMBDA b, i : Normal(b, i), <<>>, [i \in DOMAIN text |-> i])
      ends == {n \in 0 .. Len(body) : \A i \in n + 1 .. Len(body) : body[i] = 13}
      kept == IF config.paste_keeps_trailing_newline THEN body
              ELSE SubSeq(body, 1, CHOOSE n \in ends : \A m \in ends : n <= m)
  IN IF "paste" \in modes THEN Csi(<<Par(200)>>, 126) \o kept \o Csi(<<Par(201)>>, 126) ELSE kept
-----------------------------------------------------------------------------
Configs == [alt_sends_esc : BOOLEAN, backspace_sends_del : BOOLEAN]
Legacy == {{}, {"app_cursor", "app_keypad"}}

(* What a key event is, whatever is sent for it: Super+Enter is Alt+Enter,  *)
(* a keypad key the key it stands for, and the shift of text is in it      *)
Meaning(e, modes, config) ==
  LET mods == IF "super" \in e.mods THEN (e.mods \ {"super"}) \cup {"alt"} ELSE e.mods
      text == IF config.alt_sends_esc THEN mods ELSE mods \ {"alt"}
      own == "app_keypad" \in modes /\ IsPlain(mods)
      ch == CASE e.key = "kp5" /\ ~own -> 53 [] e.key = "kpplus" /\ ~own -> 43 [] OTHER -> e.ch
      key == CASE ch # 0 -> "char" [] e.key = "kpenter" /\ ~own -> "enter" [] OTHER -> e.key
  IN IF key # "char" THEN <<key, 0, mods>>
     ELSE IF text \cap {"ctrl", "alt"} = {} THEN <<key, ch, {}>> ELSE <<key, ToLower(ch), text>>

(* A program that turned the Kitty protocol on tells every two keys apart,  *)
(* and where one ends; it hears of no fewer keys than before, and of Enter,*)
(* Tab, Backspace and text the same.  Characters of the keypad are left out *)
(* when modified: the code has no such form for them, and gpui no such key *)
Told(e) == e.key \in {"kp5", "kpplus"} => e.mods = {}
Unambiguous(e) ==
  Told(e) => \A config \in Configs, legacy \in Legacy :
    LET modes == legacy \cup {"kitty"}
        bytes == EncodeKey(e, modes, config)
    IN /\ \A o \in {o \in Events : Told(o)} :
            LET others == EncodeKey(o, modes, config)
            IN bytes # <<>> /\ IsPrefix(bytes, others) => Meaning(o, modes, config) = Meaning(e, modes, config)
       /\ EncodeKey(e, legacy, config) # <<>> => bytes # <<>>
       /\ e.mods = {} /\ e.key # "escape" => bytes = EncodeKey(e, legacy, config)

(* The keystrokes of the layout, of an input method and of dead keys, as    *)
(* gpui tells them; it may name a character for Ctrl chords too            *)
Strokes ==
  {[key |-> k, char |-> <<>>, mods |-> mods] : k \in Named, mods \in SUBSET Mods}
  \cup UNION {{[key |-> l[1], char |-> c, mods |-> mods] :
                 c \in IF mods \cap {"ctrl", "super"} # {} THEN {<<>>, <<l[2]>>}
                       ELSE {<<IF "shift" \in mods THEN l[3] ELSE l[2]>>}} : l \in Layout, mods \in SUBSET Mods}
  \cup {[key |-> "ime", char |-> <<20320, 22909>>, mods |-> {}], [key |-> "a", char |-> <<229>>, mods |-> {"alt"}]}

(* Text reaches the program as it was typed; a chord as it is told to the   *)
(* app claims that keystroke and no other, also "-" itself                 *)
Meant(stroke) ==
  /\ \A config \in Configs, modes \in SUBSET {"kitty", "app_cursor"} :
       LET told == HandleKey(stroke, {}, modes, config)
           text == CommittedText(stroke)
       IN text # <<>> =>
            told = [does |-> "send",
                    bytes |-> IF "alt" \in stroke.mods /\ config.alt_sends_esc
                              THEN IF "kitty" \in modes
                                   THEN Csi(<<Par(ToLower(text[1])), 59, Par(XtermParam(stroke.mods))>>, 117)
                                   ELSE <<ESC>> \o text
                              ELSE text]
  /\ \A other \in Strokes :
       LET chord == ParseChord(ChordString(stroke.mods, stroke.key))
           claimed == HandleKey(other, chord, {}, [alt_sends_esc |-> TRUE, backspace_sends_del |-> TRUE]).does = "passthrough"
       IN stroke.key # "*" => (claimed <=> other.key = stroke.key /\ other.mods = stroke.mods)

(* A paste is the same with the line ends of any system                     *)
Pasted(text) ==
  LET Crlf == FoldLeft(LAMBDA t, c : t \o IF c = 10 THEN <<13, 10>> ELSE <<c>>, <<>>, text)
      Cr == [i \in DOMAIN text |-> IF text[i] = 10 THEN 13 ELSE text[i]]
  IN \A modes \in {{}, {"paste"}}, keeps \in BOOLEAN :
       LET Sent(t) == PreparePaste(t, modes, [paste_keeps_trailing_newline |-> keeps])
       IN Sent(text) = Sent(Crlf) /\ Sent(text) = Sent(Cr)
Texts == UNION {[1..n -> {120, 10}] : n \in 0..5}
=============================================================================
