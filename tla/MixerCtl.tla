------------------------------- MODULE MixerCtl -------------------------------
(***************************************************************************)
(* tinyalsa's mixer (tinyalsa/mixer.c), the tinymix tool and the two users *)
(* of it in the audio HAL: the settings of a path (apply_ctls_l() of       *)
(* audio_config.c) and the hardware volume of a stream, from the gain      *)
(* AudioFlinger gives down to the value written to the control.            *)
(*                                                                         *)
(* The card (external) has the controls of Card, shows the first ones at   *)
(* once and may register the rest later.  Words have W bits, so that the   *)
(* products of the volume scaling wrap as 32-bit ones do.  A gain is given *)
(* in whole decibels.                                                      *)
(***************************************************************************)
EXTENDS Integers, Sequences

CONSTANTS
    Card,        \* <<[type, count, min, max, items]>>: the card's controls
    Early,       \* how many of them exist when the mixer is opened
    LeftVol, RightVol,  \* the <ctl function="leftvol|rightvol">: the control's
                 \* index in Card, 0 when the stream defines none
    Decibels,    \* gains AudioFlinger may set
    W,           \* width of a word
    Settings     \* values a path or tinymix may write

VARIABLES
    count,       \* mixer->count, -1 while the mixer is closed
    named,       \* the elements of mixer->ctl[] whose ename is set
    present,     \* how many controls the card has
    values,      \* the card's values
    percent      \* what the volume controls were last set to, or Unset

vars == <<count, named, present, values, percent>>

Unset == [l |-> -1, r |-> -1]
Ctls == DOMAIN Card
Open == count >= 0

Init ==
    /\ count = -1 /\ named = {} /\ present = Early /\ percent = Unset
    /\ values = [c \in Ctls |-> [i \in 0..Card[c].count - 1 |-> Card[c].min]]

-----------------------------------------------------------------------------
(* mixer_open(), mixer_update_ctls(), mixer_close() *)

\* add_controls() collects what it has not seen.  The names of enumerated
\* control n are stored in element old_count + n (elements count from 0).
Named(old, new) == {old + n : n \in {i \in old..new - 1 : Card[i + 1].type = "ENUM"}}

\* ELEM_INFO may fail on one of the new controls: the ones before it are kept,
\* and mixer_open() gives up.
MixerOpen ==
    /\ ~Open
    /\ \/ count' = present /\ named' = Named(0, present)
       \/ UNCHANGED <<count, named>>
    /\ UNCHANGED <<present, values, percent>>

MixerUpdateCtls ==
    /\ Open
    /\ \E n \in count..present :
          count' = n /\ named' = named \cup Named(count, n)
    /\ UNCHANGED <<present, values, percent>>

MixerClose ==
    /\ Open
    /\ count' = -1 /\ named' = {}
    /\ UNCHANGED <<present, values, percent>>

CardAdds ==
    /\ present < Len(Card)
    /\ present' = present + 1
    /\ UNCHANGED <<count, named, values, percent>>

-----------------------------------------------------------------------------
(* Writing a control: each operator gives the control's next values. *)

InRange(c, v) == Card[c].min <= v /\ v <= Card[c].max

\* What the range check refuses, and what the card itself refuses.
Accepts(c, v) ==
    CASE Card[c].type = "INT" -> InRange(c, v)
      [] Card[c].type = "ENUM" -> v \in 0..Card[c].items - 1
      [] OTHER -> TRUE

\* mixer_ctl_set_value(): reads all values, replaces one, writes them back.
SetValue(c, vals, id, v) ==
    IF id \notin DOMAIN vals \/ ~Accepts(c, v) THEN vals
    ELSE [vals EXCEPT ![id] = CASE Card[c].type = "BOOL" -> IF v = 0 THEN 0 ELSE 1
                                [] Card[c].type = "BYTE" -> v % 256
                                [] OTHER -> v]

\* An array written in place of part of it leaves zeroes in the rest.
SetArray_Partial(vals, index, bytes) ==
    [i \in DOMAIN vals |-> IF i \in index..index + Len(bytes) - 1 THEN bytes[i - index + 1] ELSE 0]

\* mixer_ctl_get_array(), the memcpy() of apply_ctls_l(), mixer_ctl_set_array()
SetArray(vals, index, bytes) ==
    [i \in DOMAIN vals |->
        IF i \in index..index + Len(bytes) - 1 THEN bytes[i - index + 1] ELSE vals[i]]

\* mixer_ctl_set_enum_by_string(): the other values of the control become 0.
SetEnum(vals, item) == [i \in DOMAIN vals |-> IF i = 0 THEN item ELSE 0]

\* The same value for all of them.
SetAll(c, vals, v) == [i \in DOMAIN vals |-> SetValue(c, vals, i, v)[i]]

IsVolume(c) == c \in {LeftVol, RightVol}
Write(c, vals) ==
    /\ values' = [values EXCEPT ![c] = vals]
    /\ percent' = IF IsVolume(c) THEN Unset ELSE percent
    /\ UNCHANGED <<count, named, present>>

\* apply_ctls_l() for one setting of a path; index is -1 when the file has none.
ApplyCtl(c, index, v) ==
    /\ c <= count
    /\ Write(c, CASE Card[c].type \in {"BOOL", "INT"} ->
                       IF index = -1 THEN SetAll(c, values[c], v)
                       ELSE SetValue(c, values[c], index, v)
                  [] Card[c].type = "BYTE" -> SetArray(values[c], IF index = -1 THEN 0 ELSE index, <<v>>)
                  [] Card[c].type = "ENUM" -> IF v \in 0..Card[c].items - 1
                                              THEN SetEnum(values[c], v) ELSE values[c])

\* tinymix with one value, or with one for each index, as numbers: it stops at
\* the first that is refused, and writes no byte if one of them is none.
TinymixSetValue(c, vals) ==
    /\ c <= count /\ Len(vals) <= Card[c].count
    /\ Write(c, CASE Card[c].type = "BYTE" ->
                       IF \A k \in DOMAIN vals : vals[k] \in 0..255
                       THEN [i \in DOMAIN values[c] |-> IF i < Len(vals) THEN vals[i + 1] ELSE 0]
                       ELSE values[c]
                  [] Card[c].type # "BYTE" /\ Len(vals) = 1 -> SetAll(c, values[c], vals[1])
                  [] OTHER ->
                       [i \in DOMAIN values[c] |->
                          IF i < Len(vals) /\ \A k \in 1..i + 1 : Accepts(c, vals[k])
                          THEN SetValue(c, values[c], i, vals[i + 1])[i] ELSE values[c][i]])

-----------------------------------------------------------------------------
(* Volume *)

Word(x) == x % 2^W
Signed(x) == IF x >= 2^(W - 1) THEN x - 2^W ELSE x
Truncate(a, b) == IF a < 0 THEN -((-a) \div b) ELSE a \div b

\* volume_to_percent(), from decibels on.
VolumeToPercent(db) == Truncate((db + 58) * 100, 58)

\* A scaling that divides before it multiplies.
VolumeValue_Coarse(c, pc) ==
    CASE pc = 0 -> Card[c].min [] pc = 100 -> Card[c].max
      [] OTHER -> Signed(Word(Card[c].min + Word(pc) * ((Card[c].max - Card[c].min) \div 100)))

\* The value set_vol_ctl() computes in unsigned words; the ends are exact.
VolumeValue(c, pc) ==
    CASE pc = 0 -> Card[c].min
      [] pc = 100 -> Card[c].max
      [] OTHER -> Signed(Word(Card[c].min + Word(Word(pc) * (Card[c].max - Card[c].min)) \div 100))

\* out_set_volume(), set_hw_volume(): a stream with only a left control gets
\* the average.
SetHwVolume(left, right) ==
    LET l == VolumeToPercent(left)
        r == VolumeToPercent(right)
        used == IF RightVol = 0 THEN Truncate(l + r, 2) ELSE l
        v1 == IF LeftVol = 0 THEN values
              ELSE [values EXCEPT ![LeftVol] = SetValue(LeftVol, @, 0, VolumeValue(LeftVol, used))]
    IN  /\ count >= LeftVol /\ count >= RightVol /\ LeftVol + RightVol > 0
        /\ values' = IF RightVol = 0 THEN v1
                     ELSE [v1 EXCEPT ![RightVol] =
                              SetValue(RightVol, @, IF RightVol = LeftVol THEN 1 ELSE 0,
                                       VolumeValue(RightVol, r))]
        /\ percent' = [l |-> used, r |-> r]
        /\ UNCHANGED <<count, named, present>>

-----------------------------------------------------------------------------
Next ==
    \/ MixerOpen
    \/ MixerUpdateCtls
    \/ MixerClose
    \/ CardAdds
    \/ \E c \in Ctls, v \in Settings : \E index \in -1..Card[c].count - 1 : ApplyCtl(c, index, v)
    \/ \E c \in Ctls : \E n \in 1..Card[c].count : \E vals \in [1..n -> Settings] :
          TinymixSetValue(c, vals)
    \/ \E left, right \in Decibels : SetHwVolume(left, right)

Spec == Init /\ [][Next]_vars

-----------------------------------------------------------------------------
(* Properties *)

\* volume_to_percent(): "decibels range is -58..0, rescale to range 0..100".
\* After a volume change the control holds the gain's share of its range,
\* rounded down: no step of the scaling wraps, is refused by the control or
\* leaves the level of an earlier call.
Share(c, pc) == CHOOSE v \in Card[c].min..Card[c].max :
    LET range == Card[c].max - Card[c].min
    IN  100 * (v - Card[c].min) <= pc * range /\ pc * range < 100 * (v - Card[c].min + 1)
VolumeIsScaled ==
    percent # Unset =>
        /\ LeftVol # 0 => values[LeftVol][0] = Share(LeftVol, percent.l)
        /\ RightVol # 0 => values[RightVol][IF RightVol = LeftVol THEN 1 ELSE 0]
                               = Share(RightVol, percent.r)

\* A setting with an index, whether written as one value or as part of a byte
\* array, changes that value of the control and no other, of any control.
OnlyIndexedValueChanges ==
    [][\A c \in Ctls, v \in Settings : \A index \in 0..Card[c].count - 1 :
          (ApplyCtl(c, index, v) /\ Card[c].type # "ENUM") =>
              \A d \in Ctls : \A i \in DOMAIN values[d] :
                  values'[d][i] # values[d][i] => d = c /\ i = index]_vars
=============================================================================
