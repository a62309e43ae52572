----------------------------- MODULE ShortsVoice -----------------------------
(***************************************************************************)
(* The voice of a video (shorts/tts.py): one synthesis of all scenes, its  *)
(* words put back into the scenes they belong to, and the pauses between   *)
(* sentences and scenes made longer or shorter.  Time is counted in        *)
(* samples, from 0; the rounding of seconds to samples is left out.        *)
(***************************************************************************)
EXTENDS Integers, Sequences, FiniteSets, SequencesExt, FiniteSetsExt

CONSTANTS OpeningPause, TopicPause, ClosingPause, SentencePause, OpenerPause,
          Guard,   \* left on either side of a shortened pause
          Fade,    \* samples faded at a seam
          Stops    \* the characters that end a sentence

-----------------------------------------------------------------------------
(* A text is a sequence of pieces [form, said]: what is written and what   *)
(* is spoken for it, which differ for a foreign name and a bracket.        *)

Form(text) == FlattenSeq([i \in DOMAIN text |-> text[i].form])
Spoken(text) == FlattenSeq([i \in DOMAIN text |-> text[i].said])

(* For each spoken character where it is written: all of a name at the     *)
(* name's first.                                                           *)
Places(text) ==
    LET Start(i) == Len(Form(SubSeq(text, 1, i - 1))) + 1
        Of(i) == [k \in DOMAIN text[i].said |-> IF text[i].said = text[i].form THEN Start(i) + k - 1 ELSE Start(i)]
    IN  FlattenSeq([i \in DOMAIN text |-> Of(i)])

(* Where each word is written: looked for from the end of the last one.    *)
(* A word that is not found ends the production.                           *)
Locate(text, words) ==
    LET spoken == Spoken(text)
        Here(p, w) == SubSeq(spoken, p, p + Len(w.text) - 1) = w.text
        step(m, w) ==
            LET at == {p \in m.cursor..(Len(spoken) - Len(w.text) + 1) : Here(p, w)}
            IN  IF at = {} THEN [m EXCEPT !.ok = FALSE]
                ELSE [m EXCEPT !.at = Append(@, Places(text)[Min(at)]), !.cursor = Min(at) + Len(w.text)]
    IN  FoldLeft(step, [ok |-> TRUE, at |-> <<>>, cursor |-> 1], words)

NewLine == <<[form |-> <<"newline">>, said |-> <<"newline">>]>>
Script(narrations) ==
    FlattenSeq([i \in DOMAIN narrations |-> (IF i = 1 THEN <<>> ELSE NewLine) \o narrations[i]])

(* Each scene's words; one without any ends the production. *)
SplitByScene(narrations, words) ==
    LET found == Locate(Script(narrations), words)
        Start(i) == Len(Form(Script(SubSeq(narrations, 1, i - 1)))) + (IF i = 1 THEN 1 ELSE 2)
        Within(i) == {k \in DOMAIN found.at : found.at[k] \in Start(i)..(Start(i) + Len(Form(narrations[i])) - 1)}
        Of(i) == LET all == SetToSortSeq(Within(i), <) IN [k \in DOMAIN all |-> words[all[k]]]
    IN  IF ~found.ok \/ \E i \in DOMAIN narrations : Within(i) = {} THEN <<>>
        ELSE [i \in DOMAIN narrations |-> Of(i)]

-----------------------------------------------------------------------------
(* The pauses *)

ScenePause(i, count) == IF i = count - 1 THEN ClosingPause ELSE IF i = 1 THEN OpeningPause ELSE TopicPause

(* The words of a scene that end a sentence: a stop is written between     *)
(* them and the next one.                                                  *)
SentenceEnds(narration, words) ==
    LET at == Locate(narration, words).at
        Between(k) == SubSeq(Form(narration), at[k] + Len(words[k].text), at[k + 1] - 1)
    IN  {k \in 1..(Len(words) - 1) : ToSet(Between(k)) \cap Stops # {}}

SentenceBreaths(narration, words) ==
    LET ends == SentenceEnds(narration, words)
    IN  [k \in ends |-> IF k = Min(ends) THEN OpenerPause ELSE SentencePause]

(* By the place of the word before, among all words: a scene's end comes   *)
(* before a sentence's.                                                    *)
Targets(narrations, scenes) ==
    LET Offset(i) == Len(FlattenSeq(SubSeq(scenes, 1, i - 1)))
        Breaths(i) == SentenceBreaths(narrations[i], scenes[i])
        inside == [i \in DOMAIN scenes |-> {Offset(i) + k : k \in DOMAIN Breaths(i)}]
        ends == {Offset(i + 1) : i \in 1..(Len(scenes) - 1)}
        SceneOf(p) == CHOOSE i \in DOMAIN scenes : p \in (Offset(i) + 1)..(Offset(i) + Len(scenes[i]))
        Of(p) == IF p \in ends THEN ScenePause(SceneOf(p), Len(scenes))
                 ELSE Breaths(SceneOf(p))[p - Offset(SceneOf(p))]
    IN  [p \in ends \cup UNION {inside[i] : i \in DOMAIN scenes} |-> Of(p)]

-----------------------------------------------------------------------------
(* Sound is a sequence of samples: n for the n-th of the synthesis, -n for *)
(* the same faded, 0 for silence.                                          *)

Part(from, to, length) == [n \in 1..Max({0, Min({to, length}) - from}) |-> from + n]
FadedOut(sound) == [n \in DOMAIN sound |-> IF n > Len(sound) - Fade THEN -sound[n] ELSE sound[n]]
FadedPart(from, length) == LET p == Part(from, from + Fade, length) IN [n \in DOMAIN p |-> -p[n]]

\* defect: what was faded in at a seam is heard again
SeamRepeating(m, until, silence, onward, length) ==
    [m EXCEPT !.sound = FadedOut(@ \o Part(m.cursor, until, length)) \o [n \in 1..silence |-> 0] \o FadedPart(onward, length),
              !.cursor = onward]

(* A seam: what was heard up to "until" fades out, what follows "onward"   *)
(* fades in, and silence is between them.                                  *)
Seam(m, until, silence, onward, length) ==
    [m EXCEPT !.sound = FadedOut(@ \o Part(m.cursor, until, length)) \o [n \in 1..silence |-> 0] \o FadedPart(onward, length),
              !.cursor = onward + Fade]

(* Silence is put into the middle of a pause, or cut out of it, never      *)
(* within Guard of a word.                                                 *)
Paced(flat, targets, length) ==
    LET step(m, p) ==
            LET gap == flat[p + 1].start - flat[p].end
                delta == targets[p] - gap
                middle == Max({m.cursor, (flat[p].end + flat[p + 1].start) \div 2})
                cut == Min({-delta, Max({0, gap - 2 * Guard})})
                left == Max({m.cursor, middle - cut \div 2})
                Moved(by, seamed) == [seamed EXCEPT !.shift = @ + by, !.marks[p] = m.shift + by]
            IN  IF delta > 0 THEN Moved(delta, Seam(m, middle, delta, middle, length))
                ELSE IF cut <= 0 THEN Moved(0, m)
                ELSE Moved(-cut, Seam(m, left, 0, left + cut, length))
    IN  FoldLeft(step, [sound |-> <<>>, cursor |-> 0, shift |-> 0, marks |-> [p \in DOMAIN targets |-> 0]],
                 SetToSortSeq(DOMAIN targets, <))

(* The sound and the words' new times: a word moves with the last pause    *)
(* before it.                                                              *)
Assembled(words, scenes, targets, paced, length) ==
    LET Shift(k) == LET before == {p \in DOMAIN targets : p < k}
                    IN  IF before = {} THEN 0 ELSE paced.marks[Max(before)]
    IN  [ok |-> TRUE, scenes |-> [i \in DOMAIN scenes |-> Len(scenes[i])], targets |-> targets,
         sound |-> paced.sound \o Part(paced.cursor, length, length),
         words |-> [k \in DOMAIN words |-> [words[k] EXCEPT !.start = @ + Shift(k), !.end = @ + Shift(k)]]]

Voice(narrations, words, length) ==
    LET Paused(scenes, targets) == Assembled(words, scenes, targets, Paced(words, targets, length), length)
        Of(scenes) == IF scenes = <<>> THEN [ok |-> FALSE] ELSE Paused(scenes, Targets(narrations, scenes))
    IN  Of(SplitByScene(narrations, words))

-----------------------------------------------------------------------------
(* A voice whose words are those of the text, with pauses of at least two  *)
(* fades, is paced whatever the text and the pauses: each scene keeps its  *)
(* own words, each word is heard whole at the time that is recorded for it *)
(* (the subtitles follow that time), each pause is as long as its place    *)
(* asks for or as near as the guards let it be, and nothing is lost or     *)
(* heard twice at the end.  counts is the number of words of each scene    *)
(* and ends what ends a sentence.  (A stop right after a name that is      *)
(* spoken longer than it is written goes unseen, so none stands there.)    *)
InStep(voice, words, length, counts, ends) ==
    LET Gap(ws, p) == ws[p + 1].start - ws[p].end
        Asked(gap, now, target) == IF target >= gap THEN now = target
                                   ELSE now = Max({target, Min({gap, 2 * Guard})})
    IN  /\ voice.ok
        /\ voice.scenes = counts
        /\ DOMAIN voice.targets = ends
        /\ \A k \in DOMAIN words : \A t \in words[k].start..(words[k].end - 1) :
              voice.sound[t + voice.words[k].start - words[k].start + 1] = t + 1
        /\ \A p \in 1..(Len(words) - 1) :
              IF p \notin ends THEN Gap(voice.words, p) = Gap(words, p)
              ELSE Asked(Gap(words, p), Gap(voice.words, p), voice.targets[p])
        /\ Len(voice.sound) - voice.words[Len(words)].end = length - words[Len(words)].end

SpeechStaysInStep(narrations, words, length, counts, ends) ==
    InStep(Voice(narrations, words, length), words, length, counts, ends)
=============================================================================
