------------------------- MODULE LessonScreensProofs -------------------------
(***************************************************************************)
(* What the screens of a lesson promise, for any sizes.                    *)
(***************************************************************************)
EXTENDS LessonScreens, SequenceTheorems, FiniteSetTheorems, TLAPS

-----------------------------------------------------------------------------
(* The lists of the editor.                                                *)

\* A list without one of its pieces has the others in their order.
LEMMA RemovedOne ==
    ASSUME NEW S, NEW items \in Seq(S), NEW i \in DOMAIN items
    PROVE  LET rest == Activity!removeAt(items, i) IN
           /\ rest \in Seq(S)
           /\ Len(rest) = Len(items) - 1
           /\ DOMAIN rest = 1..(Len(items) - 1)
           /\ \A j \in DOMAIN rest : rest[j] = items[IF j < i THEN j ELSE j + 1]
<1> DEFINE before == SubSeq(items, 1, i - 1)
           after == SubSeq(items, i + 1, Len(items))
           rest == before \o after
<1>1. Len(items) \in Nat /\ DOMAIN items = 1..Len(items) /\ i \in 1..Len(items)
  BY LenProperties
<1>2. /\ before \in Seq(S) /\ Len(before) = i - 1
      /\ \A j \in 1..i - 1 : before[j] = items[j]
  <2>1. \A j \in 1..i - 1 : items[j] \in S
    BY <1>1, ElementOfSeq
  <2>2. /\ before \in Seq(S) /\ Len(before) = IF 1 <= i - 1 THEN (i - 1) - 1 + 1 ELSE 0
        /\ \A j \in 1..(i - 1) - 1 + 1 : before[j] = items[1 + j - 1]
    BY <1>1, <2>1, SubSeqProperties
  <2> QED
    BY <1>1, <2>2
<1>3. /\ after \in Seq(S) /\ Len(after) = Len(items) - i
      /\ \A j \in 1..Len(items) - i : after[j] = items[i + j]
  <2>1. \A j \in i + 1..Len(items) : items[j] \in S
    BY <1>1, ElementOfSeq
  <2>2. /\ after \in Seq(S)
        /\ Len(after) = IF i + 1 <= Len(items) THEN Len(items) - (i + 1) + 1 ELSE 0
        /\ \A j \in 1..Len(items) - (i + 1) + 1 : after[j] = items[(i + 1) + j - 1]
    BY <1>1, <2>1, SubSeqProperties
  <2> QED
    BY <1>1, <2>2
<1>4. Activity!removeAt(items, i) = rest
  BY DEF Activity!removeAt, Activity!RemoveAt
<1> HIDE DEF before, after
<1>5. /\ rest \in Seq(S) /\ Len(rest) = Len(before) + Len(after)
      /\ \A j \in 1..Len(before) + Len(after) :
           rest[j] = IF j <= Len(before) THEN before[j] ELSE after[j - Len(before)]
  BY <1>2, <1>3, ConcatProperties
<1> HIDE DEF rest
<1>6. Len(rest) = Len(items) - 1 /\ DOMAIN rest = 1..(Len(items) - 1)
  BY <1>1, <1>2, <1>3, <1>5, LenProperties
<1>7. ASSUME NEW j \in 1..(Len(items) - 1)
      PROVE  rest[j] = items[IF j < i THEN j ELSE j + 1]
  <2>1. CASE j < i
    BY <1>1, <1>2, <1>3, <1>5, <2>1
  <2>2. CASE ~(j < i)
    <3>1. rest[j] = after[j - (i - 1)] /\ j - (i - 1) \in 1..Len(items) - i
      BY <1>1, <1>2, <1>3, <1>5, <2>2
    <3>2. after[j - (i - 1)] = items[i + (j - (i - 1))]
      BY <1>3, <3>1
    <3>3. i + (j - (i - 1)) = j + 1
      BY <1>1
    <3> QED
      BY <2>2, <3>1, <3>2, <3>3
  <2> QED
    BY <2>1, <2>2
<1> QED
  BY <1>4, <1>5, <1>6, <1>7

\* A move only changes the places of two.
LEMMA MovedOne ==
    ASSUME NEW S, NEW items \in Seq(S), NEW i \in DOMAIN items, NEW way \in Int
    PROVE  LET after == Activity!move(items, i, way) IN
           /\ after \in Seq(S) /\ Len(after) = Len(items) /\ DOMAIN after = DOMAIN items
           /\ \/ after = items
              \/ i + way \in DOMAIN items /\ \A j \in DOMAIN items :
                   after[j] = items[IF j = i THEN i + way ELSE IF j = i + way THEN i ELSE j]
<1>1. Len(items) \in Nat /\ DOMAIN items = 1..Len(items) /\ i \in 1..Len(items)
  BY LenProperties
<1>2. CASE i + way \notin DOMAIN items
  BY <1>1, <1>2 DEF Activity!move
<1>3. CASE i + way \in DOMAIN items
  <2> DEFINE first == [items EXCEPT ![i] = items[i + way]]
             both == [first EXCEPT ![i + way] = items[i]]
  <2>1. items[i] \in S /\ items[i + way] \in S
    BY <1>1, <1>3, ElementOfSeq
  <2>2. /\ first \in Seq(S) /\ Len(first) = Len(items)
        /\ \A j \in 1..Len(items) : first[j] = IF j = i THEN items[i + way] ELSE items[j]
    BY <1>1, <2>1, ExceptSeq
  <2>3. /\ both \in Seq(S) /\ Len(both) = Len(first)
        /\ \A j \in 1..Len(first) : both[j] = IF j = i + way THEN items[i] ELSE first[j]
    <3> HIDE DEF first
    <3>1. i + way \in 1..Len(first)
      BY <1>1, <1>3, <2>2
    <3> QED
      BY <2>1, <2>2, <3>1, ExceptSeq
  <2>4. Activity!move(items, i, way) = both
    BY <1>3 DEF Activity!move
  <2>5. DOMAIN both = 1..Len(both)
    BY <2>3, LenProperties
  <2> HIDE DEF first, both
  <2> QED
    BY <1>1, <1>3, <2>2, <2>3, <2>4, <2>5
<1> QED
  BY <1>2, <1>3

\* A list with one more piece has the others in their order.
LEMMA InsertedOne ==
    ASSUME NEW S, NEW items \in Seq(S), NEW i \in 1..Len(items) + 1, NEW x \in S
    PROVE  LET more == Slides!InsertAt(items, i, x) IN
           /\ more \in Seq(S)
           /\ Len(more) = Len(items) + 1
           /\ DOMAIN more = 1..(Len(items) + 1)
           /\ \A j \in DOMAIN more : more[j] = IF j = i THEN x ELSE items[IF j < i THEN j ELSE j - 1]
<1> DEFINE before == SubSeq(items, 1, i - 1)
           after == SubSeq(items, i, Len(items))
           first == before \o <<x>>
           more == first \o after
<1>1. Len(items) \in Nat /\ DOMAIN items = 1..Len(items) /\ i \in Nat \ {0} /\ i <= Len(items) + 1
  BY LenProperties
<1>2. before \in Seq(S) /\ Len(before) = i - 1 /\ \A j \in 1..i - 1 : before[j] = items[j]
  <2>1. \A j \in 1..i - 1 : items[j] \in S
    BY <1>1, ElementOfSeq
  <2>2. /\ before \in Seq(S) /\ Len(before) = IF 1 <= i - 1 THEN (i - 1) - 1 + 1 ELSE 0
        /\ \A j \in 1..(i - 1) - 1 + 1 : before[j] = items[1 + j - 1]
    BY <1>1, <2>1, SubSeqProperties
  <2> QED
    BY <1>1, <2>2
<1>3. /\ after \in Seq(S) /\ Len(after) = Len(items) - i + 1
      /\ \A j \in 1..Len(items) - i + 1 : after[j] = items[i + j - 1]
  <2>1. \A j \in i..Len(items) : items[j] \in S
    BY <1>1, ElementOfSeq
  <2>2. /\ after \in Seq(S) /\ Len(after) = IF i <= Len(items) THEN Len(items) - i + 1 ELSE 0
        /\ \A j \in 1..Len(items) - i + 1 : after[j] = items[i + j - 1]
    BY <1>1, <2>1, SubSeqProperties
  <2> QED
    BY <1>1, <2>2
<1>4. Slides!InsertAt(items, i, x) = more
  BY DEF Slides!InsertAt
<1>5. <<x>> \in Seq(S) /\ Len(<<x>>) = 1 /\ <<x>>[1] = x
  OBVIOUS
<1> HIDE DEF before, after
<1>6. /\ first \in Seq(S) /\ Len(first) = i
      /\ \A j \in 1..i : first[j] = IF j <= i - 1 THEN before[j] ELSE <<x>>[j - (i - 1)]
  <2>1. /\ first \in Seq(S) /\ Len(first) = Len(before) + Len(<<x>>)
        /\ \A j \in 1..Len(before) + Len(<<x>>) : first[j] = IF j <= Len(before) THEN before[j] ELSE <<x>>[j - Len(before)]
    BY <1>2, <1>5, ConcatProperties
  <2>2. Len(before) + Len(<<x>>) = i
    BY <1>1, <1>2, <1>5
  <2> QED
    BY <1>2, <2>1, <2>2
<1> HIDE DEF first
<1>7. /\ more \in Seq(S) /\ Len(more) = Len(first) + Len(after)
      /\ \A j \in 1..Len(first) + Len(after) : more[j] = IF j <= Len(first) THEN first[j] ELSE after[j - Len(first)]
  BY <1>3, <1>6, ConcatProperties
<1> HIDE DEF more
<1>8. Len(more) = Len(items) + 1 /\ DOMAIN more = 1..(Len(items) + 1)
  BY <1>1, <1>3, <1>6, <1>7, LenProperties
<1>9. ASSUME NEW j \in 1..(Len(items) + 1)
      PROVE  more[j] = IF j = i THEN x ELSE items[IF j < i THEN j ELSE j - 1]
  <2>1. CASE j < i
    <3>1. more[j] = first[j] /\ first[j] = before[j] /\ before[j] = items[j]
      BY <1>1, <1>2, <1>3, <1>6, <1>7, <2>1
    <3> QED
      BY <2>1, <3>1
  <2>2. CASE j = i
    <3>1. more[j] = first[j] /\ first[j] = <<x>>[j - (i - 1)]
      BY <1>1, <1>3, <1>6, <1>7, <2>2
    <3>2. j - (i - 1) = 1
      BY <1>1, <2>2
    <3> QED
      BY <1>5, <2>2, <3>1, <3>2
  <2>3. CASE j > i
    <3>1. more[j] = after[j - i] /\ j - i \in 1..Len(items) - i + 1
      BY <1>1, <1>3, <1>6, <1>7, <2>3
    <3>2. after[j - i] = items[i + (j - i) - 1]
      BY <1>3, <3>1
    <3>3. i + (j - i) - 1 = j - 1
      BY <1>1
    <3> QED
      BY <2>3, <3>1, <3>2, <3>3
  <2> QED
    BY <1>1, <2>1, <2>2, <2>3
<1> QED
  BY <1>4, <1>7, <1>8, <1>9 DEF more

-----------------------------------------------------------------------------
(* The activity.                                                           *)

Options == Seq(BOOLEAN)
Question == [key : Nat, options : Options]

OneRight(options) == \A a, b \in DOMAIN options : options[a] /\ options[b] => a = b
Sound(question) ==
    /\ Len(question.options) \in QUESTION_LIMITS.optionsMin..QUESTION_LIMITS.optionsMax
    /\ OneRight(question.options)

(***************************************************************************)
(* The inductive invariant: the threshold is between one and the number of *)
(* questions, and every question can be asked.                             *)
(***************************************************************************)
Reachable ==
    /\ questionKeys \in Nat
    /\ activity \in [pass_threshold : Nat \ {0}, questions : Seq(Question)]
    /\ activity.pass_threshold <= Activity!Most(Len(activity.questions), 1)
    /\ \A i \in DOMAIN activity.questions : Sound(activity.questions[i])

LEMMA QuestionLimits ==
    /\ QUESTION_LIMITS.optionsMin \in Nat /\ QUESTION_LIMITS.optionsMax \in Nat
    /\ QUESTION_LIMITS.optionsMin <= 2 /\ 2 <= QUESTION_LIMITS.optionsMax
  BY LessonAssumption DEF Activity!ActivityAssumption

\* Whatever the questions become, the threshold follows them.
LEMMA QuestionsSet ==
    ASSUME Reachable, NEW next \in Seq(Question), \A i \in DOMAIN next : Sound(next[i]),
           Activity!setQuestions(next), questionKeys' \in Nat
    PROVE  Reachable'
<1>1. Len(next) \in Nat /\ Len(activity.questions) \in Nat
  BY LenProperties DEF Reachable
<1>2. activity' = [activity EXCEPT !.questions = next,
                                   !.pass_threshold = Activity!Least(@, Activity!Most(Len(next), 1))]
  BY DEF Activity!setQuestions
<1>3. activity'.questions = next
  BY <1>2 DEF Reachable
<1>4. activity'.pass_threshold = Activity!Least(activity.pass_threshold, Activity!Most(Len(next), 1))
  BY <1>2 DEF Reachable
<1>5. activity' \in [pass_threshold : Nat \ {0}, questions : Seq(Question)]
  <2>1. Activity!Least(activity.pass_threshold, Activity!Most(Len(next), 1)) \in Nat \ {0}
    BY <1>1 DEF Reachable, Activity!Least, Activity!Most
  <2> QED
    BY <1>2, <2>1 DEF Reachable
<1> QED
  BY <1>1, <1>3, <1>4, <1>5 DEF Reachable, Activity!Least, Activity!Most

LEMMA NewQuestion ==
    ASSUME NEW k \in Nat
    PROVE  Activity!newQuestion(k) \in Question /\ Sound(Activity!newQuestion(k))
<1>1. <<FALSE, FALSE>> \in Options /\ Len(<<FALSE, FALSE>>) = 2 /\ DOMAIN <<FALSE, FALSE>> = 1..2
  BY DEF Options
<1>2. \A a \in {1, 2} : <<FALSE, FALSE>>[a] = FALSE
  <2>1. <<FALSE, FALSE>>[1] = FALSE
    OBVIOUS
  <2>2. <<FALSE, FALSE>>[2] = FALSE
    OBVIOUS
  <2> QED
    BY <2>1, <2>2
<1>3. OneRight(<<FALSE, FALSE>>)
  <2>1. \A a \in DOMAIN <<FALSE, FALSE>> : a \in {1, 2}
    BY <1>1
  <2> QED
    BY <1>2, <2>1 DEF OneRight
<1> DEFINE new == Activity!newQuestion(k)
<1>4. new = [key |-> k, options |-> <<FALSE, FALSE>>]
  BY DEF Activity!newQuestion
<1> HIDE DEF new
<1>5. new.options = <<FALSE, FALSE>>
  BY <1>4
<1>6. new \in Question
  BY <1>1, <1>4 DEF Question
<1> QED
  BY <1>1, <1>3, <1>5, <1>6, QuestionLimits DEF Sound, new

LEMMA ReachableInit == Activity!Init => Reachable
<1> SUFFICES ASSUME Activity!Init PROVE Reachable
  OBVIOUS
<1>1. questionKeys = 2 /\ activity = [pass_threshold |-> 1, questions |-> <<Activity!newQuestion(1)>>]
  BY DEF Activity!Init, Activity!toEditorActivity
<1>2. Activity!newQuestion(1) \in Question /\ Sound(Activity!newQuestion(1))
  BY NewQuestion
<1> DEFINE one == <<Activity!newQuestion(1)>>
<1>3. one \in Seq(Question) /\ Len(one) = 1 /\ \A i \in DOMAIN one : Sound(one[i])
  BY <1>2
<1> HIDE DEF one
<1>4. activity.questions = one /\ activity.pass_threshold = 1
  BY <1>1 DEF one
<1>5. activity \in [pass_threshold : Nat \ {0}, questions : Seq(Question)]
  BY <1>1, <1>3 DEF one
<1> QED
  BY <1>1, <1>3, <1>4, <1>5 DEF Reachable, Activity!Most

\* One question with other options, in its place.
LEMMA OptionsSet ==
    ASSUME Reachable, NEW i \in DOMAIN activity.questions, NEW options \in Options,
           Len(options) \in QUESTION_LIMITS.optionsMin..QUESTION_LIMITS.optionsMax, OneRight(options),
           Activity!setQuestion(i, options), questionKeys' = questionKeys
    PROVE  Reachable'
<1> DEFINE questions == activity.questions
           new == [questions[i] EXCEPT !.options = options]
           next == [questions EXCEPT ![i] = new]
<1>1. questions \in Seq(Question) /\ i \in 1..Len(questions) /\ DOMAIN questions = 1..Len(questions)
  BY LenProperties DEF Reachable
<1>2. questions[i] \in Question
  BY <1>1, ElementOfSeq
<1>3. new \in Question /\ new.options = options
  BY <1>2 DEF Question
<1>4. Sound(new)
  BY <1>3 DEF Sound
<1>5. Activity!setQuestions(next)
  BY DEF Activity!setQuestion
<1> HIDE DEF new
<1>6. /\ next \in Seq(Question) /\ Len(next) = Len(questions)
      /\ \A j \in 1..Len(questions) : next[j] = IF j = i THEN new ELSE questions[j]
  <2> HIDE DEF questions
  <2> QED
    BY <1>1, <1>3, ExceptSeq
<1>7. \A j \in DOMAIN next : Sound(next[j])
  BY <1>1, <1>4, <1>6 DEF Reachable
<1> HIDE DEF next
<1> QED
  BY <1>5, <1>6, <1>7, QuestionsSet DEF Reachable

LEMMA ReachableNext ==
    ASSUME Reachable, [Activity!Next]_(Activity!vars) PROVE Reachable'
<1> DEFINE questions == activity.questions
<1>0. /\ questions \in Seq(Question) /\ DOMAIN questions = 1..Len(questions) /\ Len(questions) \in Nat
      /\ \A i \in DOMAIN questions : Sound(questions[i])
  BY LenProperties DEF Reachable
<1>1. CASE Activity!addQuestion
  <2> DEFINE new == Activity!newQuestion(questionKeys)
             next == Append(questions, new)
  <2>1. Activity!setQuestions(next) /\ questionKeys' \in Nat
    BY <1>1 DEF Activity!addQuestion, Activity!newKey, Reachable
  <2>2. new \in Question /\ Sound(new)
    BY NewQuestion DEF Reachable
  <2> HIDE DEF new, questions
  <2>3. /\ next \in Seq(Question) /\ Len(next) = Len(questions) + 1
        /\ \A j \in 1..Len(questions) : next[j] = questions[j]
        /\ next[Len(questions) + 1] = new
    BY <1>0, <2>2, AppendProperties
  <2>4. ASSUME NEW j \in DOMAIN next PROVE Sound(next[j])
    <3>1. j \in 1..Len(questions) \/ j = Len(questions) + 1
      BY <1>0, <2>3, LenProperties
    <3> QED
      BY <1>0, <2>2, <2>3, <3>1
  <2> HIDE DEF next
  <2> QED
    BY <2>1, <2>3, <2>4, QuestionsSet
<1>2. ASSUME NEW i, Activity!Question(i) PROVE Reachable'
  <2>0. i \in DOMAIN questions /\ questionKeys' \in Nat
    BY <1>2 DEF Activity!Question, Reachable
  <2>1. ASSUME NEW way \in Int, Activity!setQuestions(Activity!move(questions, i, way))
        PROVE  Reachable'
    <3> DEFINE next == Activity!move(questions, i, way)
    <3>1. /\ next \in Seq(Question) /\ DOMAIN next = DOMAIN questions
          /\ \/ next = questions
             \/ i + way \in DOMAIN questions /\ \A j \in DOMAIN questions :
                  next[j] = questions[IF j = i THEN i + way ELSE IF j = i + way THEN i ELSE j]
      <4> HIDE DEF questions
      <4> QED
        BY <1>0, <2>0, MovedOne
    <3> HIDE DEF next
    <3>2. \A j \in DOMAIN next : Sound(next[j])
      BY <1>0, <2>0, <3>1
    <3> QED
      BY <2>0, <2>1, <3>1, <3>2, QuestionsSet DEF next
  <2>2. ASSUME Activity!setQuestions(Activity!removeAt(questions, i))
        PROVE  Reachable'
    <3> DEFINE next == Activity!removeAt(questions, i)
    <3>1. /\ next \in Seq(Question) /\ DOMAIN next = 1..(Len(questions) - 1)
          /\ \A j \in DOMAIN next : next[j] = questions[IF j < i THEN j ELSE j + 1]
      <4> HIDE DEF questions
      <4> QED
        BY <1>0, <2>0, RemovedOne
    <3> HIDE DEF next
    <3>2. ASSUME NEW j \in DOMAIN next PROVE Sound(next[j])
      <4>1. (IF j < i THEN j ELSE j + 1) \in DOMAIN questions
        BY <1>0, <2>0, <3>1
      <4> QED
        BY <1>0, <3>1, <4>1
    <3> QED
      BY <2>0, <2>2, <3>1, <3>2, QuestionsSet DEF next
  <2> QED
    BY <1>2, <2>1, <2>2 DEF Activity!Question
<1>3. ASSUME NEW count, Activity!setPassThreshold(count) PROVE Reachable'
  <2>1. /\ count \in Nat \ {0} /\ count <= Activity!Most(Len(questions), 1)
        /\ activity' = [activity EXCEPT !.pass_threshold = count] /\ questionKeys' = questionKeys
    BY <1>0, <1>3 DEF Activity!setPassThreshold, Activity!Most
  <2>2. /\ activity'.pass_threshold = count /\ activity'.questions = activity.questions
        /\ activity' \in [pass_threshold : Nat \ {0}, questions : Seq(Question)]
    BY <2>1 DEF Reachable
  <2> QED
    BY <2>1, <2>2 DEF Reachable
<1>4. ASSUME NEW i, Activity!Options(i) PROVE Reachable'
  <2> DEFINE options == questions[i].options
  <2>0. /\ i \in DOMAIN questions /\ questionKeys' = questionKeys
        /\ options \in Options /\ Len(options) \in Nat /\ DOMAIN options = 1..Len(options)
        /\ Len(options) \in QUESTION_LIMITS.optionsMin..QUESTION_LIMITS.optionsMax /\ OneRight(options)
    <3>1. i \in DOMAIN questions /\ questionKeys' = questionKeys
      BY <1>4 DEF Activity!Options
    <3>2. questions[i] \in Question
      BY <1>0, <3>1, ElementOfSeq
    <3>3. options \in Options
      BY <3>2 DEF Question
    <3> QED
      BY <1>0, <3>1, <3>3, LenProperties DEF Sound, Options
  <2>1. ASSUME NEW o \in DOMAIN options,
               Activity!setQuestion(i, [x \in DOMAIN options |-> x = o])
        PROVE  Reachable'
    <3> DEFINE new == [x \in DOMAIN options |-> x = o]
    <3>1. new \in Options /\ Len(new) = Len(options) /\ OneRight(new)
      <4> HIDE DEF options
      <4>1. new \in [1..Len(options) -> BOOLEAN]
        BY <2>0
      <4>2. new \in Options
        BY <2>0, <4>1, SeqDef DEF Options
      <4> QED
        BY <2>0, <4>2, LenProperties DEF OneRight, Options
    <3> HIDE DEF new
    <3> QED
      BY <2>0, <2>1, <3>1, OptionsSet DEF new
  <2>2. ASSUME NEW o \in DOMAIN options, Len(options) > QUESTION_LIMITS.optionsMin,
               Activity!setQuestion(i, Activity!removeAt(options, o))
        PROVE  Reachable'
    <3> DEFINE new == Activity!removeAt(options, o)
    <3>1. /\ new \in Options /\ Len(new) = Len(options) - 1 /\ DOMAIN new = 1..(Len(options) - 1)
          /\ \A j \in DOMAIN new : new[j] = options[IF j < o THEN j ELSE j + 1]
      <4> HIDE DEF options
      <4> QED
        BY <2>0, RemovedOne DEF Options
    <3> HIDE DEF new
    <3>2. OneRight(new)
      <4> HIDE DEF options
      <4> SUFFICES ASSUME NEW a \in DOMAIN new, NEW b \in DOMAIN new, new[a], new[b]
                   PROVE  a = b
        BY DEF OneRight
      <4> DEFINE was(j) == IF j < o THEN j ELSE j + 1
      <4>1. was(a) \in DOMAIN options /\ was(b) \in DOMAIN options
        BY <2>0, <3>1
      <4>2. options[was(a)] /\ options[was(b)]
        BY <3>1
      <4>3. was(a) = was(b)
        <5> HIDE DEF was
        <5> QED
          BY <2>0, <4>1, <4>2 DEF OneRight
      <4> QED
        BY <2>0, <3>1, <4>3
    <3>3. Len(new) \in QUESTION_LIMITS.optionsMin..QUESTION_LIMITS.optionsMax
      BY <2>0, <2>2, <3>1, QuestionLimits
    <3> QED
      BY <2>0, <2>2, <3>1, <3>2, <3>3, OptionsSet DEF new
  <2>3. ASSUME Len(options) < QUESTION_LIMITS.optionsMax,
               Activity!setQuestion(i, Append(options, FALSE))
        PROVE  Reachable'
    <3> DEFINE new == Append(options, FALSE)
    <3>1. /\ new \in Options /\ Len(new) = Len(options) + 1
          /\ \A j \in 1..Len(options) : new[j] = options[j]
          /\ new[Len(options) + 1] = FALSE
      <4> HIDE DEF options
      <4> QED
        BY <2>0, AppendProperties DEF Options
    <3> HIDE DEF new
    <3>2. DOMAIN new = 1..(Len(options) + 1)
      BY <3>1, LenProperties DEF Options
    <3>3. OneRight(new)
      <4> HIDE DEF options
      <4> SUFFICES ASSUME NEW a \in DOMAIN new, NEW b \in DOMAIN new, new[a], new[b]
                   PROVE  a = b
        BY DEF OneRight
      <4>1. a # Len(options) + 1 /\ b # Len(options) + 1
        BY <3>1
      <4>2. a \in 1..Len(options) /\ b \in 1..Len(options)
        BY <2>0, <3>2, <4>1
      <4>3. options[a] /\ options[b]
        BY <3>1, <4>2
      <4> QED
        BY <2>0, <4>2, <4>3 DEF OneRight
    <3>4. Len(new) \in QUESTION_LIMITS.optionsMin..QUESTION_LIMITS.optionsMax
      BY <2>0, <2>3, <3>1, QuestionLimits
    <3> QED
      BY <2>0, <2>3, <3>1, <3>3, <3>4, OptionsSet DEF new
  <2> QED
    BY <1>4, <2>1, <2>2, <2>3 DEF Activity!Options
<1>5. CASE UNCHANGED Activity!vars
  BY <1>5 DEF Activity!vars, Reachable
<1> QED
  BY <1>1, <1>2, <1>3, <1>4, <1>5 DEF Activity!Next

(***************************************************************************)
(* Whatever is added, moved or taken out of an activity, the threshold on  *)
(* screen is the one that is sent and can be reached, and every question   *)
(* has options enough with at most one right (ActivityEditor.tsx), for any *)
(* limits that let a question have two.                                    *)
(***************************************************************************)
THEOREM ActivitiesCanBePassed == Activity!Spec => []ActivityCanBePassed
<1>1. Reachable => ActivityCanBePassed
  <2> SUFFICES ASSUME Reachable PROVE ActivityCanBePassed
    OBVIOUS
  <2>1. Len(activity.questions) \in Nat /\ (activity.questions = <<>> <=> Len(activity.questions) = 0)
    BY LenProperties, EmptySeq DEF Reachable
  <2>2. activity.pass_threshold = Activity!toActivity(activity)
    BY <2>1 DEF Reachable, Activity!toActivity, Activity!Most, Activity!Least
  <2> QED
    BY <2>2 DEF Reachable, Sound, OneRight, ActivityCanBePassed, Activity!ActivityCanBePassed
<1> QED
  BY <1>1, ReachableInit, ReachableNext, PTL DEF Activity!Spec

-----------------------------------------------------------------------------
(* The slides.                                                             *)

Types == {"titulo", "texto", "lista", "tabla", "imagen"}
Piece == [key : Nat, kind : Types, n : Int, filled : BOOLEAN]
Slide == [key : Nat, blocks : Seq(Piece)]
Upload == [page : Nat \ {0}, block : Nat, mount : Nat, left : Seq(Slide), of : Nat]
Deck == [current : Nat \ {0}, confirming : BOOLEAN, tab : {"content", "activity"}, mount : Nat]

SlidesTyped ==
    /\ pages \in Seq(Slide)
    /\ deck \in Deck
    /\ uploads \subseteq Upload
    /\ keys \in Nat

\* No key twice, and the next ones are not in use.
Distinct(ps, limit) ==
    /\ \A p \in DOMAIN ps : ps[p].key < limit /\ \A b \in DOMAIN ps[p].blocks : ps[p].blocks[b].key < limit
    /\ \A p, q \in DOMAIN ps : ps[p].key = ps[q].key => p = q
    /\ \A p, q \in DOMAIN ps : \A b \in DOMAIN ps[p].blocks, c \in DOMAIN ps[q].blocks :
         ps[p].blocks[b].key = ps[q].blocks[c].key => p = q /\ b = c

(***************************************************************************)
(* The inductive invariant: the keys are distinct in the slides and in     *)
(* those that an upload may bring back, and a question is about a slide.   *)
(***************************************************************************)
SlidesInv ==
    /\ SlidesTyped
    /\ Distinct(pages, keys)
    /\ \A u \in uploads : Distinct(u.left, keys)
    /\ deck.confirming => pages # <<>>

LEMMA Kinds == Kind \subseteq Types
  BY LessonAssumption DEF Slides!SlidesAssumption, Types

LEMMA PiecesOf ==
    ASSUME NEW blocks \in Seq(Piece)
    PROVE  /\ Len(blocks) \in Nat /\ DOMAIN blocks = 1..Len(blocks)
           /\ \A b \in DOMAIN blocks : blocks[b] \in Piece /\ blocks[b].key \in Nat
<1>1. Len(blocks) \in Nat /\ DOMAIN blocks = 1..Len(blocks)
  BY LenProperties
<1>2. \A b \in DOMAIN blocks : blocks[b] \in Piece
  BY <1>1, ElementOfSeq
<1> QED
  BY <1>1, <1>2 DEF Piece

LEMMA SlidesOf ==
    ASSUME NEW ps \in Seq(Slide), NEW p \in DOMAIN ps
    PROVE  /\ ps[p] \in Slide /\ ps[p].key \in Nat /\ ps[p].blocks \in Seq(Piece)
           /\ Len(ps) \in Nat /\ DOMAIN ps = 1..Len(ps) /\ p \in 1..Len(ps)
           /\ Len(ps[p].blocks) \in Nat /\ DOMAIN ps[p].blocks = 1..Len(ps[p].blocks)
           /\ \A b \in DOMAIN ps[p].blocks : ps[p].blocks[b] \in Piece /\ ps[p].blocks[b].key \in Nat
<1>1. Len(ps) \in Nat /\ DOMAIN ps = 1..Len(ps)
  BY LenProperties
<1>2. ps[p] \in Slide
  BY <1>1, ElementOfSeq
<1>3. ps[p].key \in Nat /\ ps[p].blocks \in Seq(Piece)
  BY <1>2 DEF Slide
<1> QED
  BY <1>1, <1>2, <1>3, PiecesOf

LEMMA MoreKeys ==
    ASSUME NEW ps \in Seq(Slide), NEW limit \in Nat, NEW next \in Nat, Distinct(ps, limit), limit <= next
    PROVE  Distinct(ps, next)
<1>1. \A p \in DOMAIN ps : ps[p].key \in Nat /\ \A b \in DOMAIN ps[p].blocks : ps[p].blocks[b].key \in Nat
  BY SlidesOf
<1> QED
  BY <1>1 DEF Distinct

\* A slide with new keys.
Fresh(new, limit, next) ==
    /\ limit <= new.key /\ new.key < next
    /\ \A b \in DOMAIN new.blocks : limit <= new.blocks[b].key /\ new.blocks[b].key < next
    /\ \A b, c \in DOMAIN new.blocks : new.blocks[b].key = new.blocks[c].key => b = c

LEMMA SlideAdded ==
    ASSUME NEW ps \in Seq(Slide), NEW limit \in Nat, NEW next \in Nat, Distinct(ps, limit), limit <= next,
           NEW i \in 1..Len(ps) + 1, NEW new \in Slide, Fresh(new, limit, next)
    PROVE  Slides!InsertAt(ps, i, new) \in Seq(Slide) /\ Distinct(Slides!InsertAt(ps, i, new), next)
<1> DEFINE more == Slides!InsertAt(ps, i, new)
           old(j) == IF j < i THEN j ELSE j - 1
<1>1. /\ more \in Seq(Slide) /\ DOMAIN more = 1..Len(ps) + 1
      /\ \A j \in DOMAIN more : more[j] = IF j = i THEN new ELSE ps[IF j < i THEN j ELSE j - 1]
  BY InsertedOne
<1>2. Len(ps) \in Nat /\ DOMAIN ps = 1..Len(ps)
  BY LenProperties
<1> HIDE DEF more
<1>3. /\ more[i] = new
      /\ \A j \in DOMAIN more : j # i => old(j) \in DOMAIN ps /\ more[j] = ps[old(j)]
      /\ \A j, k \in DOMAIN more : j # i /\ k # i /\ old(j) = old(k) => j = k
  BY <1>1, <1>2
<1> HIDE DEF old
<1>4. \A p \in DOMAIN ps : ps[p].key \in Nat /\ \A b \in DOMAIN ps[p].blocks : ps[p].blocks[b].key \in Nat
  BY SlidesOf
<1>5. new.key \in Nat /\ \A b \in DOMAIN new.blocks : new.blocks[b].key \in Nat
  <2>1. new.key \in Nat /\ new.blocks \in Seq(Piece)
    BY DEF Slide
  <2> QED
    BY <2>1, PiecesOf
<1>6. ASSUME NEW p \in DOMAIN more
      PROVE  more[p].key < next /\ \A b \in DOMAIN more[p].blocks : more[p].blocks[b].key < next
  <2>1. CASE p = i
    BY <1>3, <2>1 DEF Fresh
  <2>2. CASE p # i
    BY <1>3, <1>4, <2>2 DEF Distinct
  <2> QED
    BY <2>1, <2>2
<1>7. ASSUME NEW p \in DOMAIN more, NEW q \in DOMAIN more, more[p].key = more[q].key
      PROVE  p = q
  <2>1. CASE p = i /\ q # i
    BY <1>3, <1>4, <1>5, <1>7, <2>1 DEF Distinct, Fresh
  <2>2. CASE p # i /\ q = i
    BY <1>3, <1>4, <1>5, <1>7, <2>2 DEF Distinct, Fresh
  <2>3. CASE p # i /\ q # i
    BY <1>3, <1>7, <2>3 DEF Distinct
  <2> QED
    BY <2>1, <2>2, <2>3
<1>8. ASSUME NEW p \in DOMAIN more, NEW q \in DOMAIN more, NEW b \in DOMAIN more[p].blocks, NEW c \in DOMAIN more[q].blocks,
             more[p].blocks[b].key = more[q].blocks[c].key
      PROVE  p = q /\ b = c
  <2>1. CASE p = i /\ q # i
    BY <1>3, <1>4, <1>5, <1>8, <2>1 DEF Distinct, Fresh
  <2>2. CASE p # i /\ q = i
    BY <1>3, <1>4, <1>5, <1>8, <2>2 DEF Distinct, Fresh
  <2>3. CASE p # i /\ q # i
    BY <1>3, <1>8, <2>3 DEF Distinct
  <2>4. CASE p = i /\ q = i
    BY <1>3, <1>8, <2>4 DEF Fresh
  <2> QED
    BY <2>1, <2>2, <2>3, <2>4
<1> QED
  BY <1>1, <1>6, <1>7, <1>8 DEF Distinct, more

\* Other blocks in one slide, with keys that it had, or new ones.
LEMMA BlocksChanged ==
    ASSUME NEW ps \in Seq(Slide), NEW limit \in Nat, NEW next \in Nat, Distinct(ps, limit), limit <= next,
           NEW i \in DOMAIN ps, NEW blocks \in Seq(Piece),
           \A b \in DOMAIN blocks :
             /\ blocks[b].key < next
             /\ blocks[b].key >= limit \/ \E c \in DOMAIN ps[i].blocks : blocks[b].key = ps[i].blocks[c].key,
           \A b, c \in DOMAIN blocks : blocks[b].key = blocks[c].key => b = c
    PROVE  LET qs == [ps EXCEPT ![i] = [ps[i] EXCEPT !.blocks = blocks]] IN
           qs \in Seq(Slide) /\ Distinct(qs, next)
<1> DEFINE new == [ps[i] EXCEPT !.blocks = blocks]
           qs == [ps EXCEPT ![i] = new]
<1>1. /\ ps[i] \in Slide /\ i \in 1..Len(ps) /\ DOMAIN ps = 1..Len(ps)
      /\ \A p \in DOMAIN ps : ps[p].key \in Nat /\ \A b \in DOMAIN ps[p].blocks : ps[p].blocks[b].key \in Nat
  BY SlidesOf
<1>2. new \in Slide /\ new.key = ps[i].key /\ new.blocks = blocks
  BY <1>1 DEF Slide
<1> HIDE DEF new
<1>3. qs \in Seq(Slide) /\ Len(qs) = Len(ps) /\ \A j \in 1..Len(ps) : qs[j] = IF j = i THEN new ELSE ps[j]
  BY <1>1, <1>2, ExceptSeq
<1>4. DOMAIN qs = DOMAIN ps
  BY <1>1, <1>3
<1> HIDE DEF qs
<1>5. qs[i] = new /\ \A p \in DOMAIN ps : p # i => qs[p] = ps[p]
  BY <1>1, <1>3
<1>6. \A b \in DOMAIN blocks : blocks[b].key \in Nat
  BY PiecesOf
<1>7. ASSUME NEW p \in DOMAIN qs
      PROVE  qs[p].key < next /\ \A b \in DOMAIN qs[p].blocks : qs[p].blocks[b].key < next
  <2>1. ps[p].key < next
    BY <1>1, <1>4 DEF Distinct
  <2>2. CASE p = i
    BY <1>2, <1>5, <2>1, <2>2
  <2>3. CASE p # i
    BY <1>1, <1>4, <1>5, <2>3 DEF Distinct
  <2> QED
    BY <2>2, <2>3
<1>8. ASSUME NEW p \in DOMAIN qs, NEW q \in DOMAIN qs, qs[p].key = qs[q].key
      PROVE  p = q
  <2>1. qs[p].key = ps[p].key /\ qs[q].key = ps[q].key
    BY <1>2, <1>4, <1>5
  <2> QED
    BY <1>4, <1>8, <2>1 DEF Distinct
<1>9. ASSUME NEW q \in DOMAIN ps, q # i, NEW b \in DOMAIN blocks, NEW c \in DOMAIN ps[q].blocks
      PROVE  blocks[b].key # ps[q].blocks[c].key
  <2>1. CASE blocks[b].key >= limit
    BY <1>1, <1>6, <1>9, <2>1 DEF Distinct
  <2>2. CASE ~(blocks[b].key >= limit)
    <3>1. PICK d \in DOMAIN ps[i].blocks : blocks[b].key = ps[i].blocks[d].key
      BY <2>2
    <3> QED
      BY <1>9, <3>1 DEF Distinct
  <2> QED
    BY <2>1, <2>2
<1>10. ASSUME NEW p \in DOMAIN qs, NEW q \in DOMAIN qs, NEW b \in DOMAIN qs[p].blocks, NEW c \in DOMAIN qs[q].blocks,
              qs[p].blocks[b].key = qs[q].blocks[c].key
       PROVE  p = q /\ b = c
  <2>1. CASE p = i /\ q # i
    BY <1>2, <1>4, <1>5, <1>9, <1>10, <2>1
  <2>2. CASE p # i /\ q = i
    BY <1>2, <1>4, <1>5, <1>9, <1>10, <2>2
  <2>3. CASE p # i /\ q # i
    BY <1>4, <1>5, <1>10, <2>3 DEF Distinct
  <2>4. CASE p = i /\ q = i
    BY <1>2, <1>5, <1>10, <2>4
  <2> QED
    BY <2>1, <2>2, <2>3, <2>4
<1> QED
  BY <1>3, <1>7, <1>8, <1>10 DEF Distinct, qs, new

LEMMA NewPiece ==
    ASSUME NEW k \in Nat, NEW kind \in Types
    PROVE  Slides!emptyBlock(k, kind) \in Piece /\ Slides!emptyBlock(k, kind).key = k
<1> DEFINE n == CASE kind = "lista" -> 1 [] kind = "tabla" -> 2 [] OTHER -> 0
<1>1. n \in Int
  BY DEF Types
<1>2. Slides!emptyBlock(k, kind) = [key |-> k, kind |-> kind, n |-> n, filled |-> FALSE]
  BY DEF Slides!emptyBlock, Slides!Block
<1> HIDE DEF n
<1> QED
  BY <1>1, <1>2 DEF Piece

\* The two ways a slide comes: an empty one, and a copy.
LEMMA EmptyIsFresh ==
    ASSUME NEW k \in Nat
    PROVE  Slides!emptyPage(k) \in Slide /\ Fresh(Slides!emptyPage(k), k, k + 3)
<1> DEFINE a == Slides!emptyBlock(k + 1, "titulo")
           c == Slides!emptyBlock(k + 2, "texto")
           two == <<a, c>>
           new == [key |-> k, blocks |-> two]
<1>1. a \in Piece /\ a.key = k + 1 /\ c \in Piece /\ c.key = k + 2
  BY NewPiece DEF Types
<1>2. Slides!emptyPage(k) = new
  BY DEF Slides!emptyPage
<1> HIDE DEF a, c
<1>3. two \in Seq(Piece) /\ DOMAIN two = 1..2 /\ two[1] = a /\ two[2] = c
  BY <1>1
<1> HIDE DEF two
<1>4. new \in Slide /\ new.key = k /\ new.blocks = two
  BY <1>3 DEF Slide
<1> HIDE DEF new
<1>5. ASSUME NEW b \in DOMAIN two PROVE two[b].key = k + b /\ b \in {1, 2}
  <2>1. b = 1 \/ b = 2
    BY <1>3
  <2> QED
    BY <1>1, <1>3, <2>1
<1> QED
  BY <1>2, <1>4, <1>5 DEF Fresh

LEMMA CopyIsFresh ==
    ASSUME NEW p \in Slide, NEW k \in Nat
    PROVE  /\ Slides!duplicate(p, k) \in Slide
           /\ Fresh(Slides!duplicate(p, k), k, k + (1 + Len(p.blocks)))
<1> DEFINE copy(i) == [p.blocks[i] EXCEPT !.key = k + i]
           blocks == [i \in DOMAIN p.blocks |-> copy(i)]
           new == [key |-> k, blocks |-> blocks]
<1>1. p.blocks \in Seq(Piece)
  BY DEF Slide
<1>2. Len(p.blocks) \in Nat /\ DOMAIN p.blocks = 1..Len(p.blocks) /\ \A b \in DOMAIN p.blocks : p.blocks[b] \in Piece
  BY <1>1, PiecesOf
<1>3. ASSUME NEW i \in DOMAIN p.blocks PROVE copy(i) \in Piece /\ copy(i).key = k + i
  <2>1. p.blocks[i] \in Piece /\ k + i \in Nat
    BY <1>2
  <2> QED
    BY <2>1 DEF Piece
<1>4. Slides!duplicate(p, k) = new
  BY DEF Slides!duplicate
<1> HIDE DEF copy
<1>5. blocks \in Seq(Piece) /\ DOMAIN blocks = 1..Len(p.blocks) /\ \A b \in DOMAIN blocks : blocks[b].key = k + b
  BY <1>2, <1>3
<1> HIDE DEF blocks
<1>6. new \in Slide /\ new.key = k /\ new.blocks = blocks
  BY <1>5 DEF Slide
<1> HIDE DEF new
<1> QED
  BY <1>2, <1>4, <1>5, <1>6 DEF Fresh

LEMMA SameLists ==
    ASSUME NEW items, NEW i, NEW way
    PROVE  /\ Slides!move(items, i, way) = Activity!move(items, i, way)
           /\ Slides!removeAt(items, i) = Activity!removeAt(items, i)
  BY DEF Slides!move, Activity!move, Slides!removeAt, Activity!removeAt, Slides!RemoveAt, Activity!RemoveAt

-----------------------------------------------------------------------------
(* The steps of the slides.                                                *)

LEMMA OnScreenSlide ==
    ASSUME SlidesTyped, pages # <<>>
    PROVE  Slides!index \in DOMAIN pages /\ Slides!page = pages[Slides!index]
<1>1. Len(pages) \in Nat /\ DOMAIN pages = 1..Len(pages) /\ Len(pages) # 0
  BY LenProperties, EmptySeq DEF SlidesTyped
<1>2. deck.current \in Nat \ {0}
  BY DEF SlidesTyped, Deck
<1> QED
  BY <1>1, <1>2 DEF Slides!index, Slides!page, Slides!Least, Slides!Most

\* What is left to see of a step that changes the slides and no upload.
LEMMA SlidesChanged ==
    ASSUME SlidesInv, pages' \in Seq(Slide), keys' \in Nat, keys <= keys', Distinct(pages', keys'),
           uploads' \subseteq uploads, deck' \in Deck, deck'.confirming => pages' # <<>>
    PROVE  SlidesInv'
<1>1. keys \in Nat /\ \A u \in uploads : u.left \in Seq(Slide)
  BY DEF SlidesInv, SlidesTyped, Upload
<1>2. \A u \in uploads : Distinct(u.left, keys')
  BY <1>1, MoreKeys DEF SlidesInv
<1> QED
  BY <1>2 DEF SlidesInv, SlidesTyped

\* Other blocks in the slide on screen.
LEMMA BlocksSet ==
    ASSUME SlidesInv, NEW blocks \in Seq(Piece), Slides!setBlocks(blocks), keys' \in Nat, keys <= keys',
           \A b \in DOMAIN blocks :
             /\ blocks[b].key < keys'
             /\ \/ blocks[b].key >= keys
                \/ \E c \in DOMAIN pages[Slides!index].blocks : blocks[b].key = pages[Slides!index].blocks[c].key,
           \A b, c \in DOMAIN blocks : blocks[b].key = blocks[c].key => b = c
    PROVE  SlidesInv'
<1> DEFINE i == Slides!index
<1>1. pages # <<>> /\ deck' = deck /\ uploads' = uploads /\ ~deck.confirming
  BY DEF Slides!setBlocks, Slides!OnSlide, Slides!OnSlides
<1>2. i \in DOMAIN pages /\ Slides!page = pages[i] /\ pages \in Seq(Slide) /\ keys \in Nat
  BY <1>1, OnScreenSlide DEF SlidesInv, SlidesTyped
<1>3. pages' = [pages EXCEPT ![i] = [pages[i] EXCEPT !.blocks = blocks]]
  BY <1>2 DEF Slides!setBlocks, Slides!replaceAt
<1> HIDE DEF i
<1>4. pages' \in Seq(Slide) /\ Distinct(pages', keys')
  <2>1. \A b \in DOMAIN blocks :
             /\ blocks[b].key < keys'
             /\ blocks[b].key >= keys \/ \E c \in DOMAIN pages[i].blocks : blocks[b].key = pages[i].blocks[c].key
    BY DEF i
  <2> QED
    BY <1>2, <1>3, <2>1, BlocksChanged DEF SlidesInv
<1> QED
  BY <1>1, <1>4, SlidesChanged DEF SlidesInv, SlidesTyped

\* Blocks that were there, in some order.
LEMMA BlocksRemain ==
    ASSUME SlidesInv, NEW blocks \in Seq(Piece), Slides!setBlocks(blocks), UNCHANGED keys,
           NEW from \in [DOMAIN blocks -> DOMAIN Slides!page.blocks],
           \A b \in DOMAIN blocks : blocks[b].key = Slides!page.blocks[from[b]].key,
           \A b, c \in DOMAIN blocks : from[b] = from[c] => b = c
    PROVE  SlidesInv'
<1> DEFINE i == Slides!index
<1>1. pages # <<>> /\ pages \in Seq(Slide) /\ keys \in Nat
  BY DEF Slides!setBlocks, Slides!OnSlide, SlidesInv, SlidesTyped
<1>2. i \in DOMAIN pages /\ Slides!page = pages[i]
  BY <1>1, OnScreenSlide DEF SlidesInv
<1> HIDE DEF i
<1>3. \A b \in DOMAIN pages[i].blocks : pages[i].blocks[b].key < keys
  BY <1>2 DEF SlidesInv, Distinct
<1>4. \A b, c \in DOMAIN pages[i].blocks : pages[i].blocks[b].key = pages[i].blocks[c].key => b = c
  BY <1>2 DEF SlidesInv, Distinct
<1>5. \A b \in DOMAIN blocks : /\ from[b] \in DOMAIN pages[i].blocks /\ blocks[b].key = pages[i].blocks[from[b]].key
                               /\ blocks[b].key < keys
  BY <1>2, <1>3
<1>6. \A b, c \in DOMAIN blocks : blocks[b].key = blocks[c].key => b = c
  BY <1>4, <1>5
<1> QED
  BY <1>1, <1>5, <1>6, BlocksSet DEF i


\* A slide more, with new keys.
LEMMA SlideComes ==
    ASSUME SlidesInv, NEW i \in 1..Len(pages) + 1, NEW new \in Slide, NEW n \in Nat, Fresh(new, keys, keys + n),
           pages' = Slides!InsertAt(pages, i, new), keys' = keys + n, deck' \in Deck, ~deck'.confirming, uploads' = uploads
    PROVE  SlidesInv'
<1>1. pages \in Seq(Slide) /\ keys \in Nat /\ keys + n \in Nat /\ keys <= keys + n /\ Distinct(pages, keys)
  BY DEF SlidesInv, SlidesTyped
<1>2. pages' \in Seq(Slide) /\ Distinct(pages', keys')
  BY <1>1, SlideAdded
<1> QED
  BY <1>1, <1>2, SlidesChanged

LEMMA Removal ==
    ASSUME SlidesInv, pages # <<>>, pages' = Slides!removeAt(pages, Slides!index), UNCHANGED keys, uploads' = uploads,
           deck' \in Deck, ~deck'.confirming
    PROVE  SlidesInv'
<1> DEFINE i == Slides!index
           from == [j \in DOMAIN pages' |-> IF j < i THEN j ELSE j + 1]
<1>1. pages \in Seq(Slide) /\ keys \in Nat /\ Distinct(pages, keys) /\ i \in DOMAIN pages
  BY OnScreenSlide DEF SlidesInv, SlidesTyped
<1>2. Len(pages) \in Nat /\ DOMAIN pages = 1..Len(pages)
  BY <1>1, LenProperties
<1>3. pages' = Activity!removeAt(pages, i)
  BY SameLists
<1> HIDE DEF i
<1>4. /\ pages' \in Seq(Slide) /\ DOMAIN pages' = 1..(Len(pages) - 1)
      /\ \A j \in DOMAIN pages' : pages'[j] = pages[IF j < i THEN j ELSE j + 1]
  BY <1>1, <1>3, RemovedOne
<1>5. /\ from \in [DOMAIN pages' -> DOMAIN pages]
      /\ \A j, k \in DOMAIN pages' : from[j] = from[k] => j = k
      /\ \A j \in DOMAIN pages' : pages'[j] = pages[from[j]]
  BY <1>1, <1>2, <1>4
<1> HIDE DEF from
<1>6. Distinct(pages', keys)
  BY <1>1, <1>5 DEF Distinct
<1> QED
  BY <1>1, <1>4, <1>6, SlidesChanged

LEMMA MoveKeeps ==
    ASSUME SlidesInv, NEW way \in {-1, 1}, Slides!moveSlide(way)
    PROVE  SlidesInv'
<1> DEFINE i == Slides!index
           from == [j \in DOMAIN pages |-> IF j = i THEN i + way ELSE IF j = i + way THEN i ELSE j]
<1>1. /\ pages # <<>> /\ ~deck.confirming /\ i + way \in DOMAIN pages /\ UNCHANGED <<uploads, uploading, keys>>
      /\ pages' = Slides!move(pages, i, way) /\ deck' = [deck EXCEPT !.current = i + way]
  BY DEF Slides!moveSlide, Slides!OnSlide, Slides!OnSlides
<1>2. pages \in Seq(Slide) /\ keys \in Nat /\ Distinct(pages, keys) /\ i \in DOMAIN pages /\ deck \in Deck
  BY <1>1, OnScreenSlide DEF SlidesInv, SlidesTyped
<1>3. Len(pages) \in Nat /\ DOMAIN pages = 1..Len(pages)
  BY <1>2, LenProperties
<1>4. pages' = Activity!move(pages, i, way)
  BY <1>1, SameLists
<1> HIDE DEF i
<1>5. /\ pages' \in Seq(Slide) /\ DOMAIN pages' = DOMAIN pages
      /\ pages' = pages \/ \A j \in DOMAIN pages :
           pages'[j] = pages[IF j = i THEN i + way ELSE IF j = i + way THEN i ELSE j]
  BY <1>2, <1>4, MovedOne
<1>6. CASE pages' = pages
  BY <1>1, <1>2, <1>3, <1>6, SlidesChanged DEF Deck
<1>7. CASE \A j \in DOMAIN pages : pages'[j] = pages[IF j = i THEN i + way ELSE IF j = i + way THEN i ELSE j]
  <2>1. /\ from \in [DOMAIN pages' -> DOMAIN pages]
        /\ \A j, k \in DOMAIN pages' : from[j] = from[k] => j = k
        /\ \A j \in DOMAIN pages' : pages'[j] = pages[from[j]]
    BY <1>1, <1>2, <1>3, <1>5, <1>7
  <2> HIDE DEF from
  <2>2. Distinct(pages', keys)
    BY <1>2, <2>1 DEF Distinct
  <2>3. deck' \in Deck /\ ~deck'.confirming
    BY <1>1, <1>2, <1>3 DEF Deck
  <2> QED
    BY <1>1, <1>2, <1>5, <2>2, <2>3, SlidesChanged
<1> QED
  BY <1>5, <1>6, <1>7

LEMMA AddKeeps == ASSUME SlidesInv, Slides!addSlide PROVE SlidesInv'
<1> DEFINE new == Slides!emptyPage(keys)
<1>1. ~deck.confirming /\ keys' = keys + 3 /\ uploads' = uploads
  BY DEF Slides!addSlide, Slides!OnSlides, Slides!newKeys
<1>2. pages \in Seq(Slide) /\ deck \in Deck /\ keys \in Nat
  BY DEF SlidesInv, SlidesTyped
<1>3. new \in Slide /\ Fresh(new, keys, keys + 3)
  BY <1>2, EmptyIsFresh
<1>4. CASE pages = <<>>
  <2>1. pages' = <<new>> /\ deck' = [deck EXCEPT !.current = 1]
    BY <1>4 DEF Slides!addSlide
  <2> HIDE DEF new
  <2>2. pages' \in Seq(Slide) /\ DOMAIN pages' = {1} /\ pages'[1] = new
    BY <1>3, <2>1
  <2>3. Distinct(pages', keys')
    BY <1>1, <1>3, <2>2 DEF Distinct, Fresh
  <2>4. deck' \in Deck /\ ~deck'.confirming
    BY <1>1, <1>2, <2>1 DEF Deck
  <2> QED
    BY <1>1, <1>2, <2>2, <2>3, <2>4, SlidesChanged
<1>5. CASE pages # <<>>
  <2> DEFINE i == Slides!index
  <2>1. pages' = Slides!InsertAt(pages, i + 1, new) /\ deck' = [deck EXCEPT !.current = i + 1]
    BY <1>5 DEF Slides!addSlide
  <2>2. i \in DOMAIN pages /\ DOMAIN pages = 1..Len(pages) /\ Len(pages) \in Nat
    BY <1>2, <1>5, OnScreenSlide, LenProperties DEF SlidesInv
  <2> HIDE DEF i, new
  <2>3. i + 1 \in 1..Len(pages) + 1 /\ deck' \in Deck /\ ~deck'.confirming
    BY <1>1, <1>2, <2>1, <2>2 DEF Deck
  <2> QED
    BY <1>1, <1>3, <2>1, <2>3, SlideComes
<1> QED
  BY <1>4, <1>5

LEMMA DuplicateKeeps == ASSUME SlidesInv, Slides!duplicateSlide PROVE SlidesInv'
<1> DEFINE i == Slides!index
           new == Slides!duplicate(pages[i], keys)
           n == 1 + Len(pages[i].blocks)
<1>1. pages # <<>> /\ ~deck.confirming /\ uploads' = uploads /\ deck' = [deck EXCEPT !.current = i + 1]
  BY DEF Slides!duplicateSlide, Slides!OnSlide, Slides!OnSlides
<1>2. pages \in Seq(Slide) /\ deck \in Deck /\ keys \in Nat /\ i \in DOMAIN pages /\ Slides!page = pages[i]
  BY <1>1, OnScreenSlide DEF SlidesInv, SlidesTyped
<1>3. pages' = Slides!InsertAt(pages, i + 1, new) /\ keys' = keys + n
  BY <1>2 DEF Slides!duplicateSlide, Slides!newKeys
<1>4. pages[i] \in Slide /\ n \in Nat /\ DOMAIN pages = 1..Len(pages) /\ Len(pages) \in Nat
  BY <1>2, SlidesOf
<1>5. new \in Slide /\ Fresh(new, keys, keys + n)
  BY <1>2, <1>4, CopyIsFresh
<1> HIDE DEF i, new, n
<1>6. i + 1 \in 1..Len(pages) + 1 /\ deck' \in Deck /\ ~deck'.confirming
  BY <1>1, <1>2, <1>4 DEF Deck
<1> QED
  BY <1>1, <1>3, <1>4, <1>5, <1>6, SlideComes

LEMMA RemoveKeeps == ASSUME SlidesInv, Slides!askRemove \/ Slides!removeSlide PROVE SlidesInv'
<1> DEFINE i == Slides!index
<1>1. pages # <<>> /\ deck \in Deck /\ pages \in Seq(Slide)
  BY DEF Slides!askRemove, Slides!removeSlide, Slides!OnSlide, SlidesInv, SlidesTyped
<1>2. i \in DOMAIN pages /\ DOMAIN pages = 1..Len(pages) /\ Len(pages) \in Nat
  BY <1>1, OnScreenSlide, LenProperties DEF SlidesInv
<1>3. Slides!Most(1, i - 1) \in Nat \ {0}
  BY <1>2 DEF Slides!Most
<1>4. CASE Slides!Removed
  <2>1. \/ deck' = [deck EXCEPT !.current = Slides!Most(1, i - 1)] /\ ~deck.confirming
        \/ deck' = [deck EXCEPT !.confirming = FALSE, !.current = Slides!Most(1, i - 1)]
        \/ deck' = [deck EXCEPT !.confirming = TRUE] /\ pages' = pages
    BY <1>4 DEF Slides!askRemove, Slides!removeSlide, Slides!OnSlide, Slides!OnSlides
  <2>2. pages' = Slides!removeAt(pages, i) /\ UNCHANGED <<uploads, uploading, keys>>
    BY <1>4 DEF Slides!Removed
  <2>3. CASE ~deck'.confirming
    <3>1. deck' \in Deck
      BY <1>1, <1>3, <2>1 DEF Deck
    <3> QED
      BY <1>1, <2>2, <2>3, <3>1, Removal
  <2>4. CASE deck' = [deck EXCEPT !.confirming = TRUE] /\ pages' = pages
    BY <1>1, <2>2, <2>4, SlidesChanged DEF SlidesInv, SlidesTyped, Deck
  <2> QED
    BY <1>1, <1>3, <2>1, <2>3, <2>4 DEF Deck
<1>5. CASE ~Slides!Removed
  <2>1. deck' = [deck EXCEPT !.confirming = TRUE] /\ UNCHANGED <<pages, uploads, uploading, keys>>
    BY <1>5 DEF Slides!askRemove, Slides!removeSlide
  <2> QED
    BY <1>1, <2>1, SlidesChanged DEF SlidesInv, SlidesTyped, Deck
<1> QED
  BY <1>4, <1>5

\* Before the last: the slide on screen and its blocks.
LEMMA BlocksOnScreen ==
    ASSUME SlidesInv, Slides!OnSlide
    PROVE  LET blocks == Slides!page.blocks IN
           /\ blocks \in Seq(Piece) /\ Len(blocks) \in Nat /\ DOMAIN blocks = 1..Len(blocks)
           /\ \A b \in DOMAIN blocks : blocks[b] \in Piece
           /\ pages # <<>> /\ pages \in Seq(Slide) /\ deck \in Deck /\ keys \in Nat
           /\ Slides!index \in DOMAIN pages /\ Slides!page = pages[Slides!index]
<1>1. pages # <<>> /\ pages \in Seq(Slide) /\ deck \in Deck /\ keys \in Nat
  BY DEF Slides!OnSlide, SlidesInv, SlidesTyped
<1>2. Slides!index \in DOMAIN pages /\ Slides!page = pages[Slides!index]
  BY <1>1, OnScreenSlide DEF SlidesInv
<1> QED
  BY <1>1, <1>2, SlidesOf

LEMMA BlockAdded == ASSUME SlidesInv, NEW kind \in Kind, Slides!addBlock(kind) PROVE SlidesInv'
<1> DEFINE old == Slides!page.blocks
           new == Slides!emptyBlock(keys, kind)
           blocks == Append(old, new)
<1>1. Slides!OnSlide /\ Slides!setBlocks(blocks) /\ keys' = keys + 1
  BY DEF Slides!addBlock, Slides!newKeys
<1>2. /\ old \in Seq(Piece) /\ Len(old) \in Nat /\ DOMAIN old = 1..Len(old) /\ keys \in Nat
      /\ Slides!index \in DOMAIN pages /\ old = pages[Slides!index].blocks
  BY <1>1, BlocksOnScreen
<1>3. new \in Piece /\ new.key = keys
  BY <1>2, Kinds, NewPiece
<1> HIDE DEF old, new
<1>4. /\ blocks \in Seq(Piece) /\ DOMAIN blocks = 1..Len(old) + 1
      /\ \A b \in DOMAIN old : blocks[b] = old[b]
      /\ blocks[Len(old) + 1] = new
  BY <1>2, <1>3
<1> HIDE DEF blocks
<1>5. \A b \in DOMAIN old : old[b].key < keys
  BY <1>2 DEF SlidesInv, Distinct
<1>6. \A b, c \in DOMAIN old : old[b].key = old[c].key => b = c
  BY <1>2 DEF SlidesInv, Distinct
<1>7. \A b \in DOMAIN old : old[b].key \in Nat
  BY <1>2, PiecesOf
<1>8. ASSUME NEW b \in DOMAIN blocks
      PROVE  /\ blocks[b].key < keys'
             /\ blocks[b].key >= keys \/ \E c \in DOMAIN old : blocks[b].key = old[c].key
  <2>1. CASE b \in DOMAIN old
    BY <1>1, <1>2, <1>4, <1>5, <1>7, <2>1
  <2>2. CASE b = Len(old) + 1
    BY <1>1, <1>2, <1>3, <1>4, <2>2
  <2> QED
    BY <1>2, <1>4, <2>1, <2>2
<1>9. ASSUME NEW b \in DOMAIN blocks, NEW c \in DOMAIN blocks, blocks[b].key = blocks[c].key
      PROVE  b = c
  BY <1>2, <1>3, <1>4, <1>5, <1>6, <1>7, <1>9
<1>10. keys' \in Nat /\ keys <= keys'
  BY <1>1, <1>2
<1>11. \A b \in DOMAIN blocks :
         /\ blocks[b].key < keys'
         /\ \/ blocks[b].key >= keys
            \/ \E c \in DOMAIN pages[Slides!index].blocks : blocks[b].key = pages[Slides!index].blocks[c].key
  BY <1>2, <1>8
<1>12. Slides!setBlocks(blocks)
  BY <1>1 DEF blocks
<1> QED
  BY <1>4, <1>9, <1>10, <1>11, <1>12, BlocksSet

LEMMA BlockChanged == ASSUME SlidesInv, NEW i, Slides!SlideBlock(i) PROVE SlidesInv'
<1> DEFINE old == Slides!page.blocks
           b0 == old[i]
<1>1. Slides!OnSlide /\ i \in DOMAIN old /\ UNCHANGED keys
  BY DEF Slides!SlideBlock
<1>2. old \in Seq(Piece) /\ Len(old) \in Nat /\ DOMAIN old = 1..Len(old) /\ b0 \in Piece
  BY <1>1, BlocksOnScreen
<1>3. PICK new \in Piece : new.key = b0.key /\ Slides!setBlocks([old EXCEPT ![i] = new])
  <2>1. /\ [b0 EXCEPT !.filled = ~@] \in Piece /\ [b0 EXCEPT !.filled = ~@].key = b0.key
        /\ [b0 EXCEPT !.n = @ + 1] \in Piece /\ [b0 EXCEPT !.n = @ + 1].key = b0.key
        /\ [b0 EXCEPT !.n = @ - 1] \in Piece /\ [b0 EXCEPT !.n = @ - 1].key = b0.key
    <3> HIDE DEF b0
    <3>1. b0.n + 1 \in Int /\ b0.n - 1 \in Int /\ (~b0.filled) \in BOOLEAN
      BY <1>2 DEF Piece
    <3>2. [b0 EXCEPT !.filled = ~@] \in Piece /\ [b0 EXCEPT !.filled = ~@].key = b0.key
      BY <1>2, <3>1 DEF Piece
    <3>3. [b0 EXCEPT !.n = @ + 1] \in Piece /\ [b0 EXCEPT !.n = @ + 1].key = b0.key
      BY <1>2, <3>1 DEF Piece
    <3>4. [b0 EXCEPT !.n = @ - 1] \in Piece /\ [b0 EXCEPT !.n = @ - 1].key = b0.key
      BY <1>2, <3>1 DEF Piece
    <3> QED
      BY <3>2, <3>3, <3>4
  <2>2. \/ Slides!setBlocks([old EXCEPT ![i] = [b0 EXCEPT !.filled = ~@]])
        \/ Slides!setBlocks([old EXCEPT ![i] = [b0 EXCEPT !.n = @ + 1]])
        \/ Slides!setBlocks([old EXCEPT ![i] = [b0 EXCEPT !.n = @ - 1]])
    BY DEF Slides!SlideBlock, Slides!replaceAt
  <2> QED
    BY <2>1, <2>2
<1> DEFINE blocks == [old EXCEPT ![i] = new]
           from == [b \in DOMAIN blocks |-> b]
<1> HIDE DEF old
<1>4. /\ blocks \in Seq(Piece) /\ DOMAIN blocks = DOMAIN old
      /\ \A b \in DOMAIN old : blocks[b] = IF b = i THEN new ELSE old[b]
  BY <1>1, <1>2
<1> HIDE DEF blocks
<1>5. /\ from \in [DOMAIN blocks -> DOMAIN old]
      /\ \A b \in DOMAIN blocks : blocks[b].key = old[from[b]].key
      /\ \A b, c \in DOMAIN blocks : from[b] = from[c] => b = c
  BY <1>3, <1>4
<1>6. Slides!setBlocks(blocks)
  BY <1>3 DEF blocks
<1> HIDE DEF from
<1> QED
  BY <1>1, <1>4, <1>5, <1>6, BlocksRemain DEF old

LEMMA BlockMoved == ASSUME SlidesInv, NEW i, Slides!BlockTools(i) PROVE SlidesInv'
<1> DEFINE old == Slides!page.blocks
<1>1. Slides!OnSlide /\ i \in DOMAIN old /\ UNCHANGED keys
  BY DEF Slides!BlockTools
<1>2. old \in Seq(Piece) /\ Len(old) \in Nat /\ DOMAIN old = 1..Len(old)
  BY <1>1, BlocksOnScreen
<1>3. ASSUME NEW way \in Int, Slides!setBlocks(Slides!move(old, i, way))
      PROVE  SlidesInv'
  <2> DEFINE blocks == Slides!move(old, i, way)
             from == [b \in DOMAIN blocks |->
                        IF blocks = old THEN b ELSE IF b = i THEN i + way ELSE IF b = i + way THEN i ELSE b]
  <2>1. blocks = Activity!move(old, i, way)
    BY SameLists
  <2>2. Slides!setBlocks(blocks)
    BY <1>3
  <2> HIDE DEF old, blocks
  <2>3. /\ blocks \in Seq(Piece) /\ DOMAIN blocks = DOMAIN old
        /\ \/ blocks = old
           \/ i + way \in DOMAIN old /\ \A b \in DOMAIN old :
                blocks[b] = old[IF b = i THEN i + way ELSE IF b = i + way THEN i ELSE b]
    BY <1>1, <1>2, <2>1, MovedOne
  <2>4. /\ from \in [DOMAIN blocks -> DOMAIN old]
        /\ \A b \in DOMAIN blocks : blocks[b].key = old[from[b]].key
        /\ \A b, c \in DOMAIN blocks : from[b] = from[c] => b = c
    BY <1>1, <1>2, <2>3
  <2> HIDE DEF from
  <2> QED
    BY <1>1, <2>2, <2>3, <2>4, BlocksRemain DEF old
<1>4. ASSUME Slides!setBlocks(Slides!removeAt(old, i))
      PROVE  SlidesInv'
  <2> DEFINE blocks == Slides!removeAt(old, i)
             from == [b \in DOMAIN blocks |-> IF b < i THEN b ELSE b + 1]
  <2>1. blocks = Activity!removeAt(old, i)
    BY SameLists
  <2>2. Slides!setBlocks(blocks)
    BY <1>4
  <2> HIDE DEF old, blocks
  <2>3. /\ blocks \in Seq(Piece) /\ DOMAIN blocks = 1..(Len(old) - 1)
        /\ \A b \in DOMAIN blocks : blocks[b] = old[IF b < i THEN b ELSE b + 1]
    BY <1>1, <1>2, <2>1, RemovedOne
  <2>4. /\ from \in [DOMAIN blocks -> DOMAIN old]
        /\ \A b \in DOMAIN blocks : blocks[b].key = old[from[b]].key
        /\ \A b, c \in DOMAIN blocks : from[b] = from[c] => b = c
    BY <1>1, <1>2, <2>3
  <2> HIDE DEF from
  <2> QED
    BY <1>1, <2>2, <2>3, <2>4, BlocksRemain DEF old
<1> QED
  BY <1>3, <1>4 DEF Slides!BlockTools

-----------------------------------------------------------------------------
(* The pictures.                                                           *)

\* What an upload leaves: the newest slides of its mount with the picture in
\* them.
LEMMA Placed ==
    ASSUME SlidesInv, NEW u \in uploads, NEW ps \in Seq(Slide), Distinct(ps, keys), u.page \in DOMAIN ps
    PROVE  LET after == Slides!placed(ps, u, keys) IN
           /\ after \in Seq(Slide) /\ Distinct(after, keys + 1)
           /\ Len(after) = Len(ps) /\ DOMAIN after = DOMAIN ps
           /\ \A p \in DOMAIN ps : \A b \in DOMAIN ps[p].blocks :
                /\ b \in DOMAIN after[p].blocks
                /\ after[p].blocks[b].key = ps[p].blocks[b].key /\ after[p].blocks[b].filled = ps[p].blocks[b].filled
                /\ ps[p].blocks[b].kind = "imagen" \/ after[p].blocks[b] = ps[p].blocks[b]
<1> DEFINE i == u.page
           old == ps[i].blocks
           new == Slides!Block(keys, "imagen", 1, FALSE)
           blocks == IF u.block = 0 THEN Append(old, new)
                     ELSE IF Slides!IsImage(ps[i], u.block) THEN [old EXCEPT ![u.block].n = 1 - @] ELSE old
           after == [ps EXCEPT ![i] = [ps[i] EXCEPT !.blocks = blocks]]
<1>1. Slides!placed(ps, u, keys) = after
  BY DEF Slides!placed, Slides!replaceAt
<1>2. u \in Upload /\ u.block \in Nat /\ keys \in Nat
  BY DEF SlidesInv, SlidesTyped, Upload
<1>3. /\ ps[i] \in Slide /\ old \in Seq(Piece) /\ Len(old) \in Nat /\ DOMAIN old = 1..Len(old)
      /\ \A b \in DOMAIN old : old[b] \in Piece /\ old[b].key \in Nat
      /\ DOMAIN ps = 1..Len(ps) /\ Len(ps) \in Nat
  BY SlidesOf
<1>4. new \in Piece /\ new.key = keys
  BY <1>2 DEF Slides!Block, Piece, Types
<1> HIDE DEF new
<1>5. /\ blocks \in Seq(Piece)
      /\ \/ DOMAIN blocks = DOMAIN old
         \/ DOMAIN blocks = 1..Len(old) + 1 /\ blocks[Len(old) + 1] = new
      /\ \A b \in DOMAIN old : /\ blocks[b].key = old[b].key /\ blocks[b].filled = old[b].filled
                               /\ old[b].kind = "imagen" \/ blocks[b] = old[b]
  <2> HIDE DEF old
  <2>1. CASE u.block = 0
    <3>1. blocks = Append(old, new)
      BY <2>1
    <3> HIDE DEF blocks
    <3>2. /\ blocks \in Seq(Piece) /\ Len(blocks) = Len(old) + 1 /\ blocks[Len(old) + 1] = new
          /\ \A b \in 1..Len(old) : blocks[b] = old[b]
      BY <1>3, <1>4, <3>1, AppendProperties
    <3>3. DOMAIN blocks = 1..Len(old) + 1
      BY <3>2, LenProperties
    <3> QED
      BY <1>3, <3>2, <3>3
  <2>2. CASE u.block # 0 /\ Slides!IsImage(ps[i], u.block)
    <3> DEFINE b0 == old[u.block]
               b1 == [b0 EXCEPT !.n = 1 - @]
    <3>1. u.block \in DOMAIN old /\ b0.kind = "imagen"
      BY <2>2 DEF Slides!IsImage, old
    <3>2. b0 \in Piece
      BY <1>3, <3>1
    <3> HIDE DEF b0
    <3>3. b1 \in Piece /\ b1.key = b0.key /\ b1.filled = b0.filled
      BY <3>2 DEF Piece
    <3>4. blocks = [old EXCEPT ![u.block] = b1]
      BY <2>2 DEF b0
    <3> HIDE DEF b1
    <3>5. /\ blocks \in Seq(Piece) /\ DOMAIN blocks = DOMAIN old
          /\ \A b \in DOMAIN old : blocks[b] = IF b = u.block THEN b1 ELSE old[b]
      <4> HIDE DEF blocks
      <4>1. u.block \in 1..Len(old)
        BY <1>3, <3>1
      <4>2. blocks \in Seq(Piece) /\ Len(blocks) = Len(old) /\ \A b \in 1..Len(old) : blocks[b] = IF b = u.block THEN b1 ELSE old[b]
        BY <1>3, <3>3, <3>4, <4>1, ExceptSeq
      <4> QED
        BY <1>3, <4>2, LenProperties
    <3> HIDE DEF blocks
    <3> QED
      BY <3>1, <3>3, <3>5 DEF b0
  <2>3. CASE u.block # 0 /\ ~Slides!IsImage(ps[i], u.block)
    BY <1>3, <2>3
  <2> QED
    BY <2>1, <2>2, <2>3
<1> HIDE DEF blocks
<1>6. \A b \in DOMAIN old : old[b].key < keys
  BY DEF Distinct
<1>7. \A b, c \in DOMAIN old : old[b].key = old[c].key => b = c
  BY DEF Distinct
<1>8. ASSUME NEW b \in DOMAIN blocks
      PROVE  /\ blocks[b].key < keys + 1
             /\ blocks[b].key >= keys \/ \E c \in DOMAIN old : blocks[b].key = old[c].key
  <2> HIDE DEF old
  <2>1. CASE b \in DOMAIN old
    BY <1>2, <1>3, <1>5, <1>6, <2>1
  <2>2. CASE b \notin DOMAIN old
    <3>1. blocks[b] = new
      BY <1>3, <1>5, <2>2
    <3> QED
      BY <1>2, <1>4, <3>1
  <2> QED
    BY <2>1, <2>2
<1>9. ASSUME NEW b \in DOMAIN blocks, NEW c \in DOMAIN blocks, blocks[b].key = blocks[c].key
      PROVE  b = c
  <2> HIDE DEF old
  <2>1. \A d \in DOMAIN blocks : d \in DOMAIN old \/ (d = Len(old) + 1 /\ blocks[d].key = keys)
    BY <1>3, <1>4, <1>5
  <2>2. \A d \in DOMAIN old : blocks[d].key = old[d].key /\ old[d].key \in Nat /\ old[d].key < keys
    BY <1>3, <1>5, <1>6
  <2>3. CASE b \in DOMAIN old /\ c \in DOMAIN old
    BY <1>7, <1>9, <2>2, <2>3
  <2>4. CASE ~(b \in DOMAIN old /\ c \in DOMAIN old)
    BY <1>2, <1>9, <2>1, <2>2, <2>4
  <2> QED
    BY <2>3, <2>4
<1>10. after \in Seq(Slide) /\ Distinct(after, keys + 1)
  <2>1. keys + 1 \in Nat /\ keys <= keys + 1
    BY <1>2
  <2> QED
    BY <1>2, <1>5, <1>8, <1>9, <2>1, BlocksChanged
<1>11. Len(after) = Len(ps) /\ DOMAIN after = DOMAIN ps
  <2>1. [ps[i] EXCEPT !.blocks = blocks] \in Slide /\ i \in 1..Len(ps)
    BY <1>3, <1>5 DEF Slide
  <2> QED
    BY <2>1, ExceptSeq
<1>12. ASSUME NEW p \in DOMAIN ps, NEW b \in DOMAIN ps[p].blocks
       PROVE  /\ b \in DOMAIN after[p].blocks
              /\ after[p].blocks[b].key = ps[p].blocks[b].key /\ after[p].blocks[b].filled = ps[p].blocks[b].filled
              /\ ps[p].blocks[b].kind = "imagen" \/ after[p].blocks[b] = ps[p].blocks[b]
  <2>1. CASE p = i
    <3>1. after[p].blocks = blocks
      BY <1>3, <2>1 DEF Slide
    <3>2. b \in DOMAIN blocks
      BY <1>3, <1>5, <2>1
    <3> HIDE DEF after
    <3> QED
      BY <1>5, <2>1, <3>1, <3>2
  <2>2. CASE p # i
    BY <2>2
  <2> QED
    BY <2>1, <2>2
<1> QED
  BY <1>1, <1>10, <1>11, <1>12

LEMMA UploadEnds == ASSUME SlidesInv, NEW u \in uploads, NEW ok \in BOOLEAN, Slides!placeImage(u, ok) PROVE SlidesInv'
<1>1. uploads' = uploads \ {u} /\ deck' = deck
  BY DEF Slides!placeImage
<1>2. /\ pages \in Seq(Slide) /\ u.left \in Seq(Slide) /\ keys \in Nat /\ deck \in Deck
      /\ Distinct(pages, keys) /\ Distinct(u.left, keys)
  BY DEF SlidesInv, SlidesTyped, Upload
<1> DEFINE ps == Slides!latest(u)
<1>3. ps \in Seq(Slide) /\ Distinct(ps, keys)
  BY <1>2 DEF Slides!latest
<1>4. CASE UNCHANGED <<pages, keys>>
  BY <1>1, <1>2, <1>4, SlidesChanged DEF SlidesInv
<1>5. CASE ~UNCHANGED <<pages, keys>>
  <2>1. u.page \in DOMAIN ps /\ pages' = Slides!placed(ps, u, keys) /\ keys' = keys + 1
    BY <1>5 DEF Slides!placeImage, Slides!newKeys
  <2> HIDE DEF ps
  <2>2. pages' \in Seq(Slide) /\ Distinct(pages', keys') /\ DOMAIN pages' = DOMAIN ps
    BY <1>3, <2>1, Placed
  <2>3. pages' # <<>>
    BY <2>1, <2>2
  <2>4. keys' \in Nat /\ keys <= keys'
    BY <1>2, <2>1
  <2> QED
    BY <1>1, <1>2, <2>2, <2>3, <2>4, SlidesChanged
<1> QED
  BY <1>4, <1>5

LEMMA UploadStarts == ASSUME SlidesInv, Slides!pickNewImage \/ \E b \in DOMAIN Slides!page.blocks : Slides!pickImage(b)
                      PROVE  SlidesInv'
<1> DEFINE i == Slides!index
<1>1. Slides!OnSlide /\ UNCHANGED <<pages, deck, keys>>
  BY DEF Slides!pickNewImage, Slides!pickImage
<1>2. /\ pages \in Seq(Slide) /\ i \in DOMAIN pages /\ Slides!page = pages[i] /\ deck \in Deck /\ keys \in Nat
      /\ Distinct(pages, keys)
  BY <1>1, BlocksOnScreen DEF SlidesInv
<1>3. PICK b \in Nat : uploads' = uploads \cup {Slides!place(i, b)} /\ (b = 0 \/ b \in DOMAIN pages[i].blocks)
  <2>1. CASE Slides!pickNewImage
    BY <2>1 DEF Slides!pickNewImage
  <2>2. ASSUME NEW b \in DOMAIN Slides!page.blocks, Slides!pickImage(b)
        PROVE  b \in Nat /\ b \in DOMAIN pages[i].blocks /\ uploads' = uploads \cup {Slides!place(i, b)}
    <3>1. b \in Nat
      BY <1>2, SlidesOf
    <3> QED
      BY <1>2, <2>2, <3>1 DEF Slides!pickImage
  <2> QED
    BY <2>1, <2>2
<1> DEFINE new == Slides!place(i, b)
<1>4. i \in Nat \ {0} /\ pages[i].key \in Nat /\ \A c \in DOMAIN pages[i].blocks : pages[i].blocks[c].key \in Nat
  BY <1>2, SlidesOf
<1> HIDE DEF i
<1>5. new \in Upload /\ new.left = pages
  <2>1. new = [page |-> i, block |-> b, mount |-> deck.mount, left |-> pages,
               of |-> IF b = 0 THEN pages[i].key ELSE pages[i].blocks[b].key]
    BY DEF Slides!place
  <2>2. (IF b = 0 THEN pages[i].key ELSE pages[i].blocks[b].key) \in Nat /\ deck.mount \in Nat
    BY <1>2, <1>3, <1>4 DEF Deck
  <2> QED
    BY <1>2, <1>4, <2>1, <2>2 DEF Upload
<1> HIDE DEF new
<1>6. uploads' = uploads \cup {new}
  BY <1>3 DEF new
<1> QED
  BY <1>1, <1>2, <1>5, <1>6 DEF SlidesInv, SlidesTyped

LEMMA TabKeeps == ASSUME SlidesInv, NEW other \in {"content", "activity"}, Slides!setTab(other) PROVE SlidesInv'
<1>1. /\ pages \in Seq(Slide) /\ deck \in Deck /\ keys \in Nat /\ Distinct(pages, keys)
      /\ uploads \subseteq Upload /\ \A u \in uploads : Distinct(u.left, keys)
  BY DEF SlidesInv, SlidesTyped
<1>2. UNCHANGED <<pages, keys>> /\ ~deck.confirming
      /\ deck' = (IF other = "content" THEN [deck EXCEPT !.tab = other, !.current = 1, !.mount = @ + 1] ELSE [deck EXCEPT !.tab = other])
  BY DEF Slides!setTab
<1>3. deck' \in Deck /\ ~deck'.confirming
  <2>1. CASE other = "content"
    <3>1. deck' = [deck EXCEPT !.tab = other, !.current = 1, !.mount = @ + 1]
      BY <1>2, <2>1
    <3>2. deck.mount + 1 \in Nat /\ deck.confirming = FALSE
      BY <1>1, <1>2 DEF Deck
    <3>3. deck' = [current |-> 1, confirming |-> FALSE, tab |-> other, mount |-> deck.mount + 1]
      BY <1>1, <3>1, <3>2 DEF Deck
    <3> QED
      BY <2>1, <3>2, <3>3 DEF Deck
  <2>2. CASE other # "content"
    <3>1. deck' = [deck EXCEPT !.tab = other]
      BY <1>2, <2>2
    <3> QED
      BY <1>1, <1>2, <3>1 DEF Deck
  <2> QED
    BY <2>1, <2>2
<1>4. \A u \in uploads' : u \in Upload /\ Distinct(u.left, keys)
  <2> DEFINE stays(u) == [u EXCEPT !.left = IF u.mount = deck.mount THEN pages ELSE @]
  <2>1. ASSUME NEW u \in uploads PROVE stays(u) \in Upload /\ Distinct(stays(u).left, keys)
    <3>1. u \in Upload /\ Distinct(u.left, keys)
      BY <1>1
    <3>2. stays(u).left = (IF u.mount = deck.mount THEN pages ELSE u.left)
      BY <3>1 DEF Upload
    <3>3. stays(u) \in Upload
      BY <1>1, <3>1 DEF Upload
    <3> HIDE DEF stays
    <3> QED
      BY <1>1, <3>1, <3>2, <3>3
  <2>2. uploads' = {stays(u) : u \in uploads} \/ uploads' = uploads
    BY DEF Slides!setTab
  <2> HIDE DEF stays
  <2> QED
    BY <1>1, <2>1, <2>2
<1> QED
  BY <1>1, <1>2, <1>3, <1>4 DEF SlidesInv, SlidesTyped

LEMMA SlidesInit == Slides!Init => SlidesInv
<1> SUFFICES ASSUME Slides!Init PROVE SlidesInv
  OBVIOUS
<1>1. pages = <<>> /\ uploads = {} /\ keys = 1 /\ deck = [current |-> 1, confirming |-> FALSE, tab |-> "content", mount |-> 1]
  BY DEF Slides!Init
<1>2. deck \in Deck /\ ~deck.confirming
  BY <1>1 DEF Deck
<1>3. pages \in Seq(Slide) /\ DOMAIN pages = {}
  BY <1>1
<1> QED
  BY <1>1, <1>2, <1>3 DEF SlidesInv, SlidesTyped, Distinct

LEMMA SlidesNext == ASSUME SlidesInv, [Slides!Next]_Slides!vars PROVE SlidesInv'
<1>1. CASE Slides!addSlide
  BY <1>1, AddKeeps
<1>2. ASSUME NEW way \in {-1, 1}, Slides!moveSlide(way) PROVE SlidesInv'
  BY <1>2, MoveKeeps
<1>3. CASE Slides!duplicateSlide
  BY <1>3, DuplicateKeeps
<1>4. CASE Slides!askRemove \/ Slides!removeSlide
  BY <1>4, RemoveKeeps
<1>5. CASE Slides!keepSlide
  <2>1. deck' = [deck EXCEPT !.confirming = FALSE] /\ UNCHANGED <<pages, uploads, uploading, keys>>
    BY <1>5 DEF Slides!keepSlide
  <2> QED
    BY <2>1, SlidesChanged DEF SlidesInv, SlidesTyped, Deck
<1>6. ASSUME NEW i \in 1..SLIDE_LIMITS.pages, Slides!setCurrent(i) PROVE SlidesInv'
  <2>1. pages \in Seq(Slide) /\ i \in DOMAIN pages /\ deck' = [deck EXCEPT !.current = i]
        /\ UNCHANGED <<pages, uploads, uploading, keys>>
    BY <1>6 DEF Slides!setCurrent, SlidesInv, SlidesTyped
  <2>2. i \in Nat \ {0}
    BY <2>1, SlidesOf
  <2> QED
    BY <2>1, <2>2, SlidesChanged DEF SlidesInv, SlidesTyped, Deck
<1>7. ASSUME NEW kind \in Kind, Slides!addBlock(kind) PROVE SlidesInv'
  BY <1>7, BlockAdded
<1>8. ASSUME NEW i \in 1..SLIDE_LIMITS.blocksPerPage + 1, Slides!SlideBlock(i) PROVE SlidesInv'
  BY <1>8, BlockChanged
<1>9. ASSUME NEW i \in 1..SLIDE_LIMITS.blocksPerPage + 1, Slides!BlockTools(i) PROVE SlidesInv'
  BY <1>9, BlockMoved
<1>10. CASE Slides!pickNewImage
  BY <1>10, UploadStarts
<1>11. ASSUME NEW b \in 1..SLIDE_LIMITS.blocksPerPage + 1, Slides!pickImage(b) PROVE SlidesInv'
  <2>1. b \in DOMAIN Slides!page.blocks
    BY <1>11 DEF Slides!pickImage
  <2> QED
    BY <1>11, <2>1, UploadStarts
<1>12. ASSUME NEW u \in uploads, NEW ok \in BOOLEAN, Slides!placeImage(u, ok) PROVE SlidesInv'
  BY <1>12, UploadEnds
<1>13. ASSUME NEW other \in {"content", "activity"}, Slides!setTab(other) PROVE SlidesInv'
  BY <1>13, TabKeeps
<1>14. CASE UNCHANGED Slides!vars
  BY <1>14 DEF Slides!vars, SlidesInv, SlidesTyped
<1> QED
  BY <1>1, <1>2, <1>3, <1>4, <1>5, <1>6, <1>7, <1>8, <1>9, <1>10, <1>11, <1>12, <1>13, <1>14 DEF Slides!Next

\* An upload is gone when it ends; a step that changes the slides and is not
\* that keeps them all.
LEMMA OnlyUploadsEnd ==
    ASSUME [Slides!Next]_Slides!vars, pages' # pages, NEW u \in uploads, u \notin uploads'
    PROVE  \E v \in uploads, ok \in BOOLEAN : Slides!placeImage(v, ok)
  BY DEF Slides!Next, Slides!vars, Slides!addSlide, Slides!moveSlide, Slides!duplicateSlide, Slides!askRemove,
         Slides!removeSlide, Slides!Removed, Slides!keepSlide, Slides!setCurrent, Slides!addBlock, Slides!SlideBlock,
         Slides!BlockTools, Slides!setBlocks, Slides!pickNewImage, Slides!pickImage, Slides!setTab

LEMMA KeysDiffer == SlidesInv => Slides!KeysAreUnique
<1> SUFFICES ASSUME SlidesInv PROVE Slides!KeysAreUnique
  OBVIOUS
<1>1. \A p, q \in DOMAIN pages : p # q => pages[p].key # pages[q].key
  BY DEF SlidesInv, Distinct
<1>2. ASSUME NEW x \in Slides!BlockKeys(pages), NEW y \in Slides!BlockKeys(pages), x # y
      PROVE  pages[x[1]].blocks[x[2]].key # pages[y[1]].blocks[y[2]].key
  <2>1. /\ x[1] \in DOMAIN pages /\ x[2] \in DOMAIN pages[x[1]].blocks
        /\ y[1] \in DOMAIN pages /\ y[2] \in DOMAIN pages[y[1]].blocks
        /\ x[1] # y[1] \/ x[2] # y[2]
    BY <1>2 DEF Slides!BlockKeys
  <2> QED
    BY <2>1 DEF SlidesInv, Distinct
<1> QED
  BY <1>1, <1>2 DEF Slides!KeysAreUnique

\* Every slide and every block has a key of its own (editorModel.ts: newKey),
\* however they are added, copied, moved and removed, and whatever slides an
\* upload of a tab that was left brings back.
THEOREM KeysStayUnique == Slides!Spec => []Slides!KeysAreUnique
  BY SlidesInit, SlidesNext, KeysDiffer, PTL DEF Slides!Spec

\* SlidesEditor.tsx:61 keeps the newest pages "for when an upload ends after
\* more edits": a picture that arrives while its tab is still there undoes
\* none of them, in any slide.
THEOREM PicturesUndoNothing == Slides!Spec => UploadUndoesNothing
<1>1. Slides!Init => SlidesInv
  BY SlidesInit
<1>2. SlidesInv /\ [Slides!Next]_Slides!vars => SlidesInv'
  BY SlidesNext
<1> DEFINE Undone(u) ==
      /\ Len(pages') = Len(pages)
      /\ \A x \in Slides!BlockKeys(pages) :
           /\ x \in Slides!BlockKeys(pages')
           /\ LET was == pages[x[1]].blocks[x[2]]
                  is == pages'[x[1]].blocks[x[2]]
              IN  is.key = was.key /\ is.filled = was.filled /\ (was.kind = "imagen" \/ is = was)
<1>3. ASSUME SlidesInv, [Slides!Next]_Slides!vars, NEW u \in uploads, u \notin uploads', u.mount = deck.mount,
             deck.tab = "content"
      PROVE  Undone(u)
  <2>1. CASE pages' = pages
    BY <2>1
  <2>2. CASE pages' # pages
    <3>1. PICK v \in uploads, ok \in BOOLEAN : Slides!placeImage(v, ok)
      BY <1>3, <2>2, OnlyUploadsEnd
    <3>2. v = u
      BY <1>3, <3>1 DEF Slides!placeImage
    <3>3. Slides!latest(u) = pages
      BY <1>3 DEF Slides!latest
    <3>4. u.page \in DOMAIN pages /\ pages' = Slides!placed(pages, u, keys)
      BY <2>2, <3>1, <3>2, <3>3 DEF Slides!placeImage
    <3>5. /\ Len(pages') = Len(pages) /\ DOMAIN pages' = DOMAIN pages
          /\ \A p \in DOMAIN pages : \A b \in DOMAIN pages[p].blocks :
                /\ b \in DOMAIN pages'[p].blocks
                /\ pages'[p].blocks[b].key = pages[p].blocks[b].key /\ pages'[p].blocks[b].filled = pages[p].blocks[b].filled
                /\ pages[p].blocks[b].kind = "imagen" \/ pages'[p].blocks[b] = pages[p].blocks[b]
      <4>1. pages \in Seq(Slide) /\ Distinct(pages, keys)
        BY <1>3 DEF SlidesInv, SlidesTyped
      <4> QED
        BY <1>3, <3>4, <4>1, Placed
    <3> QED
      BY <3>5 DEF Slides!BlockKeys
  <2> QED
    BY <2>1, <2>2
<1>4. SlidesInv /\ [Slides!Next]_Slides!vars =>
        [\A u \in uploads : u \notin uploads' /\ u.mount = deck.mount /\ deck.tab = "content" => Undone(u)]_Slides!vars
  BY <1>3
<1> QED
  BY <1>1, <1>2, <1>4, PTL DEF Slides!Spec, UploadUndoesNothing, Slides!UploadUndoesNothing

-----------------------------------------------------------------------------
(* What is saved and read back.                                            *)

LEMMA CountingRows ==
    /\ \A S : Slides!IsFiniteSet(S) <=> IsFiniteSet(S)
    /\ \A S : Slides!Cardinality(S) = Cardinality(S)
  BY DEF Slides!IsFiniteSet, IsFiniteSet, Slides!Cardinality, Cardinality

\* Of a finite set of numbers each has its own place.
UpTo(S, x) == {y \in S : y <= x}

LEMMA PlacesDiffer ==
    ASSUME NEW S \in SUBSET Nat, IsFiniteSet(S)
    PROVE  /\ Cardinality(S) \in Nat
           /\ \A x \in S : Cardinality(UpTo(S, x)) \in 1..Cardinality(S)
           /\ \A x, y \in S : Cardinality(UpTo(S, x)) = Cardinality(UpTo(S, y)) => x = y
<1>1. Cardinality(S) \in Nat
  BY FS_CardinalityType
<1>2. ASSUME NEW x \in S PROVE IsFiniteSet(UpTo(S, x)) /\ Cardinality(UpTo(S, x)) \in 1..Cardinality(S)
  <2>1. UpTo(S, x) \in SUBSET S /\ x \in UpTo(S, x)
    BY DEF UpTo
  <2>2. IsFiniteSet(UpTo(S, x)) /\ Cardinality(UpTo(S, x)) <= Cardinality(S)
    BY <2>1, FS_Subset
  <2>3. Cardinality(UpTo(S, x)) \in Nat /\ Cardinality(UpTo(S, x)) # 0
    BY <2>1, <2>2, FS_CardinalityType, FS_EmptySet
  <2> QED
    BY <1>1, <2>2, <2>3
<1>3. ASSUME NEW x \in S, NEW y \in S, x < y PROVE Cardinality(UpTo(S, x)) # Cardinality(UpTo(S, y))
  <2>1. \A z \in S : z \in Nat
    OBVIOUS
  <2>2. UpTo(S, x) \in SUBSET UpTo(S, y)
    <3> SUFFICES ASSUME NEW z \in S, z <= x PROVE z <= y
      BY DEF UpTo
    <3>1. x \in Nat /\ y \in Nat /\ z \in Nat
      BY <2>1
    <3> QED
      BY <1>3, <3>1
  <2>3. y \in UpTo(S, y) /\ y \notin UpTo(S, x)
    BY <1>3, <2>1 DEF UpTo
  <2> QED
    BY <1>2, <2>2, <2>3, FS_Subset
<1>4. ASSUME NEW x \in S, NEW y \in S, Cardinality(UpTo(S, x)) = Cardinality(UpTo(S, y)) PROVE x = y
  <2>1. x \in Nat /\ y \in Nat
    OBVIOUS
  <2> QED
    BY <1>3, <1>4, <2>1
<1> QED
  BY <1>1, <1>2, <1>4

\* The rows of a slide, and how many there are up to a place.
RowAt(ps, p, b) == [page_index |-> p, order_index |-> b, kind |-> ps[p].blocks[b].kind, n |-> ps[p].blocks[b].n]
RowsOf(ps, p) == {RowAt(ps, p, b) : b \in DOMAIN ps[p].blocks}
SlidesSent(ps) == {p \in DOMAIN ps : ps[p].blocks # <<>>}

LEMMA SlideLength ==
    ASSUME NEW ps \in Seq(Slide)
    PROVE  /\ Len(ps) \in Nat /\ DOMAIN ps = 1..Len(ps)
           /\ \A p \in DOMAIN ps : Len(ps[p].blocks) \in Nat /\ DOMAIN ps[p].blocks = 1..Len(ps[p].blocks)
           /\ \A p \in DOMAIN ps : ps[p].blocks # <<>> <=> DOMAIN ps[p].blocks # {}
<1>1. Len(ps) \in Nat /\ DOMAIN ps = 1..Len(ps)
  BY LenProperties
<1>2. ASSUME NEW p \in DOMAIN ps
      PROVE  /\ Len(ps[p].blocks) \in Nat /\ DOMAIN ps[p].blocks = 1..Len(ps[p].blocks)
             /\ ps[p].blocks # <<>> <=> DOMAIN ps[p].blocks # {}
  <2>1. ps[p].blocks \in Seq(Piece)
    BY SlidesOf
  <2>2. Len(ps[p].blocks) \in Nat /\ DOMAIN ps[p].blocks = 1..Len(ps[p].blocks)
    BY <2>1, LenProperties
  <2>3. ps[p].blocks = <<>> <=> Len(ps[p].blocks) = 0
    BY <2>1, EmptySeq
  <2>4. \A n \in Nat : 1..n = {} <=> n = 0
    OBVIOUS
  <2>5. DOMAIN ps[p].blocks = {} <=> Len(ps[p].blocks) = 0
    BY <2>2, <2>4
  <2> QED
    BY <2>2, <2>3, <2>5
<1> QED
  BY <1>1, <1>2

LEMMA RowsSent ==
    ASSUME NEW ps \in Seq(Slide)
    PROVE  /\ {r.page_index : r \in Slides!toBlocks(ps)} = SlidesSent(ps)
           /\ \A p \in DOMAIN ps : {r \in Slides!toBlocks(ps) : r.page_index = p} = RowsOf(ps, p)
<1>1. Slides!toBlocks(ps) = UNION {RowsOf(ps, p) : p \in DOMAIN ps}
  BY DEF Slides!toBlocks, RowsOf, RowAt
<1>2. ASSUME NEW p \in DOMAIN ps, NEW r \in RowsOf(ps, p) PROVE r.page_index = p
  BY DEF RowsOf, RowAt
<1>3. ASSUME NEW p \in DOMAIN ps PROVE p \in SlidesSent(ps) <=> RowsOf(ps, p) # {}
  BY SlideLength DEF SlidesSent, RowsOf
<1>4. ASSUME NEW r \in Slides!toBlocks(ps) PROVE r.page_index \in SlidesSent(ps) /\ r \in RowsOf(ps, r.page_index)
  <2>1. PICK p \in DOMAIN ps : r \in RowsOf(ps, p)
    BY <1>1
  <2> QED
    BY <1>2, <1>3, <2>1
<1>5. ASSUME NEW p \in SlidesSent(ps) PROVE \E r \in Slides!toBlocks(ps) : r.page_index = p
  <2>1. p \in DOMAIN ps
    BY DEF SlidesSent
  <2>2. PICK r : r \in RowsOf(ps, p)
    BY <1>3, <2>1
  <2> QED
    BY <1>1, <1>2, <2>1, <2>2
<1>6. {r.page_index : r \in Slides!toBlocks(ps)} = SlidesSent(ps)
  BY <1>4, <1>5
<1>7. ASSUME NEW p \in DOMAIN ps PROVE {r \in Slides!toBlocks(ps) : r.page_index = p} = RowsOf(ps, p)
  BY <1>1, <1>2, <1>4
<1> QED
  BY <1>6, <1>7

LEMMA RowsCounted ==
    ASSUME NEW ps \in Seq(Slide), NEW p \in DOMAIN ps
    PROVE  /\ Cardinality(RowsOf(ps, p)) = Len(ps[p].blocks)
           /\ \A b \in DOMAIN ps[p].blocks :
                /\ RowAt(ps, p, b) \in RowsOf(ps, p)
                /\ Cardinality({q \in RowsOf(ps, p) : q.order_index <= b}) = b
           /\ \A r \in RowsOf(ps, p) : r.order_index \in DOMAIN ps[p].blocks /\ r = RowAt(ps, p, r.order_index)
<1> DEFINE many == Len(ps[p].blocks)
           first(k) == {RowAt(ps, p, b) : b \in 1..k}
<1>1. many \in Nat /\ DOMAIN ps[p].blocks = 1..many
  BY SlideLength
<1>2. \A b : RowAt(ps, p, b).order_index = b
  BY DEF RowAt
<1>3. ASSUME NEW k \in 0..many PROVE Cardinality(first(k)) = k
  <2> DEFINE f == [b \in 1..k |-> RowAt(ps, p, b)]
  <2>1. f \in Bijection(1..k, first(k))
    <3>1. f \in [1..k -> first(k)]
      OBVIOUS
    <3>2. \A b, c \in 1..k : f[b] = f[c] => b = c
      BY <1>2
    <3>3. \A r \in first(k) : \E b \in 1..k : f[b] = r
      OBVIOUS
    <3> QED
      BY <3>1, <3>2, <3>3 DEF Bijection, Injection, Surjection, IsInjective
  <2>2. k \in Nat
    BY <1>1
  <2>3. ExistsBijection(1..k, first(k))
    <3> HIDE DEF f, first
    <3> QED
      BY <2>1 DEF ExistsBijection
  <2> QED
    BY <2>2, <2>3, FS_CountingElements
<1>4. RowsOf(ps, p) = first(many)
  BY <1>1 DEF RowsOf
<1>5. ASSUME NEW b \in 1..many PROVE {q \in first(many) : q.order_index <= b} = first(b)
  <2>1. ASSUME NEW q \in first(many), q.order_index <= b PROVE q \in first(b)
    <3>1. PICK c \in 1..many : q = RowAt(ps, p, c)
      OBVIOUS
    <3>2. c \in 1..b
      BY <1>1, <1>2, <2>1, <3>1
    <3> QED
      BY <3>1, <3>2
  <2>2. ASSUME NEW q \in first(b) PROVE q \in first(many) /\ q.order_index <= b
    <3>1. PICK c \in 1..b : q = RowAt(ps, p, c)
      OBVIOUS
    <3>2. c \in 1..many /\ c <= b
      BY <1>1, <3>1
    <3> QED
      BY <1>2, <3>1, <3>2
  <2> QED
    BY <2>1, <2>2
<1>6. ASSUME NEW b \in DOMAIN ps[p].blocks
      PROVE  RowAt(ps, p, b) \in RowsOf(ps, p) /\ Cardinality({q \in RowsOf(ps, p) : q.order_index <= b}) = b
  <2>1. b \in 1..many /\ b \in 0..many
    BY <1>1
  <2> QED
    BY <1>3, <1>4, <1>5, <2>1
<1>7. \A r \in RowsOf(ps, p) : r.order_index \in DOMAIN ps[p].blocks /\ r = RowAt(ps, p, r.order_index)
  BY <1>2 DEF RowsOf
<1>8. Cardinality(RowsOf(ps, p)) = many
  BY <1>1, <1>3, <1>4
<1> QED
  BY <1>6, <1>7, <1>8

LEMMA RankCounted ==
    ASSUME NEW ps \in Seq(Slide), NEW p \in DOMAIN ps, NEW b \in DOMAIN ps[p].blocks
    PROVE  Cardinality({q \in RowsOf(ps, p) : q.order_index <= b}) = b
<1>1. \A c \in DOMAIN ps[p].blocks : Cardinality({q \in RowsOf(ps, p) : q.order_index <= c}) = c
  BY RowsCounted
<1> QED
  BY <1>1

\* The slides that come back from the rows of others.
LEMMA ReadBack ==
    ASSUME NEW ps \in Seq(Slide)
    PROVE  LET back == Slides!toPages(Slides!toBlocks(ps))
               place(p) == Cardinality(UpTo(SlidesSent(ps), p))
           IN  /\ Len(back) = Cardinality(SlidesSent(ps))
               /\ \A p \in SlidesSent(ps) :
                    /\ Len(back[place(p)]) = Len(ps[p].blocks)
                    /\ \A b \in DOMAIN back[place(p)] : back[place(p)][b] = RowAt(ps, p, b)
<1> DEFINE blocks == Slides!toBlocks(ps)
           numbers == {r.page_index : r \in blocks}
           place(p) == Slides!Cardinality({q \in numbers : q <= p})
           number(i) == CHOOSE p \in numbers : place(p) = i
           on(p) == {r \in blocks : r.page_index = p}
           rank(p, r) == Slides!Cardinality({q \in on(p) : q.order_index <= r.order_index})
           row(p, i) == CHOOSE r \in on(p) : rank(p, r) = i
           back == Slides!toPages(blocks)
<1>0. /\ numbers = SlidesSent(ps)
      /\ \A p : place(p) = Cardinality(UpTo(SlidesSent(ps), p))
  BY RowsSent, CountingRows DEF UpTo
<1>1. back = [i \in 1..Slides!Cardinality(numbers) |-> [j \in 1..Slides!Cardinality(on(number(i))) |-> row(number(i), j)]]
  BY DEF Slides!toPages
<1>2. numbers \in SUBSET Nat /\ IsFiniteSet(numbers)
  <2>1. numbers \in SUBSET (1..Len(ps)) /\ Len(ps) \in Nat
    BY <1>0, SlideLength DEF SlidesSent
  <2>2. IsFiniteSet(1..Len(ps))
    BY <2>1, FS_Interval
  <2> HIDE DEF numbers
  <2> QED
    <3>1. \A n \in 1..Len(ps) : n \in Nat
      BY <2>1
    <3>2. numbers \in SUBSET Nat
      BY <2>1, <3>1
    <3>3. IsFiniteSet(numbers)
      BY <2>1, <2>2, FS_Subset
    <3> QED
      BY <3>2, <3>3
<1>3. /\ Cardinality(numbers) \in Nat /\ Slides!Cardinality(numbers) = Cardinality(numbers)
      /\ \A p \in numbers : place(p) \in 1..Cardinality(numbers)
      /\ \A p, q \in numbers : place(p) = place(q) => p = q
  <2>1. \A p : place(p) = Cardinality(UpTo(numbers, p))
    BY <1>0
  <2> HIDE DEF place, numbers
  <2> QED
    BY <1>2, <2>1, PlacesDiffer, CountingRows
<1>4. Len(back) = Cardinality(numbers)
  <2> HIDE DEF back, numbers, number, on, row
  <2> QED
    BY <1>1, <1>3
<1>5. ASSUME NEW p \in numbers
      PROVE  Len(back[place(p)]) = Len(ps[p].blocks) /\ \A b \in DOMAIN back[place(p)] : back[place(p)][b] = RowAt(ps, p, b)
  <2>1. number(place(p)) = p
    <3>1. \A q \in numbers : place(q) = place(p) => q = p
      BY <1>3
    <3> HIDE DEF place
    <3> QED
      BY <3>1
  <2>2. p \in DOMAIN ps /\ on(p) = RowsOf(ps, p)
    BY <1>0, RowsSent DEF SlidesSent
  <2>3. /\ Len(ps[p].blocks) \in Nat /\ DOMAIN ps[p].blocks = 1..Len(ps[p].blocks)
        /\ Slides!Cardinality(on(p)) = Len(ps[p].blocks)
    BY <2>2, SlideLength, RowsCounted, CountingRows
  <2>4. back[place(p)] = [j \in 1..Len(ps[p].blocks) |-> row(p, j)]
    <3> HIDE DEF place, number, row, on, back, numbers
    <3> QED
      BY <1>1, <1>3, <2>1, <2>3
  <2>5. ASSUME NEW b \in 1..Len(ps[p].blocks) PROVE row(p, b) = RowAt(ps, p, b)
    <3>1. RowAt(ps, p, b) \in on(p) /\ rank(p, RowAt(ps, p, b)) = b
      <4>1. RowAt(ps, p, b).order_index = b
        BY DEF RowAt
      <4>2. RowAt(ps, p, b) \in RowsOf(ps, p) /\ Cardinality({q \in RowsOf(ps, p) : q.order_index <= b}) = b
        BY <2>2, <2>3, RowsCounted
      <4>3. rank(p, RowAt(ps, p, b)) = Cardinality({q \in RowsOf(ps, p) : q.order_index <= b})
        <5> HIDE DEF on
        <5> QED
          BY <2>2, <4>1, CountingRows
      <4> HIDE DEF on, rank
      <4> QED
        BY <2>2, <4>2, <4>3
    <3>2. ASSUME NEW r \in on(p), rank(p, r) = b PROVE r = RowAt(ps, p, b)
      <4>1. r \in RowsOf(ps, p)
        BY <2>2
      <4>2. r.order_index \in DOMAIN ps[p].blocks /\ r = RowAt(ps, p, r.order_index)
        BY <2>2, <4>1, RowsCounted
      <4>3. rank(p, r) = Cardinality({q \in RowsOf(ps, p) : q.order_index <= r.order_index})
        <5> HIDE DEF on
        <5> QED
          BY <2>2, CountingRows
      <4>4. Cardinality({q \in RowsOf(ps, p) : q.order_index <= r.order_index}) = r.order_index
        <5> DEFINE c == r.order_index
        <5> HIDE DEF c
        <5>1. c \in DOMAIN ps[p].blocks
          BY <4>2 DEF c
        <5>2. Cardinality({q \in RowsOf(ps, p) : q.order_index <= c}) = c
          BY <2>2, <5>1, RankCounted
        <5> QED
          BY <5>2 DEF c
      <4> HIDE DEF rank, on
      <4> QED
        BY <3>2, <4>2, <4>3, <4>4
    <3> HIDE DEF on, rank
    <3>3. row(p, b) \in on(p) /\ rank(p, row(p, b)) = b
      BY <3>1
    <3> QED
      BY <3>2, <3>3
  <2>6. Len(back[place(p)]) = Len(ps[p].blocks) /\ DOMAIN back[place(p)] = 1..Len(ps[p].blocks)
    <3> HIDE DEF place, back, row
    <3> QED
      BY <2>3, <2>4
  <2> QED
    <3> HIDE DEF place, back, row
    <3> QED
      BY <2>4, <2>5, <2>6
<1> HIDE DEF place, back, numbers, number, on, row
<1>6. /\ Len(back) = Cardinality(numbers)
      /\ \A p \in numbers : Len(back[place(p)]) = Len(ps[p].blocks) /\ \A b \in DOMAIN back[place(p)] : back[place(p)][b] = RowAt(ps, p, b)
  BY <1>4, <1>5
<1> QED
  BY <1>0, <1>6 DEF back

\* What a teacher saved is what they find when they come back (editorModel.ts:
\* toBlocks and toPages): the slides with something on them in their order,
\* each with its blocks in theirs; and every key is still of one slide or block.
THEOREM SlidesAlwaysComeBack == Slides!Spec => []SlidesComeBack
<1>1. SlidesInv => Slides!ComesBackTheSame
  <2> SUFFICES ASSUME SlidesInv PROVE Slides!ComesBackTheSame
    OBVIOUS
  <2>1. pages \in Seq(Slide)
    BY DEF SlidesInv, SlidesTyped
  <2> DEFINE back == Slides!toPages(Slides!toBlocks(pages))
             place(p) == Cardinality(UpTo(SlidesSent(pages), p))
  <2>2. /\ Len(back) = Cardinality(SlidesSent(pages))
        /\ \A p \in SlidesSent(pages) :
             /\ Len(back[place(p)]) = Len(pages[p].blocks)
             /\ \A b \in DOMAIN back[place(p)] : back[place(p)][b] = RowAt(pages, p, b)
    BY <2>1, ReadBack
  <2>3. \A p, b : RowAt(pages, p, b).kind = pages[p].blocks[b].kind /\ RowAt(pages, p, b).n = pages[p].blocks[b].n
    BY DEF RowAt
  <2> HIDE DEF back
  <2>4. /\ Len(back) = Cardinality(SlidesSent(pages))
        /\ \A p \in SlidesSent(pages) :
             /\ Len(back[place(p)]) = Len(pages[p].blocks)
             /\ \A b \in DOMAIN back[place(p)] :
                  back[place(p)][b].kind = pages[p].blocks[b].kind /\ back[place(p)][b].n = pages[p].blocks[b].n
    BY <2>2, <2>3
  <2> QED
    BY <2>4, CountingRows DEF Slides!ComesBackTheSame, SlidesSent, UpTo, back
<1>2. Slides!Init => SlidesInv
  BY SlidesInit
<1>3. SlidesInv /\ [Slides!Next]_Slides!vars => SlidesInv'
  BY SlidesNext
<1>4. SlidesInv => SlidesComeBack
  BY <1>1, KeysDiffer DEF SlidesComeBack
<1> QED
  BY <1>2, <1>3, <1>4, PTL DEF Slides!Spec

-----------------------------------------------------------------------------
(* The editor.                                                             *)

Written == [value : Value, n : Nat]
Hook == [shown : Written, last : Value, timer : BOOLEAN, retries : Nat, saving : BOOLEAN,
         state : {"idle", "saving", "saved", "error"}]
Lesson == [text : [Doc -> Value], status : {"borrador", "publicada", "gone"}]
Operations == [publish : {"no", "asked", "done", "refused"}, delete : {"no", "asked", "done", "refused"}, lesson : Lesson]
Saved == [visit : Editor!Visit, doc : Doc, text : Written, quiet : BOOLEAN, at : {"asked", "saved", "failed"},
          lesson : Lesson]
Stored == [text : [Doc -> [value : Value, n : Nat, by : Nat]], status : {"borrador", "publicada", "gone"}]

EditorTyped ==
    /\ visit \in [now : Nat, count : Nat] /\ visit.now <= visit.count /\ visit.count <= MaxVisits
    /\ hooks \in [Editor!Visit -> [Doc -> Hook]]
    /\ sent \subseteq Saved
    /\ op \in Operations
    /\ lesson \in Stored
    /\ lessonCache \in Lesson

SamePart(s, t) == s.visit = t.visit /\ s.doc = t.doc

(***************************************************************************)
(* What makes it inductive.  Nothing sent or stored is newer than what is  *)
(* on screen, or of a visit to come; a part has one save on its way, but   *)
(* for the one of leaving, after which nothing changes any more.           *)
(***************************************************************************)
NotNewer ==
    /\ \A s \in sent : s.visit <= visit.count /\ s.text.n <= hooks[s.visit][s.doc].shown.n
    /\ \A d \in Doc : LET x == lesson.text[d] IN
         x.by # 0 => x.by \in Editor!Visit /\ x.by <= visit.count /\ x.n <= hooks[x.by][d].shown.n
OneSave ==
    /\ \A s \in sent : ~s.quiet => hooks[s.visit][s.doc].saving
    /\ \A s, t \in sent : ~s.quiet /\ ~t.quiet /\ SamePart(s, t) => s = t
LastSave == \A s \in sent : s.quiet =>
    /\ s.visit # visit.now
    /\ \A t \in sent : SamePart(s, t) => t.text.n = hooks[s.visit][s.doc].shown.n
Ahead == \A s \in sent :
    s.at = "asked" /\ lesson.text[s.doc].by = s.visit => lesson.text[s.doc].n <= s.text.n

NotOpened == \A i \in Editor!Visit, d \in Doc :
    i > visit.count => ~hooks[i][d].timer /\ hooks[i][d].retries = 0

Order == NotNewer /\ OneSave /\ LastSave /\ Ahead /\ NotOpened
EditorInv == EditorTyped /\ Order

-----------------------------------------------------------------------------
LEMMA Unsaved == ASSUME Editor!EditorAssumption, NEW d PROVE Editor!Untouched(d) \in Value
  BY DEF Editor!EditorAssumption, Editor!Untouched, Editor!Ready

LEMMA QuietType ==
    ASSUME Editor!EditorAssumption, NEW i \in Editor!Visit, NEW d \in Doc, NEW text \in Written
    PROVE  /\ Editor!save(i, d, text, TRUE) \in Saved /\ Editor!save(i, d, text, TRUE).quiet = TRUE
           /\ Editor!save(i, d, text, TRUE).visit = i /\ Editor!save(i, d, text, TRUE).doc = d
           /\ Editor!save(i, d, text, TRUE).text = text
<1>1. [x \in Doc |-> Editor!Untouched(x)] \in [Doc -> Value]
  BY Unsaved
<1> QED
  BY <1>1 DEF Editor!save, Saved, Lesson

LEMMA LessonType == ASSUME NEW s \in Stored PROVE Editor!lessonOf(s) \in Lesson
  BY DEF Editor!lessonOf, Stored, Lesson

LEMMA SeededType == ASSUME NEW v \in Value PROVE Editor!seeded(v) \in Hook /\ Editor!seeded(v).shown.n = 0 /\ ~Editor!seeded(v).saving
  BY DEF Editor!seeded, Hook, Written

LEMMA Visits == ASSUME Editor!EditorAssumption PROVE MaxVisits \in Nat /\ 0 \notin Editor!Visit /\ \A i \in Editor!Visit : i \in Nat
  BY DEF Editor!EditorAssumption, Editor!Visit

\* When the editor has not been opened nothing is saved.
LEMMA EditorInit == ASSUME Editor!EditorAssumption, Editor!Init PROVE EditorInv
<1>1. \A d \in Doc : Editor!Untouched(d) \in Value
  BY Unsaved
<1>2. hooks \in [Editor!Visit -> [Doc -> Hook]]
  BY <1>1, SeededType DEF Editor!Init
<1>3. op \in Operations
  BY <1>1 DEF Editor!Init, Lesson, Operations
<1>4. lesson \in Stored /\ lessonCache \in Lesson /\ \A d \in Doc : lesson.text[d].by = 0
  BY <1>1 DEF Editor!Init, Stored, Lesson
<1>5. sent = {} /\ visit = [now |-> 0, count |-> 0]
  BY DEF Editor!Init
<1>6. EditorTyped
  BY <1>2, <1>3, <1>4, <1>5, Visits DEF EditorTyped
<1>7. Order
  <2>1. NotOpened
    BY DEF Editor!Init, NotOpened, Editor!seeded
  <2> QED
    BY <1>4, <1>5, <2>1 DEF Order, NotNewer, OneSave, LastSave, Ahead
<1> QED
  BY <1>6, <1>7 DEF EditorInv

-----------------------------------------------------------------------------
(* The autosave of one part.                                               *)

\* The visit on screen is one of them.
LEMMA OnScreen == ASSUME Editor!EditorAssumption, EditorTyped, Editor!Here PROVE visit.now \in Editor!Visit
  BY Visits DEF EditorTyped, Editor!Here, Editor!Visit

\* What a change does to it.
LEMMA ChangeType ==
    ASSUME NEW h \in Hook, NEW v \in Value
    PROVE  /\ Editor!change(h, v) \in Hook
           /\ Editor!change(h, v).shown.n = h.shown.n + 1 /\ Editor!change(h, v).saving = h.saving
<1>1. h.shown \in Written /\ h.shown.n \in Nat
  BY DEF Hook, Written
<1> DEFINE text == [value |-> v, n |-> h.shown.n + 1]
<1>2. text \in Written /\ text.n = h.shown.n + 1
  BY <1>1 DEF Written
<1>3. Editor!change(h, v) = [h EXCEPT !.shown = text, !.timer = v # h.last /\ Editor!Ready(v)]
  BY DEF Editor!change
<1>4. (v # h.last /\ Editor!Ready(v)) \in BOOLEAN
  OBVIOUS
<1> HIDE DEF text
<1> QED
  BY <1>2, <1>3, <1>4, Zenon DEF Hook

\* A change on screen: no save knows of it yet, and nobody left.
LEMMA EditKeeps == ASSUME Editor!EditorAssumption, EditorInv, NEW d \in Doc, NEW v \in Value, Editor!edit(d, v) PROVE EditorInv'
<1> DEFINE i == visit.now
<1> DEFINE h == Editor!change(hooks[i][d], v)
<1>0. EditorTyped /\ NotNewer /\ OneSave /\ LastSave /\ Ahead /\ NotOpened
  BY DEF EditorInv, Order
<1>1. i \in Editor!Visit /\ Editor!Here
  BY <1>0, OnScreen DEF Editor!edit
<1>2. hooks[i][d] \in Hook
  BY <1>0, <1>1 DEF EditorTyped
<1>3. h \in Hook /\ h.shown.n = hooks[i][d].shown.n + 1 /\ h.saving = hooks[i][d].saving
  BY <1>2, ChangeType, Zenon
<1>4. hooks' = [hooks EXCEPT ![i][d] = h] /\ UNCHANGED <<visit, sent, op, lesson, lessonCache>>
  BY <1>0, <1>1 DEF Editor!edit, EditorTyped
<1> HIDE DEF h
<1>5. /\ hooks' \in [Editor!Visit -> [Doc -> Hook]] /\ hooks'[i][d] = h
      /\ \A j \in Editor!Visit, e \in Doc : j # i \/ e # d => hooks'[j][e] = hooks[j][e]
  BY <1>0, <1>1, <1>3, <1>4 DEF EditorTyped
<1>6. \A j \in Editor!Visit, e \in Doc : /\ hooks[j][e].shown.n \in Nat /\ hooks'[j][e].shown.n \in Nat
                                         /\ hooks[j][e].shown.n <= hooks'[j][e].shown.n
                                         /\ hooks'[j][e].saving = hooks[j][e].saving
  <2> SUFFICES ASSUME NEW j \in Editor!Visit, NEW e \in Doc
               PROVE  /\ hooks[j][e].shown.n \in Nat /\ hooks'[j][e].shown.n \in Nat
                      /\ hooks[j][e].shown.n <= hooks'[j][e].shown.n
                      /\ hooks'[j][e].saving = hooks[j][e].saving
    OBVIOUS
  <2>1. hooks[j][e].shown.n \in Nat
    BY <1>0 DEF EditorTyped, Hook, Written
  <2> QED
    BY <1>3, <1>5, <2>1
<1>7. \A s \in sent : s \in Saved /\ s.visit \in Editor!Visit /\ s.doc \in Doc /\ s.text.n \in Nat
  BY <1>0 DEF EditorTyped, Saved, Written
<1>8. \A e \in Doc : lesson.text[e].n \in Nat
  BY <1>0 DEF EditorTyped, Stored
<1>9. EditorTyped'
  BY <1>0, <1>4, <1>5 DEF EditorTyped
<1>10. NotNewer'
  BY <1>0, <1>4, <1>6, <1>7, <1>8 DEF NotNewer
<1>11. OneSave'
  BY <1>0, <1>4, <1>6, <1>7 DEF OneSave
<1>12. LastSave'
  BY <1>0, <1>4, <1>5, <1>7 DEF LastSave
<1>13. Ahead'
  BY <1>0, <1>4 DEF Ahead
<1>14. NotOpened'
  <2>1. i <= visit.count /\ visit.count \in Nat /\ i \in Nat
    BY <1>0 DEF EditorTyped
  <2> QED
    BY <1>0, <1>4, <1>5, <2>1 DEF NotOpened
<1> QED
  BY <1>9, <1>10, <1>11, <1>12, <1>13, <1>14 DEF EditorInv, Order

\* Of an autosave, what it shows and whether it is saving stayed.
Shows(h, g) == h.shown = g.shown /\ h.saving = g.saving

\* A timer goes off: what is on screen is sent, if nothing is on its way.
LEMMA RunKeeps ==
    ASSUME Editor!EditorAssumption, EditorInv, NEW i \in Editor!Visit, NEW d \in Doc, NEW h \in Hook,
           i <= visit.count, Shows(h, hooks[i][d]),
           Editor!run(i, d, h), UNCHANGED <<visit, op, lesson, lessonCache>>
    PROVE  EditorInv'
<1>0. EditorTyped /\ NotNewer /\ OneSave /\ LastSave /\ Ahead /\ NotOpened
  BY DEF EditorInv, Order
<1>1. PICK k \in Hook : /\ hooks' = [hooks EXCEPT ![i][d] = k] /\ k.shown = h.shown
                        /\ h.saving => k.saving
                        /\ \/ sent' = sent
                           \/ ~h.saving /\ k.saving /\ sent' = sent \cup {Editor!save(i, d, h.shown, FALSE)}
  <2>1. CASE h.saving
    <3> DEFINE k == [h EXCEPT !.retries = @ + 1]
    <3>1. k \in Hook /\ k.shown = h.shown /\ k.saving = h.saving
      BY DEF Hook
    <3>2. hooks' = [hooks EXCEPT ![i][d] = k] /\ sent' = sent
      BY <2>1 DEF Editor!run
    <3> QED
      BY <3>1, <3>2
  <2>2. CASE ~h.saving /\ Editor!ToSend(h)
    <3> DEFINE k == [h EXCEPT !.saving = TRUE, !.state = "saving"]
    <3>1. k \in Hook /\ k.shown = h.shown /\ k.saving
      BY DEF Hook
    <3>2. hooks' = [hooks EXCEPT ![i][d] = k] /\ sent' = sent \cup {Editor!save(i, d, h.shown, FALSE)}
      BY <2>2 DEF Editor!run
    <3> QED
      BY <2>2, <3>1, <3>2
  <2>3. CASE ~h.saving /\ ~Editor!ToSend(h)
    BY <2>3 DEF Editor!run
  <2> QED
    BY <2>1, <2>2, <2>3
<1>2. /\ hooks' \in [Editor!Visit -> [Doc -> Hook]] /\ hooks'[i][d] = k
      /\ \A j \in Editor!Visit, e \in Doc : j # i \/ e # d => hooks'[j][e] = hooks[j][e]
  BY <1>0, <1>1 DEF EditorTyped
<1>3. \A j \in Editor!Visit, e \in Doc : /\ hooks'[j][e].shown = hooks[j][e].shown /\ hooks[j][e].shown.n \in Nat
                                         /\ hooks[j][e].saving => hooks'[j][e].saving
  <2>1. \A j \in Editor!Visit, e \in Doc : hooks[j][e].shown.n \in Nat
    BY <1>0 DEF EditorTyped, Hook, Written
  <2> QED
    BY <1>1, <1>2, <2>1 DEF Shows
<1>4. \A s \in sent : s \in Saved /\ s.visit \in Editor!Visit /\ s.doc \in Doc /\ s.text.n \in Nat
  BY <1>0 DEF EditorTyped, Saved, Written
<1>5. NotOpened'
  <2>1. visit.count \in Nat /\ i \in Nat /\ visit' = visit
    BY <1>0, Visits DEF EditorTyped
  <2>2. ASSUME NEW j \in Editor!Visit, NEW e \in Doc, j > visit.count
        PROVE  hooks'[j][e] = hooks[j][e]
    BY <1>2, <2>1, <2>2
  <2>3. \A j \in Editor!Visit, e \in Doc : j > visit'.count => ~hooks'[j][e].timer /\ hooks'[j][e].retries = 0
    BY <1>0, <2>1, <2>2 DEF NotOpened
  <2> QED
    BY <2>3 DEF NotOpened
<1>6. CASE sent' = sent
  <2>1. EditorTyped'
    BY <1>0, <1>2, <1>6 DEF EditorTyped
  <2>2. NotNewer' /\ Ahead'
    BY <1>0, <1>3, <1>4, <1>6 DEF NotNewer, Ahead
  <2>3. OneSave' /\ LastSave'
    BY <1>0, <1>3, <1>4, <1>6 DEF OneSave, LastSave
  <2> QED
    BY <1>5, <2>1, <2>2, <2>3 DEF EditorInv, Order
<1>7. CASE ~h.saving /\ k.saving /\ sent' = sent \cup {Editor!save(i, d, h.shown, FALSE)}
  <2>1. h.shown \in Written
    BY DEF Hook
  <2>2. PICK new \in Saved : /\ new = Editor!save(i, d, h.shown, FALSE) /\ new.visit = i /\ new.doc = d
                             /\ ~new.quiet /\ new.text = h.shown
    <3>1. PICK text \in Written : text = h.shown
      BY <2>1
    <3>2. [x \in Doc |-> Editor!Untouched(x)] \in [Doc -> Value]
      BY Unsaved
    <3>3. /\ Editor!save(i, d, text, FALSE) \in Saved /\ ~Editor!save(i, d, text, FALSE).quiet
          /\ Editor!save(i, d, text, FALSE).visit = i /\ Editor!save(i, d, text, FALSE).doc = d
          /\ Editor!save(i, d, text, FALSE).text = text
      BY <3>2 DEF Editor!save, Saved, Lesson
    <3> QED
      BY <3>1, <3>3
  <2>9. new.text.n = hooks[i][d].shown.n /\ new.text.n = hooks'[i][d].shown.n /\ new.text.n \in Nat
    <3>1. hooks'[i][d].shown = hooks[i][d].shown /\ hooks[i][d].shown.n \in Nat
      BY <1>3
    <3> QED
      BY <2>2, <3>1 DEF Shows
  <2>3. sent' = sent \cup {new} /\ UNCHANGED <<visit, op, lesson, lessonCache>>
    BY <1>7, <2>2
  <2>4. EditorTyped'
    BY <1>0, <1>2, <2>2, <2>9, <2>3 DEF EditorTyped
  <2>5. NotNewer'
    <3>1. \A s \in sent' : s.visit <= visit.count /\ s.text.n <= hooks'[s.visit][s.doc].shown.n
      <4>1. new.text.n <= hooks'[i][d].shown.n
        BY <2>9
      <4> QED
        BY <1>0, <1>3, <1>4, <2>2, <2>9, <2>3, <4>1 DEF NotNewer
    <3> QED
      BY <1>0, <1>3, <2>3, <3>1 DEF NotNewer
  <2>6. OneSave'
    <3>1. \A s \in sent : ~s.quiet => ~SamePart(s, new)
      BY <1>0, <1>7, <2>2, <2>9 DEF OneSave, SamePart, Shows
    <3>2. hooks'[i][d].saving
      BY <1>2, <1>7
    <3>3. \A s \in sent' : ~s.quiet => hooks'[s.visit][s.doc].saving
      BY <1>0, <1>3, <1>4, <2>2, <2>9, <2>3, <3>2 DEF OneSave
    <3>4. \A s, t \in sent' : ~s.quiet /\ ~t.quiet /\ SamePart(s, t) => s = t
      BY <1>0, <2>3, <3>1 DEF OneSave, SamePart
    <3> QED
      BY <3>3, <3>4 DEF OneSave
  <2>7. LastSave'
    <3>1. \A s, t \in sent' : s.quiet /\ SamePart(s, t) => t.text.n = hooks[s.visit][s.doc].shown.n
      <4>1. \A s \in sent' : s.quiet => s \in sent
        BY <2>2, <2>3
      <4>2. \A s, t \in sent : s.quiet /\ SamePart(s, t) => t.text.n = hooks[s.visit][s.doc].shown.n
        BY <1>0 DEF LastSave
      <4>3. \A s \in sent : SamePart(s, new) => new.text.n = hooks[s.visit][s.doc].shown.n
        BY <2>2, <2>9 DEF SamePart
      <4> QED
        BY <2>3, <4>1, <4>2, <4>3
    <3>2. \A s \in sent' : s.visit \in Editor!Visit /\ s.doc \in Doc
      BY <1>4, <2>2, <2>3
    <3>3. \A s \in sent' : s.quiet => s.visit # visit'.now
      BY <1>0, <2>2, <2>3 DEF LastSave
    <3> QED
      BY <1>3, <3>1, <3>2, <3>3 DEF LastSave
  <2>8. Ahead'
    <3>1. lesson.text[d].by = i => lesson.text[d].n <= hooks[i][d].shown.n
      BY <1>0, Visits DEF NotNewer
    <3> QED
      BY <1>0, <2>2, <2>9, <2>3, <3>1 DEF Ahead
  <2> QED
    BY <1>5, <2>4, <2>5, <2>6, <2>7, <2>8 DEF EditorInv, Order
<1> QED
  BY <1>1, <1>6, <1>7

LEMMA TimerKeeps == ASSUME Editor!EditorAssumption, EditorInv, NEW i \in Editor!Visit, NEW d \in Doc, Editor!TimerFires(i, d) PROVE EditorInv'
<1> DEFINE h == [hooks[i][d] EXCEPT !.timer = FALSE]
<1>1. h \in Hook /\ Shows(h, hooks[i][d])
  <2>1. hooks[i][d] \in Hook
    BY DEF EditorInv, EditorTyped
  <2> QED
    BY <2>1 DEF Hook, Shows
<1>2. i <= visit.count
  <2>1. i \in Nat /\ visit.count \in Nat
    BY Visits DEF EditorInv, EditorTyped
  <2> QED
    BY <2>1 DEF EditorInv, Order, NotOpened, Editor!TimerFires
<1>3. Editor!run(i, d, h) /\ UNCHANGED <<visit, op, lesson, lessonCache>>
  BY DEF Editor!TimerFires
<1> HIDE DEF h
<1> QED
  BY <1>1, <1>2, <1>3, RunKeeps, Zenon

LEMMA RetryKeeps == ASSUME Editor!EditorAssumption, EditorInv, NEW i \in Editor!Visit, NEW d \in Doc, Editor!RetryFires(i, d) PROVE EditorInv'
<1> DEFINE h == [hooks[i][d] EXCEPT !.retries = @ - 1]
<1>1. h \in Hook /\ Shows(h, hooks[i][d])
  <2>1. hooks[i][d] \in Hook /\ hooks[i][d].retries > 0
    BY DEF EditorInv, EditorTyped, Editor!RetryFires
  <2>2. hooks[i][d].retries \in Nat /\ hooks[i][d].retries - 1 \in Nat
    BY <2>1 DEF Hook
  <2> QED
    BY <2>1, <2>2 DEF Hook, Shows
<1>2. i <= visit.count
  <2>1. i \in Nat /\ visit.count \in Nat
    BY Visits DEF EditorInv, EditorTyped
  <2> QED
    BY <2>1 DEF EditorInv, Order, NotOpened, Editor!RetryFires
<1>3. Editor!run(i, d, h) /\ UNCHANGED <<visit, op, lesson, lessonCache>>
  BY DEF Editor!RetryFires
<1> HIDE DEF h
<1> QED
  BY <1>1, <1>2, <1>3, RunKeeps, Zenon

-----------------------------------------------------------------------------
(* A save on its way.                                                      *)

\* The save of a part goes on, with the same text.
Goes(s, t) == SamePart(s, t) /\ t.text = s.text /\ t.quiet = s.quiet

LEMMA GoesOn ==
    ASSUME Editor!EditorAssumption, EditorInv, NEW s \in sent, NEW t \in Saved, Goes(s, t), t.at # "asked",
           sent' = (sent \ {s}) \cup {t}, UNCHANGED <<visit, hooks>>
    PROVE  /\ sent' \subseteq Saved /\ OneSave' /\ LastSave'
           /\ \A x \in sent' : x.visit <= visit'.count /\ x.text.n <= hooks'[x.visit][x.doc].shown.n
<1>0. EditorTyped /\ NotNewer /\ OneSave /\ LastSave
  BY DEF EditorInv, Order
<1>1. OneSave'
  BY <1>0 DEF OneSave, Goes, SamePart
<1>2. LastSave'
  BY <1>0 DEF LastSave, Goes, SamePart
<1>3. \A x \in sent' : x.visit <= visit'.count /\ x.text.n <= hooks'[x.visit][x.doc].shown.n
  BY <1>0 DEF NotNewer, Goes, SamePart
<1> QED
  BY <1>0, <1>1, <1>2, <1>3 DEF EditorTyped

\* content-service saves it: it is not older than what is there.
LEMMA ServerKeeps ==
    ASSUME Editor!EditorAssumption, EditorInv, NEW s \in sent, Editor!ServerSaves(s)
    PROVE  EditorInv' /\ \A d \in Doc : lesson'.text[d].by = lesson.text[d].by => lesson'.text[d].n >= lesson.text[d].n
<1>0. EditorTyped /\ NotNewer /\ OneSave /\ LastSave /\ Ahead /\ NotOpened
  BY DEF EditorInv, Order
<1>1. s \in Saved /\ s.visit \in Editor!Visit /\ s.doc \in Doc /\ s.text \in Written /\ s.text.n \in Nat /\ s.text.value \in Value
  BY <1>0 DEF EditorTyped, Saved, Written
<1>2. s.at = "asked" /\ UNCHANGED <<visit, hooks, op, lessonCache>>
  BY DEF Editor!ServerSaves
<1>3. lesson \in Stored /\ \A d \in Doc : lesson.text[d].n \in Nat /\ lesson.text[d].by \in Nat
  BY <1>0 DEF EditorTyped, Stored
<1>4. CASE Editor!Accepts(s)
  <2> DEFINE stored == [lesson EXCEPT !.text[s.doc] = [value |-> s.text.value, n |-> s.text.n, by |-> s.visit]]
  <2> DEFINE t == [s EXCEPT !.at = "saved", !.lesson = Editor!lessonOf(stored)]
  <2>1. lesson' = stored /\ sent' = (sent \ {s}) \cup {t}
    BY <1>4 DEF Editor!ServerSaves
  <2>2. /\ stored \in Stored /\ stored.text[s.doc].n = s.text.n /\ stored.text[s.doc].by = s.visit
        /\ \A d \in Doc : d # s.doc => stored.text[d] = lesson.text[d]
    BY <1>1, <1>3, Visits DEF Stored
  <2> HIDE DEF stored
  <2>3. t \in Saved /\ Goes(s, t) /\ t.at # "asked"
    <3>1. Editor!lessonOf(stored) \in Lesson
      BY <2>2, LessonType
    <3> QED
      BY <1>1, <3>1 DEF Saved, Goes, SamePart
  <2> HIDE DEF t
  <2>4. /\ sent' \subseteq Saved /\ OneSave' /\ LastSave'
        /\ \A x \in sent' : x.visit <= visit'.count /\ x.text.n <= hooks'[x.visit][x.doc].shown.n
    BY <1>2, <2>1, <2>3, GoesOn
  <2>5. EditorTyped'
    BY <1>0, <1>2, <2>1, <2>2, <2>4 DEF EditorTyped
  <2>6. NotNewer'
    <3>1. s.visit <= visit.count /\ s.text.n <= hooks[s.visit][s.doc].shown.n
      BY <1>0 DEF NotNewer
    <3> QED
      BY <1>0, <1>1, <1>2, <2>1, <2>2, <2>4, <3>1 DEF NotNewer
  <2>7. Ahead'
    <3> SUFFICES ASSUME NEW x \in sent', x.at = "asked", lesson'.text[x.doc].by = x.visit
                 PROVE  lesson'.text[x.doc].n <= x.text.n
      BY DEF Ahead
    <3>1. x \in sent /\ x # s /\ x \in Saved /\ x.doc \in Doc /\ x.text.n \in Nat
      BY <1>0, <2>1, <2>3 DEF EditorTyped, Saved, Written
    <3>2. CASE x.doc # s.doc
      BY <1>0, <2>1, <2>2, <3>1, <3>2 DEF Ahead
    <3>3. CASE x.doc = s.doc
      <4>1. SamePart(s, x) /\ SamePart(x, s) /\ SamePart(s, s) /\ SamePart(x, x)
        BY <2>1, <2>2, <3>3 DEF SamePart
      <4>2. s.quiet \/ x.quiet
        BY <1>0, <3>1, <4>1 DEF OneSave
      <4>3. x.text.n = s.text.n
        BY <1>0, <3>1, <4>1, <4>2 DEF LastSave, SamePart
      <4> QED
        BY <1>1, <2>1, <2>2, <3>3, <4>3
    <3> QED
      BY <3>2, <3>3
  <2>8. NotOpened'
    BY <1>0, <1>2 DEF NotOpened
  <2>9. \A d \in Doc : lesson'.text[d].by = lesson.text[d].by => lesson'.text[d].n >= lesson.text[d].n
    <3>1. lesson.text[s.doc].by = s.visit => lesson.text[s.doc].n <= s.text.n
      BY <1>0, <1>2 DEF Ahead
    <3> QED
      BY <1>1, <1>3, <2>1, <2>2, <3>1
  <2> QED
    BY <2>4, <2>5, <2>6, <2>7, <2>8, <2>9 DEF EditorInv, Order
<1>5. CASE ~Editor!Accepts(s)
  <2> DEFINE t == [s EXCEPT !.at = "failed"]
  <2>1. lesson' = lesson /\ sent' = (sent \ {s}) \cup {t}
    BY <1>5 DEF Editor!ServerSaves
  <2>2. t \in Saved /\ Goes(s, t) /\ t.at # "asked"
    BY <1>1 DEF Saved, Goes, SamePart
  <2> HIDE DEF t
  <2>3. /\ sent' \subseteq Saved /\ OneSave' /\ LastSave'
        /\ \A x \in sent' : x.visit <= visit'.count /\ x.text.n <= hooks'[x.visit][x.doc].shown.n
    BY <1>2, <2>1, <2>2, GoesOn
  <2>4. EditorTyped' /\ NotNewer'
    BY <1>0, <1>2, <2>1, <2>3 DEF EditorTyped, NotNewer
  <2>5. Ahead' /\ NotOpened'
    BY <1>0, <1>2, <2>1, <2>2 DEF Ahead, NotOpened
  <2> QED
    BY <1>3, <2>1, <2>3, <2>4, <2>5 DEF EditorInv, Order
<1> QED
  BY <1>4, <1>5

LEMMA FailKeeps == ASSUME Editor!EditorAssumption, EditorInv, NEW s \in sent, Editor!RequestFails(s) PROVE EditorInv'
<1>0. EditorTyped /\ NotNewer /\ OneSave /\ LastSave /\ Ahead /\ NotOpened
  BY DEF EditorInv, Order
<1> DEFINE t == [s EXCEPT !.at = "failed"]
<1>1. sent' = (sent \ {s}) \cup {t} /\ UNCHANGED <<visit, hooks, op, lesson, lessonCache>>
  BY DEF Editor!RequestFails
<1>2. t \in Saved /\ Goes(s, t) /\ t.at # "asked"
  <2>1. s \in Saved
    BY <1>0 DEF EditorTyped
  <2> QED
    BY <2>1 DEF Saved, Goes, SamePart
<1> HIDE DEF t
<1>3. /\ sent' \subseteq Saved /\ OneSave' /\ LastSave'
      /\ \A x \in sent' : x.visit <= visit'.count /\ x.text.n <= hooks'[x.visit][x.doc].shown.n
  BY <1>1, <1>2, GoesOn
<1>4. EditorTyped' /\ NotNewer'
  BY <1>0, <1>1, <1>3 DEF EditorTyped, NotNewer
<1>5. Ahead' /\ NotOpened'
  BY <1>0, <1>1, <1>2 DEF Ahead, NotOpened
<1> QED
  BY <1>3, <1>4, <1>5 DEF EditorInv, Order

LEMMA SettleType ==
    ASSUME NEW h \in Hook, NEW s \in Saved
    PROVE  Editor!settle(h, s) \in Hook /\ Editor!settle(h, s).shown = h.shown /\ Editor!settle(h, s).timer = h.timer
           /\ Editor!settle(h, s).retries = h.retries
  BY DEF Editor!settle, Hook, Saved, Written

\* Its answer comes back: the part may save again.
LEMMA AnswerKeeps == ASSUME Editor!EditorAssumption, EditorInv, NEW s \in sent, Editor!AnswerArrives(s) PROVE EditorInv'
<1>0. EditorTyped /\ NotNewer /\ OneSave /\ LastSave /\ Ahead /\ NotOpened
  BY DEF EditorInv, Order
<1>1. s \in Saved /\ s.visit \in Editor!Visit /\ s.doc \in Doc /\ s.lesson \in Lesson
  BY <1>0 DEF EditorTyped, Saved
<1>2. sent' = sent \ {s} /\ UNCHANGED <<visit, op, lesson>>
  BY DEF Editor!AnswerArrives
<1>3. lessonCache' \in Lesson
  BY <1>0, <1>1 DEF Editor!AnswerArrives, EditorTyped
<1>4. hooks[s.visit][s.doc] \in Hook
  BY <1>0, <1>1 DEF EditorTyped
<1>5. PICK k \in Hook :
        /\ k.shown = hooks[s.visit][s.doc].shown /\ k.timer = hooks[s.visit][s.doc].timer
        /\ k.retries = hooks[s.visit][s.doc].retries
        /\ s.quiet => k = hooks[s.visit][s.doc]
        /\ hooks' = [hooks EXCEPT ![s.visit][s.doc] = k]
  <2>1. CASE s.quiet
    <3>1. hooks' = hooks
      BY <2>1 DEF Editor!AnswerArrives
    <3>2. hooks = [hooks EXCEPT ![s.visit][s.doc] = hooks[s.visit][s.doc]]
      BY <1>0, <1>1 DEF EditorTyped
    <3> QED
      BY <1>4, <3>1, <3>2
  <2>2. CASE ~s.quiet
    <3> DEFINE k == Editor!settle(hooks[s.visit][s.doc], s)
    <3>1. k \in Hook /\ k.shown = hooks[s.visit][s.doc].shown /\ k.timer = hooks[s.visit][s.doc].timer
          /\ k.retries = hooks[s.visit][s.doc].retries
      BY <1>1, <1>4, SettleType
    <3>2. hooks' = [hooks EXCEPT ![s.visit][s.doc] = k]
      BY <1>0, <1>1, <2>2 DEF Editor!AnswerArrives, EditorTyped
    <3> QED
      BY <2>2, <3>1, <3>2
  <2> QED
    BY <2>1, <2>2
<1>6. /\ hooks' \in [Editor!Visit -> [Doc -> Hook]] /\ hooks'[s.visit][s.doc] = k
      /\ \A j \in Editor!Visit, e \in Doc : j # s.visit \/ e # s.doc => hooks'[j][e] = hooks[j][e]
  BY <1>0, <1>1, <1>5 DEF EditorTyped
<1>7. \A j \in Editor!Visit, e \in Doc : /\ hooks'[j][e].shown = hooks[j][e].shown
                                         /\ hooks'[j][e].timer = hooks[j][e].timer
                                         /\ hooks'[j][e].retries = hooks[j][e].retries
  BY <1>5, <1>6
<1>8. \A x \in sent : x \in Saved /\ x.visit \in Editor!Visit /\ x.doc \in Doc
  BY <1>0 DEF EditorTyped, Saved
<1>9. EditorTyped'
  BY <1>0, <1>2, <1>3, <1>6 DEF EditorTyped
<1>10. NotNewer'
  BY <1>0, <1>2, <1>7, <1>8 DEF NotNewer
<1>11. OneSave'
  <2>1. \A x \in sent' : ~x.quiet => hooks'[x.visit][x.doc].saving
    <3> SUFFICES ASSUME NEW x \in sent', ~x.quiet PROVE hooks'[x.visit][x.doc].saving
      OBVIOUS
    <3>1. x \in sent /\ x # s /\ hooks[x.visit][x.doc].saving
      BY <1>0, <1>2 DEF OneSave
    <3>2. CASE s.quiet
      BY <1>1, <1>5, <1>6, <1>8, <3>1, <3>2
    <3>3. CASE ~s.quiet
      <4>1. ~SamePart(s, x)
        BY <1>0, <3>1, <3>3 DEF OneSave
      <4> QED
        BY <1>6, <1>8, <3>1, <4>1 DEF SamePart
    <3> QED
      BY <3>2, <3>3
  <2> QED
    BY <1>0, <1>2, <2>1 DEF OneSave
<1>12. LastSave'
  BY <1>0, <1>2, <1>7, <1>8 DEF LastSave
<1>13. Ahead' /\ NotOpened'
  BY <1>0, <1>2, <1>7 DEF Ahead, NotOpened
<1> QED
  BY <1>9, <1>10, <1>11, <1>12, <1>13 DEF EditorInv, Order

-----------------------------------------------------------------------------
(* The page.                                                               *)

\* Another visit begins: nothing sent or stored is of it.
LEMMA ContentKeeps == ASSUME Editor!EditorAssumption, EditorInv, NEW fresh \in BOOLEAN, Editor!LessonEditorContent(fresh) PROVE EditorInv'
<1>0. EditorTyped /\ NotNewer /\ OneSave /\ LastSave /\ Ahead /\ NotOpened
  BY DEF EditorInv, Order
<1> DEFINE new == visit.count + 1
<1>1. /\ visit.count \in Nat /\ visit.now \in Nat /\ MaxVisits \in Nat
      /\ visit.now = 0 /\ visit.count < MaxVisits
  BY <1>0, Visits DEF EditorTyped, Editor!LessonEditorContent, Editor!Here
<1>2. new \in Editor!Visit
  BY <1>1 DEF Editor!Visit
<1>3. lessonCache' \in Lesson
  <2>1. Editor!lessonOf(lesson) \in Lesson
    BY <1>0, LessonType DEF EditorTyped
  <2> QED
    BY <1>0, <2>1 DEF Editor!LessonEditorContent, EditorTyped
<1>4. /\ visit' = [now |-> new, count |-> new] /\ UNCHANGED <<sent, op, lesson>>
      /\ hooks' = [hooks EXCEPT ![new] = [d \in Doc |-> Editor!seeded(lessonCache'.text[d])]]
  BY DEF Editor!LessonEditorContent
<1>5. \A d \in Doc : Editor!seeded(lessonCache'.text[d]) \in Hook
  <2>1. \A d \in Doc : lessonCache'.text[d] \in Value
    BY <1>3 DEF Lesson
  <2> QED
    BY <2>1, SeededType
<1>6. /\ hooks' \in [Editor!Visit -> [Doc -> Hook]]
      /\ \A i \in Editor!Visit : i # new => hooks'[i] = hooks[i]
  BY <1>0, <1>2, <1>4, <1>5 DEF EditorTyped
<1>7. \A s \in sent : s \in Saved /\ s.visit \in Editor!Visit /\ s.visit # new /\ s.visit <= visit.count
  <2>1. \A s \in sent : s \in Saved /\ s.visit \in Editor!Visit /\ s.visit <= visit.count
    BY <1>0 DEF EditorTyped, Saved, NotNewer
  <2> QED
    BY <1>1, <2>1, Visits
<1>8. visit'.now = new /\ visit'.count = new /\ new \in Nat /\ visit.count <= new /\ new <= MaxVisits
  BY <1>1, <1>4
<1> HIDE DEF new
<1>9. EditorTyped'
  BY <1>0, <1>3, <1>4, <1>6, <1>8 DEF EditorTyped
<1>10. NotNewer'
  <2>1. \A s \in sent' : s.visit <= visit'.count /\ s.text.n <= hooks'[s.visit][s.doc].shown.n
    <3>1. \A s \in sent : s.visit <= new
      BY <1>1, <1>7, <1>8, Visits
    <3> QED
      BY <1>0, <1>4, <1>6, <1>7, <1>8, <3>1 DEF NotNewer
  <2>2. \A d \in Doc : lesson.text[d].by # 0 =>
          /\ lesson.text[d].by \in Editor!Visit /\ lesson.text[d].by <= new /\ lesson.text[d].by # new
          /\ lesson.text[d].n <= hooks[lesson.text[d].by][d].shown.n
    <3>1. \A d \in Doc : lesson.text[d].by # 0 =>
          /\ lesson.text[d].by \in Editor!Visit /\ lesson.text[d].by <= visit.count
          /\ lesson.text[d].n <= hooks[lesson.text[d].by][d].shown.n
      BY <1>0 DEF NotNewer
    <3>2. \A i \in Editor!Visit : i <= visit.count => i <= new /\ i # new
      BY <1>1, Visits DEF new
    <3> QED
      BY <3>1, <3>2
  <2> QED
    BY <1>4, <1>6, <1>8, <2>1, <2>2 DEF NotNewer
<1>11. OneSave' /\ LastSave' /\ Ahead'
  BY <1>0, <1>4, <1>6, <1>7, <1>8 DEF OneSave, LastSave, Ahead
<1>12. NotOpened'
  <2>1. \A i \in Editor!Visit : i > new => i > visit.count /\ i # new
    BY <1>1, Visits DEF new
  <2> QED
    BY <1>0, <1>6, <1>8, <2>1 DEF NotOpened
<1> QED
  BY <1>9, <1>10, <1>11, <1>12 DEF EditorInv, Order

\* What is sent on leaving.
LEMMA LeavesType ==
    ASSUME Editor!EditorAssumption, NEW i \in Editor!Visit, \A d \in Doc : hooks[i][d] \in Hook
    PROVE  \A x \in Editor!leaves(i) : /\ x \in Saved /\ x.visit = i /\ x.doc \in Doc /\ x.quiet
                                       /\ x.text = hooks[i][x.doc].shown /\ ~hooks[i][x.doc].saving
<1> SUFFICES ASSUME NEW x \in Editor!leaves(i)
             PROVE  /\ x \in Saved /\ x.visit = i /\ x.doc \in Doc /\ x.quiet
                    /\ x.text = hooks[i][x.doc].shown /\ ~hooks[i][x.doc].saving
  OBVIOUS
<1>1. PICK d \in Doc : x = Editor!save(i, d, hooks[i][d].shown, TRUE) /\ ~hooks[i][d].saving
  BY DEF Editor!leaves
<1>2. hooks[i][d].shown \in Written
  BY DEF Hook
<1>3. PICK text \in Written : text = hooks[i][d].shown
  BY <1>2
<1>4. PICK new \in Saved : new = Editor!save(i, d, text, TRUE) /\ new.visit = i /\ new.doc = d /\ new.quiet /\ new.text = text
  BY QuietType
<1>5. x = new
  BY <1>1, <1>3, <1>4
<1> QED
  BY <1>1, <1>3, <1>4, <1>5

\* Leaving: what waits is sent, of the parts with no save on its way.
LEMMA LeaveKeeps ==
    ASSUME Editor!EditorAssumption, EditorInv, Editor!Here, op' \in Operations,
           lessonCache' \in Lesson, lesson' = lesson,
           hooks' = [hooks EXCEPT ![visit.now] = [d \in Doc |-> Editor!unmount(@[d])]],
           sent' = sent \cup Editor!leaves(visit.now), visit' = [visit EXCEPT !.now = 0]
    PROVE  EditorInv'
<1>0. EditorTyped /\ NotNewer /\ OneSave /\ LastSave /\ Ahead /\ NotOpened
  BY DEF EditorInv, Order
<1> DEFINE i == visit.now
<1>1. i \in Editor!Visit
  BY <1>0, OnScreen
<1>2. visit'.now = 0 /\ visit'.count = visit.count /\ visit' \in [now : Nat, count : Nat] /\ i <= visit.count
      /\ visit.count \in Nat
  BY <1>0 DEF EditorTyped
<1>3. \A d \in Doc : hooks[i][d] \in Hook
  BY <1>0, <1>1 DEF EditorTyped
<1>4. \A d \in Doc : /\ Editor!unmount(hooks[i][d]) \in Hook /\ Editor!unmount(hooks[i][d]).shown = hooks[i][d].shown
                     /\ Editor!unmount(hooks[i][d]).saving = hooks[i][d].saving
  BY <1>3 DEF Editor!unmount, Hook
<1>5. /\ hooks' \in [Editor!Visit -> [Doc -> Hook]]
      /\ \A d \in Doc : hooks'[i][d] = Editor!unmount(hooks[i][d])
      /\ \A j \in Editor!Visit : j # i => hooks'[j] = hooks[j]
  BY <1>0, <1>1, <1>4 DEF EditorTyped
<1> HIDE DEF i
<1>6. \A j \in Editor!Visit, e \in Doc : hooks'[j][e].shown = hooks[j][e].shown /\ hooks'[j][e].saving = hooks[j][e].saving
  BY <1>1, <1>4, <1>5
<1>7. \A x \in Editor!leaves(i) : /\ x \in Saved /\ x.visit = i /\ x.doc \in Doc /\ x.quiet
                                  /\ x.text = hooks[i][x.doc].shown /\ ~hooks[i][x.doc].saving
  BY <1>1, <1>3, LeavesType
<1>8. sent' = sent \cup Editor!leaves(i)
  BY DEF i
<1>9. \A s \in sent : s \in Saved /\ s.visit \in Editor!Visit /\ s.doc \in Doc
  BY <1>0 DEF EditorTyped, Saved
<1>10. \A d \in Doc : hooks[i][d].shown.n \in Nat
  BY <1>3 DEF Hook, Written
<1>11. EditorTyped'
  BY <1>0, <1>2, <1>5, <1>7, <1>8 DEF EditorTyped
<1>12. NotNewer'
  <2>1. \A s \in sent' : s.visit <= visit.count /\ s.text.n <= hooks[s.visit][s.doc].shown.n
    BY <1>0, <1>2, <1>7, <1>8, <1>10 DEF NotNewer
  <2>2. \A s \in sent' : s.visit \in Editor!Visit /\ s.doc \in Doc
    BY <1>1, <1>7, <1>8, <1>9
  <2> QED
    BY <1>0, <1>2, <1>6, <2>1, <2>2 DEF NotNewer
<1>13. OneSave'
  BY <1>0, <1>6, <1>7, <1>8, <1>9 DEF OneSave
<1>14. LastSave'
  <2>1. \A s \in sent' : s.quiet => s.visit # 0
    BY <1>1, <1>7, <1>8, <1>9, Visits
  <2>2. \A s \in sent : s.visit = i => ~s.quiet
    BY <1>0 DEF LastSave, i
  <2>3. \A s \in Editor!leaves(i), t \in sent' : SamePart(s, t) => t.text.n = hooks[s.visit][s.doc].shown.n
    <3> SUFFICES ASSUME NEW s \in Editor!leaves(i), NEW t \in sent', SamePart(s, t)
                 PROVE  t.text.n = hooks[s.visit][s.doc].shown.n
      OBVIOUS
    <3>1. s.visit = i /\ s.doc = t.doc /\ t.visit = i /\ ~hooks[i][s.doc].saving
      BY <1>7 DEF SamePart
    <3>2. CASE t \in Editor!leaves(i)
      BY <1>7, <3>1, <3>2
    <3>3. CASE t \in sent
      BY <1>0, <2>2, <3>1, <3>3 DEF OneSave
    <3> QED
      BY <1>8, <3>2, <3>3
  <2>4. \A s \in sent, t \in sent' : s.quiet /\ SamePart(s, t) => t \in sent
    BY <1>7, <1>8, <2>2 DEF SamePart
  <2>5. \A s, t \in sent' : s.quiet /\ SamePart(s, t) => t.text.n = hooks[s.visit][s.doc].shown.n
    BY <1>0, <1>8, <2>3, <2>4 DEF LastSave
  <2>6. \A s \in sent' : s.visit \in Editor!Visit /\ s.doc \in Doc
    BY <1>1, <1>7, <1>8, <1>9
  <2> QED
    BY <1>2, <1>6, <2>1, <2>5, <2>6 DEF LastSave
<1>15. Ahead'
  <2>1. \A x \in Editor!leaves(i) : lesson.text[x.doc].by = i => lesson.text[x.doc].n <= x.text.n
    BY <1>0, <1>1, <1>7, Visits DEF NotNewer
  <2> QED
    BY <1>0, <1>7, <1>8, <2>1 DEF Ahead
<1>16. NotOpened'
  <2>1. \A j \in Editor!Visit : j > visit.count => j # i
    BY <1>2, Visits
  <2> QED
    BY <1>0, <1>2, <1>5, <2>1 DEF NotOpened
<1> QED
  BY <1>11, <1>12, <1>13, <1>14, <1>15, <1>16 DEF EditorInv, Order

\* What leaves the autosaves, their saves and the texts stored alone.
LEMMA RestKeeps ==
    ASSUME EditorInv, UNCHANGED <<visit, hooks, sent>>, op' \in Operations,
           lessonCache' \in Lesson, lesson' \in Stored, lesson'.text = lesson.text
    PROVE  EditorInv'
<1>0. EditorTyped /\ NotNewer /\ OneSave /\ LastSave /\ Ahead /\ NotOpened
  BY DEF EditorInv, Order
<1>1. EditorTyped'
  BY <1>0 DEF EditorTyped
<1>2. NotNewer' /\ OneSave' /\ LastSave'
  BY <1>0 DEF NotNewer, OneSave, LastSave
<1>3. Ahead' /\ NotOpened'
  BY <1>0 DEF Ahead, NotOpened
<1> QED
  BY <1>1, <1>2, <1>3 DEF EditorInv, Order

LEMMA PageKeeps ==
    ASSUME Editor!EditorAssumption, EditorInv,
           \/ Editor!useLessonDetail \/ Editor!goBack \/ Editor!doPublish \/ Editor!ServerPublishes \/ Editor!PublishAnswer \/ Editor!doDelete
           \/ (\E ok \in BOOLEAN : Editor!ServerDeletes(ok)) \/ Editor!DeleteAnswer
    PROVE  EditorInv' /\ lesson'.text = lesson.text
<1>0. EditorTyped
  BY DEF EditorInv
<1> USE DEF Operations
<1>1. lesson \in Stored /\ lessonCache \in Lesson /\ op.lesson \in Lesson /\ Editor!lessonOf(lesson) \in Lesson
  BY <1>0, LessonType DEF EditorTyped
<1>2. op \in Operations
  BY <1>0 DEF EditorTyped
<1>3. CASE Editor!useLessonDetail
  BY <1>1, <1>2, <1>3, RestKeeps DEF Editor!useLessonDetail
<1>4. CASE Editor!goBack
  BY <1>1, <1>2, <1>4, LeaveKeeps DEF Editor!goBack
<1>5. CASE Editor!doPublish
  <2>1. op' \in Operations
    BY <1>2, <1>5 DEF Editor!doPublish
  <2> QED
    BY <1>1, <1>5, <2>1, RestKeeps DEF Editor!doPublish
<1>6. CASE Editor!ServerPublishes
  <2>1. lesson' \in Stored /\ lesson'.text = lesson.text
    BY <1>1, <1>6 DEF Editor!ServerPublishes, Stored
  <2>2. Editor!lessonOf(lesson') \in Lesson
    BY <2>1, LessonType
  <2>3. op' \in Operations
    BY <1>2, <1>6, <2>2 DEF Editor!ServerPublishes
  <2> QED
    BY <1>1, <1>6, <2>1, <2>3, RestKeeps DEF Editor!ServerPublishes
<1>7. CASE Editor!PublishAnswer
  <2>1. op' \in Operations /\ lessonCache' \in Lesson
    BY <1>1, <1>2, <1>7 DEF Editor!PublishAnswer
  <2> QED
    BY <1>1, <1>7, <2>1, RestKeeps DEF Editor!PublishAnswer
<1>8. CASE Editor!doDelete
  <2>1. op' \in Operations
    BY <1>2, <1>8 DEF Editor!doDelete
  <2> QED
    BY <1>1, <1>8, <2>1, RestKeeps DEF Editor!doDelete
<1>9. ASSUME NEW ok \in BOOLEAN, Editor!ServerDeletes(ok) PROVE EditorInv' /\ lesson'.text = lesson.text
  <2>1. op' \in Operations
    BY <1>2, <1>9 DEF Editor!ServerDeletes
  <2>2. lesson' \in Stored /\ lesson'.text = lesson.text
    BY <1>1, <1>9 DEF Editor!ServerDeletes, Stored
  <2> QED
    BY <1>1, <1>9, <2>1, <2>2, RestKeeps DEF Editor!ServerDeletes
<1>10. CASE Editor!DeleteAnswer
  <2>1. op' \in Operations
    BY <1>2, <1>10 DEF Editor!DeleteAnswer
  <2>2. lessonCache' \in Lesson
    <3>1. [lessonCache EXCEPT !.status = "gone"] \in Lesson
      BY <1>1 DEF Lesson
    <3> QED
      BY <1>1, <1>10, <3>1 DEF Editor!DeleteAnswer
  <2>3. CASE op.delete = "done" /\ Editor!Here
    BY <1>10, <2>1, <2>2, <2>3, LeaveKeeps DEF Editor!DeleteAnswer
  <2>4. CASE ~(op.delete = "done" /\ Editor!Here)
    BY <1>1, <1>10, <2>1, <2>2, <2>4, RestKeeps DEF Editor!DeleteAnswer
  <2> QED
    BY <2>3, <2>4
<1> QED
  BY <1>3, <1>4, <1>5, <1>6, <1>7, <1>8, <1>9, <1>10

-----------------------------------------------------------------------------
(* The theorems.                                                           *)

Forward == \A d \in Doc : lesson'.text[d].by = lesson.text[d].by => lesson'.text[d].n >= lesson.text[d].n

LEMMA StaysForward == ASSUME EditorInv, lesson'.text = lesson.text PROVE Forward
<1>1. \A d \in Doc : lesson.text[d].n \in Nat
  BY DEF EditorInv, EditorTyped, Stored
<1> QED
  BY <1>1 DEF Forward

LEMMA EditorStep == ASSUME Editor!EditorAssumption, EditorInv, [Editor!Next]_Editor!vars PROVE EditorInv' /\ Forward
<1>1. ASSUME NEW d \in Doc, NEW v \in Value, Editor!edit(d, v) PROVE EditorInv' /\ Forward
  <2>1. lesson' = lesson
    BY <1>1 DEF Editor!edit
  <2> QED
    BY <1>1, <2>1, EditKeeps, StaysForward
<1>2. ASSUME NEW i \in Editor!Visit, NEW d \in Doc, Editor!TimerFires(i, d) PROVE EditorInv' /\ Forward
  <2>1. lesson' = lesson
    BY <1>2 DEF Editor!TimerFires
  <2> QED
    BY <1>2, <2>1, TimerKeeps, StaysForward
<1>3. ASSUME NEW i \in Editor!Visit, NEW d \in Doc, Editor!RetryFires(i, d) PROVE EditorInv' /\ Forward
  <2>1. lesson' = lesson
    BY <1>3 DEF Editor!RetryFires
  <2> QED
    BY <1>3, <2>1, RetryKeeps, StaysForward
<1>4. ASSUME NEW s \in sent, Editor!ServerSaves(s) PROVE EditorInv' /\ Forward
  BY <1>4, ServerKeeps DEF Forward
<1>5. ASSUME NEW s \in sent, Editor!RequestFails(s) PROVE EditorInv' /\ Forward
  <2>1. lesson' = lesson
    BY <1>5 DEF Editor!RequestFails
  <2> QED
    BY <1>5, <2>1, FailKeeps, StaysForward
<1>6. ASSUME NEW s \in sent, Editor!AnswerArrives(s) PROVE EditorInv' /\ Forward
  <2>1. lesson' = lesson
    BY <1>6 DEF Editor!AnswerArrives
  <2> QED
    BY <1>6, <2>1, AnswerKeeps, StaysForward
<1>7. ASSUME NEW fresh \in BOOLEAN, Editor!LessonEditorContent(fresh) PROVE EditorInv' /\ Forward
  <2>1. lesson' = lesson
    BY <1>7 DEF Editor!LessonEditorContent
  <2> QED
    BY <1>7, <2>1, ContentKeeps, StaysForward
<1>8. CASE \/ Editor!useLessonDetail \/ Editor!goBack \/ Editor!doPublish \/ Editor!ServerPublishes \/ Editor!PublishAnswer \/ Editor!doDelete
           \/ (\E ok \in BOOLEAN : Editor!ServerDeletes(ok)) \/ Editor!DeleteAnswer
  BY <1>8, PageKeeps, StaysForward
<1>9. CASE UNCHANGED Editor!vars
  <2>1. UNCHANGED <<visit, hooks, sent, op, lesson, lessonCache>>
    BY <1>9 DEF Editor!vars
  <2> QED
    BY <2>1, RestKeeps, StaysForward DEF EditorInv, EditorTyped
<1> QED
  BY <1>1, <1>2, <1>3, <1>4, <1>5, <1>6, <1>7, <1>8, <1>9 DEF Editor!Next

\* Whatever is typed, sent, answered, published, left and opened again, the
\* state of the autosaves is as above: one save of a part at a time (save of
\* useAutosave.ts) and one more on leaving.
THEOREM OneSaveAtATime == Editor!Spec => []EditorInv
<1>1. Editor!Init => EditorInv
  BY EditorInit, LessonAssumption
<1>2. EditorInv /\ [Editor!Next]_Editor!vars => EditorInv'
  BY EditorStep, LessonAssumption
<1> QED
  BY <1>1, <1>2, PTL DEF Editor!Spec

\* content-service never goes back from a later edit of a visit to an earlier
\* one (useAutosave.ts:15), however the timers, the answers, a failure and the
\* save of leaving interleave.
THEOREM SavesInOrder == Editor!Spec => OlderNeverWins
<1>1. Editor!Init => EditorInv
  BY EditorInit, LessonAssumption
<1>2. EditorInv /\ [Editor!Next]_Editor!vars => EditorInv' /\ [Forward]_Editor!vars
  BY EditorStep, LessonAssumption
<1> QED
  BY <1>1, <1>2, PTL DEF Editor!Spec, OlderNeverWins, Editor!OlderNeverWins, Forward

-----------------------------------------------------------------------------
(* The player of a lesson.                                                 *)

Save == [part : Player!Part, page : Int, n : Nat, at : {"asked", "saved", "failed"}]
Reach == [sent : [Player!Part -> Int], waiting : SUBSET Save, flying : SUBSET Save]
Steps == {"intro", "hub", "extras", "invite", "pages", "briefing", "result", "quiz", "leaving", "changed"}
Answer == [kind : {"check", "submit"}, mount : Nat, part : Player!Part, at : Int, answers : SUBSET Int, try : Nat,
           version : Nat, state : {"asked", "ok", "failed", "changed", "pause"}]
Content == [last : [Player!Part -> [page : Int, n : Nat, by : Nat]], seen : [Player!Part -> Int],
            kept : SUBSET [part : Player!Part, mount : Nat, try : Nat], version : Nat]

PlayerTyped ==
    /\ now \in [mount : Nat, count : Nat, version : Nat] /\ now.mount <= now.count /\ now.count <= MaxPlayerMounts
    /\ step \in [kind : Steps, part : Player!Part, at : Int]
    /\ known \in [seen : [Player!Part -> Int], last : [Player!Part -> Int], done : SUBSET Player!Part, invite : BOOLEAN]
    /\ reach \in [Player!Mount -> Reach]
    /\ quiz \in [phase : {"asking", "checking", "answered", "grading", "not_sent"}, answers : SUBSET Int, try : Nat]
    /\ asks \subseteq Answer
    /\ content \in Content
    /\ turns \in Nat

(***************************************************************************)
(* What makes it inductive.  The saves of a mount stand in line: one is on *)
(* its way, one of each part waits, later turns behind earlier ones; and   *)
(* all of them are later than what content-service has of the mount.       *)
(***************************************************************************)
Line(r, limit) ==
    /\ \A f, g \in r.flying : f = g
    /\ \A v, w \in r.waiting : v.part = w.part => v = w
    /\ \A w \in r.waiting \cup r.flying : w.n <= limit
    /\ \A w \in r.waiting, f \in r.flying : w.part = f.part => f.n < w.n
LaterThan(last, r, m) ==
    \A w \in r.waiting \cup r.flying : last[w.part].by = m => last[w.part].n <= w.n

InLine ==
    /\ \A m \in Player!Mount : Line(reach[m], turns) /\ LaterThan(content.last, reach[m], m)
    /\ \A x \in Player!Part : content.last[x].n <= turns
PlayerInv == PlayerTyped /\ InLine

LEMMA PlayerSizes ==
    /\ "" \in Player!Part /\ Extra \subseteq Player!Part
    /\ partPages \in [Player!Part -> Nat] /\ partQuestions \in [Player!Part -> Nat]
    /\ MaxPlayerMounts \in Nat /\ Player!Mount = 1..MaxPlayerMounts
  BY LessonAssumption DEF Player!PlayerAssumption, Player!Part, Player!Mount

\* Sending the next one changes no one's place in the line.
LEMMA FlushKeeps ==
    ASSUME NEW r \in Reach, NEW limit \in Nat, Line(r, limit)
    PROVE  /\ Player!flush(r) \in Reach /\ Line(Player!flush(r), limit)
           /\ Player!flush(r).waiting \cup Player!flush(r).flying = r.waiting \cup r.flying
<1>1. CASE r.waiting = {} \/ r.flying # {}
  BY <1>1 DEF Player!flush
<1>2. CASE r.waiting # {} /\ r.flying = {}
  <2> DEFINE next == CHOOSE w \in r.waiting : TRUE
             rest == [r EXCEPT !.waiting = @ \ {next}, !.flying = @ \cup {next}]
  <2>1. next \in r.waiting
    BY <1>2
  <2>2. Player!flush(r) = rest
    BY <1>2 DEF Player!flush
  <2> HIDE DEF next
  <2>3. rest.waiting = r.waiting \ {next} /\ rest.flying = {next}
    BY <1>2 DEF Reach
  <2>4. rest \in Reach
    BY <2>1 DEF Reach
  <2>5. Line(rest, limit)
    <3> HIDE DEF rest
    <3>1. \A w \in rest.waiting : w \in Save /\ w.part # next.part
      BY <2>1, <2>3 DEF Line, Reach
    <3> QED
      BY <2>1, <2>3, <3>1 DEF Line
  <2> HIDE DEF rest
  <2> QED
    BY <2>1, <2>2, <2>3, <2>4, <2>5, <1>2
<1> QED
  BY <1>1, <1>2

\* A page turned stands last, and the one of its part that waited is gone.
LEMMA TurnStandsLast ==
    ASSUME NEW r \in Reach, NEW x \in Player!Part, NEW page \in Int, NEW n \in Nat, Line(r, n)
    PROVE  LET after == Player!reachPage(r, x, page, n + 1) IN
           /\ after \in Reach /\ Line(after, n + 1)
           /\ \A w \in after.waiting \cup after.flying : w \in r.waiting \cup r.flying \/ w.n = n + 1
<1> DEFINE new == [part |-> x, page |-> page, n |-> n + 1, at |-> "asked"]
           queued == [r EXCEPT !.waiting = {w \in @ : w.part # x} \cup {new}]
<1>1. CASE ~Player!Waits(r, x) /\ r.sent[x] = page
  <2>1. Player!reachPage(r, x, page, n + 1) = r
    BY <1>1 DEF Player!reachPage
  <2>2. \A w \in r.waiting \cup r.flying : w.n \in Nat
    BY DEF Reach, Save
  <2> QED
    BY <2>1, <2>2 DEF Line
<1>2. CASE ~(~Player!Waits(r, x) /\ r.sent[x] = page)
  <2>1. Player!reachPage(r, x, page, n + 1) = Player!flush(queued)
    BY <1>2 DEF Player!reachPage
  <2>2. new \in Save /\ new.part = x /\ new.n = n + 1
    BY DEF Save
  <2> HIDE DEF new
  <2>3. queued.waiting = {w \in r.waiting : w.part # x} \cup {new} /\ queued.flying = r.flying
    BY DEF Reach
  <2>4. queued \in Reach
    BY <2>2 DEF Reach
  <2> HIDE DEF queued
  <2>5. Line(queued, n + 1)
    <3>1. \A w \in r.waiting \cup r.flying : w.n \in Nat /\ w.n < n + 1
      BY DEF Reach, Save, Line
    <3> QED
      BY <2>2, <2>3, <3>1 DEF Line
  <2>6. /\ Player!flush(queued) \in Reach /\ Line(Player!flush(queued), n + 1)
        /\ Player!flush(queued).waiting \cup Player!flush(queued).flying = queued.waiting \cup queued.flying
    BY <2>4, <2>5, FlushKeeps
  <2> QED
    BY <2>1, <2>2, <2>3, <2>6
<1> QED
  BY <1>1, <1>2

LEMMA StepMade ==
    ASSUME NEW k \in Steps, NEW x \in Player!Part
    PROVE  /\ [kind |-> k, part |-> x, at |-> 0] \in [kind : Steps, part : Player!Part, at : Int]
           /\ \A n \in Int : [kind |-> k, part |-> x, at |-> n] \in [kind : Steps, part : Player!Part, at : Int]
  OBVIOUS

LEMMA PlayerInit == Player!Init => PlayerInv
<1> SUFFICES ASSUME Player!Init PROVE PlayerInv
  OBVIOUS
<1>1. PlayerTyped
  <2>1. /\ now = [mount |-> 0, count |-> 0, version |-> 1] /\ step = [kind |-> "intro", part |-> "", at |-> 0]
        /\ quiz = [phase |-> "asking", answers |-> {}, try |-> 0] /\ asks = {} /\ turns = 0
    BY DEF Player!Init, Player!Start, Player!Asking
  <2>2. now \in [mount : Nat, count : Nat, version : Nat] /\ now.mount <= now.count /\ now.count <= MaxPlayerMounts
    <3>1. now.mount = 0 /\ now.count = 0
      BY <2>1
    <3>2. now \in [mount : Nat, count : Nat, version : Nat]
      BY <2>1
    <3>3. MaxPlayerMounts \in Nat
      BY PlayerSizes
    <3> QED
      BY <3>1, <3>2, <3>3
  <2>4. step \in [kind : Steps, part : Player!Part, at : Int]
    <3>1. "" \in Player!Part /\ "intro" \in Steps
      BY PlayerSizes DEF Steps
    <3> HIDE DEF Steps
    <3> QED
      BY <2>1, <3>1, StepMade
  <2>5. quiz \in [phase : {"asking", "checking", "answered", "grading", "not_sent"}, answers : SUBSET Int, try : Nat]
    BY <2>1
  <2>3. /\ known \in [seen : [Player!Part -> Int], last : [Player!Part -> Int], done : SUBSET Player!Part, invite : BOOLEAN]
        /\ reach \in [Player!Mount -> Reach]
        /\ content \in Content
    BY DEF Player!Init, Reach, Content
  <2> QED
    BY <2>1, <2>2, <2>3, <2>4, <2>5 DEF PlayerTyped
<1>2. InLine
  BY DEF InLine, Line, LaterThan, Player!Init
<1> QED
  BY <1>1, <1>2 DEF PlayerInv

\* A step that touches neither the line, nor what content-service has of it,
\* nor the turns keeps everyone's place.
LEMMA PlaceKept ==
    ASSUME InLine, reach' = reach, content'.last = content.last, turns' = turns
    PROVE  InLine'
  BY DEF InLine, Line, LaterThan


LEMMA PlaceIsKept ==
    ASSUME PlayerInv, PlayerTyped', reach' = reach, content'.last = content.last, turns' = turns
    PROVE  PlayerInv'
  BY PlaceKept DEF PlayerInv

\* Another step on screen, and nothing else.
LEMMA GoesKeeps ==
    ASSUME PlayerInv, NEW to \in [kind : Steps, part : Player!Part, at : Int], Player!Goes(to)
    PROVE  PlayerInv'
<1>1. PlayerTyped'
  BY DEF PlayerInv, PlayerTyped, Player!Goes
<1> QED
  BY <1>1, PlaceIsKept DEF Player!Goes

LEMMA Starts ==
    ASSUME NEW k \in Steps
    PROVE  Player!Start(k) \in [kind : Steps, part : Player!Part, at : Int]
<1>1. "" \in Player!Part
  BY PlayerSizes
<1> QED
  BY <1>1, StepMade DEF Player!Start

LEMMA Homes ==
    ASSUME NEW x
    PROVE  Player!Home(x) \in [kind : Steps, part : Player!Part, at : Int]
<1>1. "hub" \in Steps /\ "extras" \in Steps
  BY DEF Steps
<1> QED
  BY <1>1, Starts DEF Player!Home

LEMMA OtherSteps ==
    ASSUME PlayerInv, NEW k \in Steps
    PROVE  /\ [step EXCEPT !.kind = k] \in [kind : Steps, part : Player!Part, at : Int]
           /\ \A n \in Int : [step EXCEPT !.kind = k, !.at = n] \in [kind : Steps, part : Player!Part, at : Int]
  BY DEF PlayerInv, PlayerTyped

LEMMA Turn ==
    ASSUME PlayerInv, NEW x \in Player!Part, NEW page \in Int, now.mount # 0, Player!showPage(x, page)
    PROVE  PlayerInv'
<1> DEFINE m0 == now.mount
           after == Player!reachPage(reach[m0], x, page, turns + 1)
<1>0. m0 \in Player!Mount
  <2>1. now.mount \in Nat /\ now.count \in Nat /\ now.mount <= now.count /\ now.count <= MaxPlayerMounts
    BY DEF PlayerInv, PlayerTyped
  <2>2. Player!Mount = 1..MaxPlayerMounts /\ MaxPlayerMounts \in Nat
    BY PlayerSizes
  <2> QED
    BY <2>1, <2>2
<1> HIDE DEF m0
<1>1. reach[m0] \in Reach /\ Line(reach[m0], turns) /\ turns \in Nat
  BY <1>0 DEF PlayerInv, PlayerTyped, InLine
<1>2. /\ after \in Reach /\ Line(after, turns + 1)
      /\ \A w \in after.waiting \cup after.flying : w \in reach[m0].waiting \cup reach[m0].flying \/ w.n = turns + 1
  BY <1>1, TurnStandsLast
<1>3. /\ reach' = [reach EXCEPT ![m0] = after] /\ turns' = turns + 1
      /\ step' = [kind |-> "pages", part |-> x, at |-> page]
      /\ known' = [known EXCEPT !.last[x] = page, !.seen[x] = Player!Larger(@, page)]
      /\ UNCHANGED <<now, quiz, asks, content>>
  BY DEF Player!showPage, m0
<1> HIDE DEF after
<1>4. PlayerTyped'
  <2>1. step' \in [kind : Steps, part : Player!Part, at : Int]
    BY <1>3 DEF Steps
  <2>2. known' \in [seen : [Player!Part -> Int], last : [Player!Part -> Int], done : SUBSET Player!Part, invite : BOOLEAN]
    <3>1. known \in [seen : [Player!Part -> Int], last : [Player!Part -> Int], done : SUBSET Player!Part, invite : BOOLEAN]
      BY DEF PlayerInv, PlayerTyped
    <3>2. Player!Larger(known.seen[x], page) \in Int
      BY <3>1 DEF Player!Larger
    <3> QED
      BY <1>3, <3>1, <3>2
  <2>3. reach' \in [Player!Mount -> Reach]
    BY <1>0, <1>2, <1>3 DEF PlayerInv, PlayerTyped
  <2> QED
    BY <1>3, <2>1, <2>2, <2>3 DEF PlayerInv, PlayerTyped
<1>5. reach' \in [Player!Mount -> Reach] /\ reach \in [Player!Mount -> Reach] /\ content' = content
  BY <1>3, <1>4 DEF PlayerInv, PlayerTyped
<1>6. ASSUME NEW m \in Player!Mount
      PROVE  Line(reach'[m], turns') /\ LaterThan(content'.last, reach'[m], m)
  <2>1. Line(reach[m], turns) /\ LaterThan(content.last, reach[m], m)
    BY DEF PlayerInv, InLine
  <2>2. CASE m = m0
    <3>1. reach'[m] = after
      BY <1>0, <1>3, <1>5, <2>2
    <3>2. ASSUME NEW w \in after.waiting \cup after.flying, content.last[w.part].by = m
          PROVE  content.last[w.part].n <= w.n
      <4>1. w \in Save /\ content.last[w.part].n \in Nat /\ content.last[w.part].n <= turns
        BY <1>2 DEF Reach, Save, Content, PlayerInv, PlayerTyped, InLine
      <4>2. CASE w \in reach[m0].waiting \cup reach[m0].flying
        BY <2>1, <2>2, <3>2, <4>2 DEF LaterThan
      <4>3. CASE w.n = turns + 1
        BY <1>1, <4>1, <4>3
      <4> QED
        BY <1>2, <4>2, <4>3
    <3> QED
      BY <1>2, <1>3, <1>5, <3>1, <3>2 DEF LaterThan
  <2>3. CASE m # m0
    <3>1. reach'[m] = reach[m]
      BY <1>3, <1>5, <2>3
    <3>2. \A w \in reach[m].waiting \cup reach[m].flying : w.n \in Nat
      BY <1>5 DEF Reach, Save
    <3> QED
      BY <1>1, <1>3, <1>5, <2>1, <3>1, <3>2 DEF Line
  <2> QED
    BY <2>2, <2>3
<1>7. \A y \in Player!Part : content'.last[y].n <= turns'
  BY <1>1, <1>3, <1>5 DEF PlayerInv, PlayerTyped, InLine, Content
<1> QED
  BY <1>4, <1>6, <1>7 DEF PlayerInv, InLine

LEMMA Opens ==
    ASSUME PlayerInv, NEW x \in Player!Part, now.mount # 0, Player!open(x)
    PROVE  PlayerInv'
<1> DEFINE page == Player!Smaller(Player!resumePage(known.last[x]), partPages[x])
<1>1. page \in Int
  <2>1. known.last[x] \in Int /\ partPages[x] \in Nat
    BY PlayerSizes DEF PlayerInv, PlayerTyped
  <2> QED
    BY <2>1 DEF Player!Smaller, Player!resumePage, Player!Larger
<1> HIDE DEF page
<1>2. CASE partPages[x] > 0
  <2>1. Player!showPage(x, page)
    BY <1>2 DEF Player!open, page
  <2> QED
    BY <1>1, <2>1, Turn
<1>3. CASE ~(partPages[x] > 0)
  <2>1. "briefing" \in Steps
    BY DEF Steps
  <2>2. Player!Goes([kind |-> "briefing", part |-> x, at |-> 0])
    BY <1>3 DEF Player!open
  <2>3. [kind |-> "briefing", part |-> x, at |-> 0] \in [kind : Steps, part : Player!Part, at : Int]
    BY <2>1, StepMade
  <2> QED
    BY <2>2, <2>3, GoesKeeps
<1> QED
  BY <1>2, <1>3

\* A save in another state is the same save.
LEMMA Marked ==
    ASSUME PlayerInv, NEW m \in Player!Mount, NEW f \in reach[m].flying, NEW at \in {"saved", "failed"},
           reach' = Player!Now(m, f, at), turns' = turns,
           \/ content'.last = content.last
           \/ content'.last = [content.last EXCEPT ![f.part] = [page |-> f.page, n |-> f.n, by |-> m]]
    PROVE  reach' \in [Player!Mount -> Reach] /\ InLine'
<1> DEFINE g == [f EXCEPT !.at = at]
           r == [reach[m] EXCEPT !.flying = (@ \ {f}) \cup {g}]
<1>1. reach \in [Player!Mount -> Reach] /\ turns \in Nat /\ content \in Content
  BY DEF PlayerInv, PlayerTyped
<1>2. f \in Save /\ g \in Save /\ g.n = f.n /\ g.part = f.part
  BY <1>1 DEF Reach, Save
<1>3. Line(reach[m], turns) /\ LaterThan(content.last, reach[m], m)
  BY DEF PlayerInv, InLine
<1> HIDE DEF g
<1>4. r \in Reach /\ r.waiting = reach[m].waiting /\ r.flying = {g}
  <2>1. reach[m] \in Reach
    BY <1>1
  <2>2. reach[m].flying = {f}
    BY <1>3 DEF Line
  <2>3. r.waiting = reach[m].waiting /\ r.flying = {g} /\ r.sent = reach[m].sent
    BY <2>1, <2>2 DEF Reach
  <2>4. r = [sent |-> reach[m].sent, waiting |-> reach[m].waiting, flying |-> {g}]
    BY <2>1, <2>2 DEF Reach
  <2> HIDE DEF r
  <2> QED
    BY <1>2, <2>1, <2>3, <2>4 DEF Reach
<1>5. reach' = [reach EXCEPT ![m] = r]
  BY <1>1 DEF Player!Now, g
<1> HIDE DEF r
<1>6. reach' \in [Player!Mount -> Reach] /\ reach'[m] = r /\ \A k \in Player!Mount : k # m => reach'[k] = reach[k]
  BY <1>1, <1>4, <1>5
<1>7. Line(r, turns)
  BY <1>2, <1>3, <1>4 DEF Line
<1>8. ASSUME NEW k \in Player!Mount PROVE LaterThan(content'.last, reach'[k], k)
  <2>1. LaterThan(content.last, reach[k], k)
    BY DEF PlayerInv, InLine
  <2>2. \A w \in reach'[k].waiting \cup reach'[k].flying : w \in Save
    BY <1>6 DEF Reach
  <2>3. content.last \in [Player!Part -> [page : Int, n : Nat, by : Nat]]
    BY <1>1 DEF Content
  <2>4. CASE k # m
    <3>1. ASSUME NEW w \in reach[k].waiting \cup reach[k].flying, content'.last[w.part].by = k
          PROVE  content'.last[w.part].n <= w.n
      <4>1. w.part \in Player!Part /\ f.part \in Player!Part
        BY <1>2, <1>6, <2>2, <2>4 DEF Save
      <4>2. content'.last[w.part] = content.last[w.part] \/ content'.last[w.part].by = m
        BY <2>3, <4>1
      <4> QED
        BY <2>1, <2>4, <3>1, <4>2 DEF LaterThan
    <3> QED
      BY <1>6, <2>4, <3>1 DEF LaterThan
  <2>5. CASE k = m
    <3>1. ASSUME NEW w \in r.waiting \cup r.flying, content'.last[w.part].by = m
          PROVE  content'.last[w.part].n <= w.n
      <4>1. w \in Save /\ w.part \in Player!Part /\ f.part \in Player!Part /\ w.n \in Nat /\ f.n \in Nat
        BY <1>2, <1>6, <2>2, <2>5 DEF Save
      <4>2. \/ content'.last[w.part] = content.last[w.part]
            \/ w.part = f.part /\ content'.last[w.part].n = f.n
        BY <2>3, <4>1
      <4>3. w.part = f.part => f.n <= w.n
        BY <1>2, <1>3, <1>4, <4>1 DEF Line
      <4>4. content.last[w.part].by = m => content.last[w.part].n <= w.n
        BY <1>2, <1>3, <1>4 DEF LaterThan
      <4> QED
        BY <3>1, <4>2, <4>3, <4>4
    <3> QED
      BY <1>6, <2>5, <3>1 DEF LaterThan
  <2> QED
    BY <2>4, <2>5
<1>9. ASSUME NEW x \in Player!Part PROVE content'.last[x].n <= turns'
  <2>1. content.last \in [Player!Part -> [page : Int, n : Nat, by : Nat]] /\ content.last[x].n <= turns
    BY <1>1 DEF Content, PlayerInv, InLine
  <2>2. f.n <= turns
    BY <1>3 DEF Line
  <2>3. content'.last[x].n = content.last[x].n \/ content'.last[x].n = f.n
    BY <2>1
  <2> QED
    BY <2>1, <2>2, <2>3
<1> QED
  BY <1>6, <1>7, <1>8, <1>9 DEF PlayerInv, InLine

\* The answer of a save ends it and sends the next one.
LEMMA SaveEnds ==
    ASSUME PlayerInv, NEW m \in Player!Mount, NEW f \in reach[m].flying, Player!ReachAnswer(m, f)
    PROVE  PlayerInv'
<1> DEFINE told == IF f.at = "saved" THEN f.page ELSE reach[m].sent[f.part]
           ended == [reach[m] EXCEPT !.flying = @ \ {f}, !.sent[f.part] = told]
           after == Player!flush(ended)
<1>1. /\ reach \in [Player!Mount -> Reach] /\ turns \in Nat /\ reach[m] \in Reach /\ f \in Save
      /\ Line(reach[m], turns) /\ LaterThan(content.last, reach[m], m)
  BY DEF PlayerInv, PlayerTyped, InLine, Reach
<1>2. reach' = [reach EXCEPT ![m] = after] /\ UNCHANGED <<now, step, known, quiz, asks, content, turns>>
  BY DEF Player!ReachAnswer
<1>3. told \in Int
  BY <1>1 DEF Reach, Save
<1> HIDE DEF told
<1>4. ended.waiting = reach[m].waiting /\ ended.flying = reach[m].flying \ {f}
  BY <1>1 DEF Reach
<1>5. ended \in Reach
  BY <1>1, <1>3 DEF Reach
<1> HIDE DEF ended
<1>6. Line(ended, turns)
  BY <1>1, <1>4 DEF Line
<1>7. after \in Reach /\ Line(after, turns) /\ after.waiting \cup after.flying = ended.waiting \cup ended.flying
  BY <1>1, <1>5, <1>6, FlushKeeps
<1> HIDE DEF after
<1>8. reach' \in [Player!Mount -> Reach] /\ reach'[m] = after /\ \A k \in Player!Mount : k # m => reach'[k] = reach[k]
  BY <1>1, <1>2, <1>7
<1>9. PlayerTyped'
  BY <1>2, <1>8 DEF PlayerInv, PlayerTyped
<1>10. LaterThan(content.last, after, m)
  BY <1>1, <1>4, <1>7 DEF LaterThan
<1> QED
  BY <1>2, <1>7, <1>8, <1>9, <1>10 DEF PlayerInv, InLine

\* Another mount knows what the lesson brings, and nothing of it is on its way.
LEMMA Mounted ==
    ASSUME PlayerInv, Player!LessonViewerPage
    PROVE  PlayerInv'
<1> DEFINE new == now.count + 1
           lasts == [x \in Player!Part |-> content.last[x].page]
           r == [reach[new] EXCEPT !.sent = lasts]
<1>1. /\ now.count \in Nat /\ now.count < MaxPlayerMounts /\ content \in Content /\ reach \in [Player!Mount -> Reach]
      /\ quiz.try \in Nat /\ asks \subseteq Answer /\ content.version \in Nat
  BY DEF PlayerInv, PlayerTyped, Content, Player!LessonViewerPage
<1>2. new \in Player!Mount /\ new \in Nat /\ new <= MaxPlayerMounts
  <2>1. Player!Mount = 1..MaxPlayerMounts /\ MaxPlayerMounts \in Nat
    BY PlayerSizes
  <2> QED
    BY <1>1, <2>1
<1>3. now' = [mount |-> new, count |-> new, version |-> content.version]
  BY DEF Player!LessonViewerPage
<1>4. /\ step' = Player!Start("intro") /\ quiz' = [phase |-> "asking", answers |-> {}, try |-> quiz.try]
      /\ known' = [seen |-> content.seen, last |-> lasts, done |-> {t.part : t \in content.kept},
                   invite |-> content.seen[""] < partPages[""]]
      /\ reach' = [reach EXCEPT ![new].sent = known'.last] /\ asks' \subseteq asks /\ UNCHANGED <<content, turns>>
  BY DEF Player!LessonViewerPage, Player!Asking, Player!stopPauses
<1>5. lasts \in [Player!Part -> Int]
  BY <1>1 DEF Content
<1>6. known'.last = lasts
  BY <1>4
<1> HIDE DEF new, lasts
<1>7. /\ now' \in [mount : Nat, count : Nat, version : Nat] /\ now'.mount <= now'.count /\ now'.count <= MaxPlayerMounts
  BY <1>1, <1>2, <1>3
<1>8. known' \in [seen : [Player!Part -> Int], last : [Player!Part -> Int], done : SUBSET Player!Part, invite : BOOLEAN]
  <2>1. {t.part : t \in content.kept} \in SUBSET Player!Part
    BY <1>1 DEF Content
  <2>2. content.seen \in [Player!Part -> Int] /\ (content.seen[""] < partPages[""]) \in BOOLEAN
    BY <1>1 DEF Content
  <2> QED
    BY <1>4, <1>5, <2>1, <2>2
<1>9. quiz' \in [phase : {"asking", "checking", "answered", "grading", "not_sent"}, answers : SUBSET Int, try : Nat]
  BY <1>1, <1>4
<1>10. step' \in [kind : Steps, part : Player!Part, at : Int]
  <2>1. "intro" \in Steps
    BY DEF Steps
  <2> QED
    BY <1>4, <2>1, Starts
<1>11. r \in Reach /\ r.waiting = reach[new].waiting /\ r.flying = reach[new].flying
  BY <1>1, <1>2, <1>5 DEF Reach
<1>12. reach' = [reach EXCEPT ![new] = r]
  BY <1>4, <1>6
<1> HIDE DEF r
<1>13. reach' \in [Player!Mount -> Reach] /\ reach'[new] = r /\ \A k \in Player!Mount : k # new => reach'[k] = reach[k]
  BY <1>1, <1>2, <1>11, <1>12
<1>14. PlayerTyped'
  BY <1>1, <1>4, <1>7, <1>8, <1>9, <1>10, <1>13 DEF PlayerInv, PlayerTyped
<1>15. ASSUME NEW m \in Player!Mount
       PROVE  Line(reach'[m], turns') /\ LaterThan(content'.last, reach'[m], m)
  <2>1. reach'[m].waiting = reach[m].waiting /\ reach'[m].flying = reach[m].flying
    BY <1>2, <1>11, <1>13
  <2>2. Line(reach[m], turns) /\ LaterThan(content.last, reach[m], m)
    BY DEF PlayerInv, InLine
  <2> QED
    BY <1>4, <2>1, <2>2 DEF Line, LaterThan
<1> QED
  BY <1>4, <1>14, <1>15 DEF PlayerInv, InLine

LEMMA AskMade ==
    ASSUME NEW kind \in {"check", "submit"}, NEW m \in Nat, NEW x \in Player!Part, NEW at \in Int,
           NEW answers \in SUBSET Int, NEW try \in Nat, NEW version \in Nat
    PROVE  Player!Ask(kind, m, x, at, answers, try, version) \in Answer
  BY DEF Player!Ask, Answer

\* Only a save that arrives changes where content-service has them.
LEMMA OnlySavesReach ==
    ASSUME content \in Content, Player!Next
    PROVE  \/ content'.last = content.last
           \/ \E m \in Player!Mount : \E f \in reach[m].flying : Player!ServerReaches(m, f)
<1>1. CASE Player!TeacherChanges
  BY <1>1 DEF Player!TeacherChanges, Content
<1>2. ASSUME NEW a \in asks, Player!ServerGrades(a) PROVE content'.last = content.last
  BY <1>2 DEF Player!ServerGrades, Content
<1>3. ASSUME NEW x \in Player!Part, NEW page, Player!showPage(x, page) PROVE content' = content
  BY <1>3 DEF Player!showPage
<1>4. ASSUME NEW x, Player!open(x) PROVE content' = content
  BY <1>4 DEF Player!open, Player!showPage, Player!Goes
<1> QED
  BY <1>1, <1>2, <1>4 DEF Player!Next, Player!openLesson, Player!refetch, Player!LessonViewerPage, Player!exit, Player!ReachFails,
     Player!ReachAnswer, Player!toHub, Player!openContent, Player!openActivity, Player!openExtras, Player!openExtra,
     Player!pageBack, Player!pagesBefore, Player!afterPages, Player!pageNext, Player!briefingBack, Player!startQuiz,
     Player!onLeave, Player!stay, Player!leave, Player!choose, Player!ServerChecks, Player!CheckAnswer, Player!pauseEnds,
     Player!SubmitFails, Player!SubmitAnswer, Player!sendAgain, Player!Goes, Player!showPage

LEMMA PlayerNext ==
    ASSUME PlayerInv, Player!Next
    PROVE  PlayerInv'
<1>0. /\ now \in [mount : Nat, count : Nat, version : Nat] /\ now.mount <= now.count /\ now.count <= MaxPlayerMounts
      /\ step \in [kind : Steps, part : Player!Part, at : Int]
      /\ known \in [seen : [Player!Part -> Int], last : [Player!Part -> Int], done : SUBSET Player!Part, invite : BOOLEAN]
      /\ quiz \in [phase : {"asking", "checking", "answered", "grading", "not_sent"}, answers : SUBSET Int, try : Nat]
      /\ asks \subseteq Answer /\ content \in Content
      /\ step.part \in Player!Part /\ step.at \in Int
  BY DEF PlayerInv, PlayerTyped
<1>1. CASE Player!openLesson \/ Player!refetch
  BY <1>1, Mounted DEF Player!openLesson, Player!refetch
<1>2. CASE Player!exit
  <2>1. now' = [now EXCEPT !.mount = 0] /\ asks' \subseteq asks /\ UNCHANGED <<step, known, reach, quiz, content, turns>>
    BY <1>2 DEF Player!exit, Player!stopPauses
  <2>2. now' \in [mount : Nat, count : Nat, version : Nat] /\ now'.mount <= now'.count /\ now'.count <= MaxPlayerMounts
    BY <1>0, <2>1
  <2>3. PlayerTyped'
    BY <2>1, <2>2 DEF PlayerInv, PlayerTyped
  <2> QED
    BY <2>1, <2>3, PlaceIsKept
<1>3. CASE Player!TeacherChanges
  <2>1. content' = [content EXCEPT !.version = @ + 1] /\ UNCHANGED <<now, step, known, reach, quiz, asks, turns>>
    BY <1>3 DEF Player!TeacherChanges
  <2>2. content' \in Content /\ content'.last = content.last
    BY <1>0, <2>1 DEF Content
  <2>3. PlayerTyped'
    BY <2>1, <2>2 DEF PlayerInv, PlayerTyped
  <2> QED
    BY <2>1, <2>2, <2>3, PlaceIsKept
<1>4. ASSUME NEW m \in Player!Mount, NEW f \in reach[m].flying, Player!ServerReaches(m, f) PROVE PlayerInv'
  <2>1. /\ content' = [content EXCEPT !.last[f.part] = [page |-> f.page, n |-> f.n, by |-> m],
                                      !.seen[f.part] = Player!Larger(@, f.page)]
        /\ reach' = Player!Now(m, f, "saved") /\ UNCHANGED <<now, step, known, quiz, asks, turns>>
    BY <1>4 DEF Player!ServerReaches
  <2>2. f \in Save /\ m \in Nat
    <3>1. Player!Mount = 1..MaxPlayerMounts /\ MaxPlayerMounts \in Nat
      BY PlayerSizes
    <3>2. f \in Save
      BY DEF PlayerInv, PlayerTyped, Reach
    <3> QED
      BY <3>1, <3>2
  <2>3. content'.last = [content.last EXCEPT ![f.part] = [page |-> f.page, n |-> f.n, by |-> m]]
    BY <1>0, <2>1 DEF Content
  <2>4. content' \in Content
    <3>1. Player!Larger(content.seen[f.part], f.page) \in Int
      BY <1>0, <2>2 DEF Player!Larger, Content, Save
    <3> QED
      BY <1>0, <2>1, <2>2, <3>1 DEF Content, Save
  <2>5. reach' \in [Player!Mount -> Reach] /\ InLine'
    BY <2>1, <2>3, Marked
  <2> QED
    BY <2>1, <2>4, <2>5 DEF PlayerInv, PlayerTyped
<1>5. ASSUME NEW m \in Player!Mount, NEW f \in reach[m].flying, Player!ReachFails(m, f) PROVE PlayerInv'
  <2>1. reach' = Player!Now(m, f, "failed") /\ UNCHANGED <<now, step, known, quiz, asks, content, turns>>
    BY <1>5 DEF Player!ReachFails
  <2>2. reach' \in [Player!Mount -> Reach] /\ InLine'
    BY <2>1, Marked
  <2> QED
    BY <2>1, <2>2 DEF PlayerInv, PlayerTyped
<1>6. ASSUME NEW m \in Player!Mount, NEW f \in reach[m].flying, Player!ReachAnswer(m, f) PROVE PlayerInv'
  BY <1>6, SaveEnds
<1>7. CASE Player!toHub \/ Player!openActivity \/ Player!openExtras \/ Player!pagesBefore
           \/ Player!briefingBack \/ Player!onLeave \/ Player!stay \/ Player!leave
  <2>1. /\ \A k \in {"hub", "extras", "quiz", "leaving", "briefing"} : k \in Steps
        /\ "" \in Player!Part
    BY PlayerSizes DEF Steps
  <2>2. PICK to \in [kind : Steps, part : Player!Part, at : Int] : Player!Goes(to)
    <3>1. CASE Player!toHub
      BY <2>1, <3>1, Starts DEF Player!toHub
    <3>2. CASE Player!openActivity
      BY <2>1, <3>2, StepMade DEF Player!openActivity
    <3>3. CASE Player!openExtras
      BY <2>1, <3>3, Starts DEF Player!openExtras
    <3>4. CASE Player!pagesBefore
      BY <3>4, Homes DEF Player!pagesBefore
    <3>5. CASE Player!briefingBack
      BY <3>5, Homes DEF Player!briefingBack
    <3>6. CASE Player!onLeave
      BY <2>1, <3>6, OtherSteps DEF Player!onLeave
    <3>7. CASE Player!stay
      BY <2>1, <3>7, OtherSteps DEF Player!stay
    <3>8. CASE Player!leave
      BY <3>8, Homes DEF Player!leave
    <3> QED
      BY <1>7, <3>1, <3>2, <3>3, <3>4, <3>5, <3>6, <3>7, <3>8
  <2> QED
    BY <2>2, GoesKeeps
<1>8. CASE Player!openContent
  <2>1. "" \in Player!Part
    BY PlayerSizes
  <2> QED
    BY <1>8, <2>1, Opens DEF Player!openContent, Player!Here
<1>9. ASSUME NEW x \in Extra, Player!openExtra(x) PROVE PlayerInv'
  <2>1. x \in Player!Part
    BY PlayerSizes
  <2> QED
    BY <1>9, <2>1, Opens DEF Player!openExtra, Player!Here
<1>10. CASE Player!pageBack
  <2>1. CASE step.at = 1
    <3>1. Player!Goes(Player!Home(step.part))
      BY <1>10, <2>1 DEF Player!pageBack
    <3> QED
      BY <3>1, Homes, GoesKeeps
  <2>2. CASE step.at # 1
    <3>1. Player!showPage(step.part, step.at - 1) /\ now.mount # 0 /\ step.at - 1 \in Int
      BY <1>0, <1>10, <2>2 DEF Player!pageBack, Player!Here
    <3> QED
      BY <1>0, <3>1, Turn
  <2> QED
    BY <2>1, <2>2
<1>11. CASE Player!pageNext
  <2>1. Player!showPage(step.part, step.at + 1) /\ now.mount # 0 /\ step.at + 1 \in Int
    BY <1>0, <1>11 DEF Player!pageNext, Player!Here
  <2> QED
    BY <1>0, <2>1, Turn
<1>12. CASE Player!afterPages
  <2>1. step' = Player!Start("invite") \/ step' = Player!Home(step.part)
    BY <1>12 DEF Player!afterPages
  <2>2. step' \in [kind : Steps, part : Player!Part, at : Int]
    <3>1. "invite" \in Steps
      BY DEF Steps
    <3> QED
      BY <2>1, <3>1, Starts, Homes
  <2>3. known' = known \/ known' = [known EXCEPT !.invite = FALSE]
    BY <1>12 DEF Player!afterPages
  <2>4. known' \in [seen : [Player!Part -> Int], last : [Player!Part -> Int], done : SUBSET Player!Part, invite : BOOLEAN]
    BY <1>0, <2>3
  <2>5. UNCHANGED <<now, reach, quiz, asks, content, turns>>
    BY <1>12 DEF Player!afterPages
  <2>6. PlayerTyped'
    BY <2>2, <2>4, <2>5 DEF PlayerInv, PlayerTyped
  <2> QED
    BY <2>5, <2>6, PlaceIsKept
<1>13. CASE Player!startQuiz
  <2>1. /\ step' = [step EXCEPT !.kind = "quiz", !.at = 1] /\ UNCHANGED <<now, known, reach, asks, content, turns>>
        /\ quiz' = [phase |-> "asking", answers |-> {}, try |-> quiz.try + 1]
    BY <1>13 DEF Player!startQuiz
  <2>2. "quiz" \in Steps /\ 1 \in Int /\ quiz.try + 1 \in Nat
    BY <1>0 DEF Steps
  <2>3. step' \in [kind : Steps, part : Player!Part, at : Int]
    BY <2>1, <2>2, OtherSteps
  <2>4. quiz' \in [phase : {"asking", "checking", "answered", "grading", "not_sent"}, answers : SUBSET Int, try : Nat]
    BY <2>1, <2>2
  <2>5. PlayerTyped'
    BY <2>1, <2>3, <2>4 DEF PlayerInv, PlayerTyped
  <2> QED
    BY <2>1, <2>5, PlaceIsKept
<1>14. CASE Player!choose
  <2> DEFINE ask == Player!Ask("check", now.mount, step.part, step.at, quiz.answers \cup {step.at}, quiz.try, now.version)
  <2>1. /\ quiz' = [quiz EXCEPT !.phase = "checking"] /\ asks' = asks \cup {ask}
        /\ UNCHANGED <<now, step, known, reach, content, turns>>
    BY <1>14 DEF Player!choose
  <2>2. ask \in Answer
    <3>1. quiz.answers \cup {step.at} \in SUBSET Int /\ now.mount \in Nat /\ quiz.try \in Nat /\ now.version \in Nat
      BY <1>0
    <3> QED
      BY <1>0, <3>1, AskMade
  <2>3. quiz' \in [phase : {"asking", "checking", "answered", "grading", "not_sent"}, answers : SUBSET Int, try : Nat]
    BY <1>0, <2>1
  <2>4. PlayerTyped'
    BY <1>0, <2>1, <2>2, <2>3 DEF PlayerInv, PlayerTyped
  <2> QED
    BY <2>1, <2>4, PlaceIsKept
<1>15. ASSUME NEW a \in asks, NEW state \in {"ok", "failed", "changed"}, Player!ServerChecks(a, state) PROVE PlayerInv'
  <2>1. asks' = (asks \ {a}) \cup {[a EXCEPT !.state = state]} /\ UNCHANGED <<now, step, known, reach, quiz, content, turns>>
    BY <1>15 DEF Player!ServerChecks
  <2>2. asks' \subseteq Answer
    BY <1>0, <2>1 DEF Answer
  <2>3. PlayerTyped'
    BY <2>1, <2>2 DEF PlayerInv, PlayerTyped
  <2> QED
    BY <2>1, <2>3, PlaceIsKept
<1>16. ASSUME NEW a \in asks, Player!CheckAnswer(a) PROVE PlayerInv'
  <2>1. /\ asks' \subseteq asks \cup {[a EXCEPT !.state = "pause"]} /\ UNCHANGED <<now, known, reach, content, turns>>
        /\ quiz' = quiz \/ \E phase \in {"answered", "asking", quiz.phase} : quiz' = [quiz EXCEPT !.phase = phase]
        /\ step' = step \/ step' = Player!Start("changed")
    BY <1>16 DEF Player!CheckAnswer
  <2>2. asks' \subseteq Answer
    <3>1. [a EXCEPT !.state = "pause"] \in Answer
      BY <1>0 DEF Answer
    <3> QED
      BY <1>0, <2>1, <3>1
  <2>3. quiz' \in [phase : {"asking", "checking", "answered", "grading", "not_sent"}, answers : SUBSET Int, try : Nat]
    BY <1>0, <2>1
  <2>4. step' \in [kind : Steps, part : Player!Part, at : Int]
    <3>1. "changed" \in Steps
      BY DEF Steps
    <3> QED
      BY <1>0, <2>1, <3>1, Starts
  <2>5. PlayerTyped'
    BY <2>1, <2>2, <2>3, <2>4 DEF PlayerInv, PlayerTyped
  <2> QED
    BY <2>1, <2>5, PlaceIsKept
<1>17. ASSUME NEW a \in asks, Player!pauseEnds(a) PROVE PlayerInv'
  <2>1. a \in Answer /\ a.answers \in SUBSET Int /\ a.try \in Nat /\ a.mount \in Nat /\ a.part \in Player!Part /\ a.version \in Nat
    BY <1>0 DEF Answer
  <2>2. asks' \subseteq asks \cup {Player!Submit(a)} /\ UNCHANGED <<now, known, reach, content, turns>>
    BY <1>17 DEF Player!pauseEnds
  <2>3. \/ quiz' = quiz /\ step' = step
        \/ quiz' = [quiz EXCEPT !.phase = "grading", !.answers = a.answers] /\ step' = step
        \/ quiz' = [quiz EXCEPT !.phase = "asking", !.answers = a.answers] /\ step' = [step EXCEPT !.at = @ + 1]
    BY <1>17 DEF Player!pauseEnds, Player!onNext
  <2>4. asks' \subseteq Answer
    <3>1. Player!Submit(a) \in Answer
      BY <2>1, AskMade DEF Player!Submit
    <3> QED
      BY <1>0, <2>2, <3>1
  <2>5. quiz' \in [phase : {"asking", "checking", "answered", "grading", "not_sent"}, answers : SUBSET Int, try : Nat]
    BY <1>0, <2>1, <2>3
  <2>6. step' \in [kind : Steps, part : Player!Part, at : Int]
    BY <1>0, <2>3
  <2>7. PlayerTyped'
    BY <2>2, <2>4, <2>5, <2>6 DEF PlayerInv, PlayerTyped
  <2> QED
    BY <2>2, <2>7, PlaceIsKept
<1>18. ASSUME NEW a \in asks, Player!ServerGrades(a) PROVE PlayerInv'
  <2> DEFINE try0 == [part |-> a.part, mount |-> a.mount, try |-> a.try]
  <2>1. /\ asks' \subseteq asks \cup {[a EXCEPT !.state = "ok"], [a EXCEPT !.state = "changed"]}
        /\ content' = content \/ content' = [content EXCEPT !.kept = @ \cup {try0}]
        /\ UNCHANGED <<now, step, known, reach, quiz, turns>>
    BY <1>18 DEF Player!ServerGrades
  <2>2. asks' \subseteq Answer
    <3>1. [a EXCEPT !.state = "ok"] \in Answer /\ [a EXCEPT !.state = "changed"] \in Answer
      BY <1>0 DEF Answer
    <3> QED
      BY <1>0, <2>1, <3>1
  <2>3. try0 \in [part : Player!Part, mount : Nat, try : Nat]
    BY <1>0 DEF Answer
  <2> HIDE DEF try0
  <2>4. content' \in Content /\ content'.last = content.last
    BY <1>0, <2>1, <2>3 DEF Content
  <2>5. PlayerTyped'
    BY <2>1, <2>2, <2>4 DEF PlayerInv, PlayerTyped
  <2> QED
    BY <2>1, <2>4, <2>5, PlaceIsKept
<1>19. ASSUME NEW a \in asks, Player!SubmitFails(a) PROVE PlayerInv'
  <2>1. /\ asks' = (asks \ {a}) \cup {[a EXCEPT !.state = "failed"]}
        /\ UNCHANGED <<now, step, known, reach, quiz, content, turns>>
    BY <1>19 DEF Player!SubmitFails
  <2>2. asks' \subseteq Answer
    BY <1>0, <2>1 DEF Answer
  <2>3. PlayerTyped'
    BY <2>1, <2>2 DEF PlayerInv, PlayerTyped
  <2> QED
    BY <2>1, <2>3, PlaceIsKept
<1>20. ASSUME NEW a \in asks, Player!SubmitAnswer(a) PROVE PlayerInv'
  <2>1. /\ asks' \subseteq asks /\ UNCHANGED <<now, reach, content, turns>>
        /\ quiz' = quiz \/ \E phase \in {"not_sent", quiz.phase} : quiz' = [quiz EXCEPT !.phase = phase]
        /\ step' = step \/ step' = Player!Start("changed") \/ step' = [step EXCEPT !.kind = "result"]
        /\ known' = known \/ known' = [known EXCEPT !.done = @ \cup {a.part}]
    BY <1>20 DEF Player!SubmitAnswer
  <2>2. "changed" \in Steps /\ "result" \in Steps
    BY DEF Steps
  <2>3. step' \in [kind : Steps, part : Player!Part, at : Int]
    <3>1. [step EXCEPT !.kind = "result"] \in [kind : Steps, part : Player!Part, at : Int]
      BY <2>2, OtherSteps
    <3>2. Player!Start("changed") \in [kind : Steps, part : Player!Part, at : Int]
      BY <2>2, Starts
    <3> QED
      BY <1>0, <2>1, <3>1, <3>2
  <2>4. quiz' \in [phase : {"asking", "checking", "answered", "grading", "not_sent"}, answers : SUBSET Int, try : Nat]
    BY <1>0, <2>1
  <2>5. known' \in [seen : [Player!Part -> Int], last : [Player!Part -> Int], done : SUBSET Player!Part, invite : BOOLEAN]
    <3>1. a.part \in Player!Part
      BY <1>0 DEF Answer
    <3> QED
      BY <1>0, <2>1, <3>1
  <2>6. PlayerTyped'
    BY <1>0, <2>1, <2>3, <2>4, <2>5 DEF PlayerInv, PlayerTyped
  <2> QED
    BY <2>1, <2>6, PlaceIsKept
<1>21. CASE Player!sendAgain
  <2> DEFINE ask == Player!Ask("submit", now.mount, step.part, 0, quiz.answers, quiz.try, now.version)
  <2>1. /\ quiz' = [quiz EXCEPT !.phase = "grading"] /\ asks' = asks \cup {ask}
        /\ UNCHANGED <<now, step, known, reach, content, turns>>
    BY <1>21 DEF Player!sendAgain
  <2>2. ask \in Answer
    <3>1. quiz.answers \in SUBSET Int /\ now.mount \in Nat /\ quiz.try \in Nat /\ now.version \in Nat
      BY <1>0
    <3> QED
      BY <1>0, <3>1, AskMade
  <2>3. quiz' \in [phase : {"asking", "checking", "answered", "grading", "not_sent"}, answers : SUBSET Int, try : Nat]
    BY <1>0, <2>1
  <2>4. PlayerTyped'
    BY <1>0, <2>1, <2>2, <2>3 DEF PlayerInv, PlayerTyped
  <2> QED
    BY <2>1, <2>4, PlaceIsKept
<1> QED
  BY <1>1, <1>2, <1>3, <1>4, <1>5, <1>6, <1>7, <1>8, <1>9, <1>10, <1>11, <1>12, <1>13, <1>14, <1>15, <1>16, <1>17, <1>18,
     <1>19, <1>20, <1>21 DEF Player!Next

(***************************************************************************)
(* useReachedPages.ts:5 "One save at a time, only the newest one waits":   *)
(* whatever fails and however fast the pages are turned, the page that     *)
(* content-service has of a mount is never replaced by an earlier one.     *)
(***************************************************************************)
THEOREM NewestPageStays == Player!Spec => NewestPageWins
<1>1. Player!Init => PlayerInv
  BY PlayerInit
<1>2. PlayerInv /\ [Player!Next]_Player!vars => PlayerInv'
  <2>1. ASSUME PlayerInv, Player!Next PROVE PlayerInv'
    BY <2>1, PlayerNext
  <2>2. ASSUME PlayerInv, UNCHANGED Player!vars PROVE PlayerInv'
    <3>1. UNCHANGED <<now, step, known, reach, quiz, asks, content, turns>>
      BY <2>2 DEF Player!vars
    <3>2. PlayerTyped'
      BY <2>2, <3>1 DEF PlayerInv, PlayerTyped
    <3> QED
      BY <2>2, <3>1, <3>2, PlaceIsKept
  <2> QED
    BY <2>1, <2>2
<1>3. ASSUME PlayerInv, [Player!Next]_Player!vars
      PROVE  [\A x \in Player!Part : content'.last[x].by = content.last[x].by =>
                content'.last[x].n >= content.last[x].n]_Player!vars
  <2>1. content \in Content
    BY <1>3 DEF PlayerInv, PlayerTyped
  <2>2. ASSUME NEW m \in Player!Mount, NEW f \in reach[m].flying, Player!ServerReaches(m, f), NEW x \in Player!Part,
               content'.last[x].by = content.last[x].by
        PROVE  content'.last[x].n >= content.last[x].n
    <3>1. content'.last = [content.last EXCEPT ![f.part] = [page |-> f.page, n |-> f.n, by |-> m]]
      BY <2>1, <2>2 DEF Content, Player!ServerReaches
    <3>2. content.last \in [Player!Part -> [page : Int, n : Nat, by : Nat]]
      BY <2>1 DEF Content
    <3>3. CASE x = f.part
      <4>1. content'.last[x].by = m /\ content'.last[x].n = f.n
        BY <3>1, <3>2, <3>3
      <4>2. content.last[f.part].by = m => content.last[f.part].n <= f.n
        BY <1>3, <2>2 DEF PlayerInv, InLine, LaterThan
      <4>3. f.n \in Nat
        BY <1>3, <2>2 DEF PlayerInv, PlayerTyped, Reach, Save
      <4> QED
        BY <2>2, <3>2, <3>3, <4>1, <4>2, <4>3
    <3>4. CASE x # f.part
      BY <3>1, <3>2, <3>4
    <3> QED
      BY <3>3, <3>4
  <2>3. ASSUME content'.last = content.last
        PROVE  \A x \in Player!Part : content'.last[x].n >= content.last[x].n
    BY <2>1, <2>3 DEF Content
  <2>4. ASSUME Player!Next
        PROVE  \/ content'.last = content.last
               \/ \E m \in Player!Mount : \E f \in reach[m].flying : Player!ServerReaches(m, f)
    BY <2>4, <2>1, OnlySavesReach
  <2> QED
    BY <1>3, <2>2, <2>3, <2>4
<1>4. QED
  BY <1>1, <1>2, <1>3, PTL DEF Player!Spec, NewestPageWins, Player!NewestPageWins

-----------------------------------------------------------------------------
(* The engine that follows the eyes.                                       *)

\* The library runs only when its script came, and the page and the engine
\* know of each other.
EngineInv ==
    /\ starting \in Nat
    /\ load \in {"no", "loading", "loaded", "empty", "failed"}
    /\ instance \in {"none", "stopped", "running"}
    /\ flags \in [already : BOOLEAN, first : SUBSET BOOLEAN, start : BOOLEAN, now : BOOLEAN]
    /\ instance # "none" => load = "loaded"
    /\ engineState = "ready" => instance = "running"
    /\ Engine!CalibrationCanEnd

(***************************************************************************)
(* Whatever the library does or never does, whenever its script comes, and *)
(* however often the page is opened and left: no calibration is left that  *)
(* nobody could end (EyeGesturesGazeSource.ts, CalibrationPage.tsx).       *)
(***************************************************************************)
THEOREM CalibrationsCanEnd == Engine!Spec => []CalibrationCanEnd
<1>1. Engine!Init => EngineInv
  BY DEF Engine!Init, Engine!Begin, Engine!Fresh, EngineInv, Engine!CalibrationCanEnd
<1>2. ASSUME EngineInv, Engine!Next PROVE EngineInv'
  <2> USE DEF EngineInv, Engine!CalibrationCanEnd
  <2>1. ASSUME NEW settings \in BOOLEAN, Engine!CalibrationPage(settings) PROVE EngineInv'
    <3>1. CASE settings /\ engineState = "ready"
      <4>1. Engine!recalibrate /\ calibration' = "engine_calibrating"
        BY <2>1, <3>1 DEF Engine!CalibrationPage
      <4> QED
        BY <1>2, <3>1, <4>1 DEF Engine!recalibrate
    <3>2. CASE ~(settings /\ engineState = "ready")
      <4>1. Engine!activateEngine /\ calibration' = Engine!phaseOf(engineState)
        BY <2>1, <3>2 DEF Engine!CalibrationPage
      <4>2. CASE engineState \in {"calibrating", "ready"}
        <5>1. UNCHANGED <<engineState, load, starting, instance, flags>>
          BY <4>1, <4>2 DEF Engine!activateEngine
        <5> QED
          BY <1>2, <4>1, <4>2, <5>1 DEF Engine!phaseOf
      <4>3. CASE engineState \notin {"calibrating", "ready"}
        <5>1. /\ engineState' = "calibrating" /\ starting' = starting + 1
              /\ load' = IF load = "no" THEN "loading" ELSE load
              /\ UNCHANGED <<instance, flags>>
          BY <4>1, <4>3 DEF Engine!activateEngine, Engine!loadDependencies
        <5> QED
          BY <1>2, <4>1, <4>3, <5>1 DEF Engine!phaseOf
      <4> QED
        BY <4>2, <4>3
    <3> QED
      BY <3>1, <3>2
  <2>2. ASSUME NEW outcome \in {"loaded", "empty", "failed"}, Engine!loadScript(outcome) PROVE EngineInv'
    BY <1>2, <2>2 DEF Engine!loadScript
  <2>3. CASE Engine!startEngine
    BY <1>2, <2>3 DEF Engine!startEngine, Engine!notifyState, Engine!hears
  <2>4. CASE Engine!startFails
    BY <1>2, <2>4 DEF Engine!startFails, Engine!notifyState, Engine!hears
  <2>5. CASE Engine!point
    <3> DEFINE first == IF flags.first = {} THEN {flags.now} ELSE flags.first
               done == flags.already \/ flags.now \notin first
    <3>1. /\ flags' = [[flags EXCEPT !.first = first] EXCEPT !.already = done]
          /\ instance = "running"
          /\ UNCHANGED <<load, starting, instance>>
      BY <2>5 DEF Engine!point
    <3>2. first \in SUBSET BOOLEAN /\ done \in BOOLEAN
      BY <1>2
    <3>3. flags'.already = done /\ flags' \in [already : BOOLEAN, first : SUBSET BOOLEAN, start : BOOLEAN, now : BOOLEAN]
      <4> HIDE DEF first, done
      <4> QED
        BY <1>2, <3>1, <3>2
    <3>4. CASE done /\ ~flags.already
      <4>1. engineState' = "ready" /\ calibration' = IF calibration = "none" THEN calibration ELSE "ready"
        BY <2>5, <3>4 DEF Engine!point, Engine!notifyState, Engine!hears
      <4> HIDE DEF first, done
      <4> QED
        BY <1>2, <3>1, <3>3, <3>4, <4>1
    <3>5. CASE ~(done /\ ~flags.already)
      <4>1. UNCHANGED <<engineState, calibration>>
        BY <2>5, <3>5 DEF Engine!point
      <4>2. done = flags.already
        BY <1>2, <3>5
      <4> HIDE DEF first, done
      <4> QED
        BY <1>2, <3>1, <3>3, <4>1, <4>2
    <3> QED
      BY <3>4, <3>5
  <2>6. CASE Engine!libraryCalibrates
    BY <1>2, <2>6 DEF Engine!libraryCalibrates
  <2>7. CASE Engine!mouseMoves
    BY <1>2, <2>7 DEF Engine!mouseMoves
  <2>8. CASE Engine!engineWaitTimeout
    BY <1>2, <2>8 DEF Engine!engineWaitTimeout
  <2>9. CASE Engine!goOn
    BY <1>2, <2>9 DEF Engine!goOn, Engine!stopEngine
  <2>10. CASE Engine!away
    BY <1>2, <2>10 DEF Engine!away
  <2>11. CASE Engine!reload
    BY <1>2, <2>11 DEF Engine!reload, Engine!Fresh
  <2> QED
    BY <1>2, <2>1, <2>2, <2>3, <2>4, <2>5, <2>6, <2>7, <2>8, <2>9, <2>10, <2>11 DEF Engine!Next
<1>3. EngineInv /\ UNCHANGED Engine!vars => EngineInv'
  BY DEF EngineInv, Engine!CalibrationCanEnd, Engine!vars
<1>4. EngineInv => CalibrationCanEnd
  BY DEF EngineInv, CalibrationCanEnd
<1> QED
  BY <1>1, <1>2, <1>3, <1>4, PTL DEF Engine!Spec
=============================================================================
