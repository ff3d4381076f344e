-------------------------------- MODULE Lang --------------------------------
(***************************************************************************)
(* The language of the editor (deviceout-i18n, lib.rs): a preference kept  *)
(* in lang.txt, which every process of the user shares, and the language   *)
(* it comes to, kept in an atomic byte of each process.                    *)
(*                                                                         *)
(* Threads of a process read the language, one at a time of them sets the  *)
(* preference; the setup and the updater are processes of their own.       *)
(***************************************************************************)
EXTENDS Integers, Sequences, SequencesExt

CONSTANTS
    Readers,        \* threads that call current()
    Locales,        \* what Windows may answer: sequences of lower-case parts
    NoLocale        \* it has no answer

VARIABLES
    locale,         \* system_locale()
    lang_file,      \* lang.txt: a text, or NoLangFile
    cached,         \* CURRENT of the process: 0, or a code
    lang_reader,    \* each reader: at which step, with what
    setter,         \* the thread in set_preference
    chosen,         \* the preference last chosen, by anyone
    here,           \* it was chosen in this process
    overtaken,      \* a reader has put what it had resolved before over a choice
    lang_lost       \* the last write of lang.txt has failed

lang_vars == <<locale, lang_file, cached, lang_reader, setter, chosen, here, overtaken, lang_lost>>

NoLangFile == <<"no file">>

-----------------------------------------------------------------------------
\* Lang::ALL, in order; a tag as its parts, folded to lower case.
Tags == << <<"en">>, <<"zh", "hans">>, <<"zh", "hant">>, <<"ja">>, <<"ko">>, <<"de">>,
           <<"fr">>, <<"es">>, <<"pt", "br">>, <<"ru">>, <<"th">> >>
Langs == ToSet(Tags)
En == <<"en">>

code(l) == CHOOSE i \in DOMAIN Tags : Tags[i] = l
from_code(c) == Tags[c]

NoLang == <<"none">>
from_tag(text) == IF text \in Langs THEN text ELSE NoLang

Traditional == {"hant", "tw", "hk", "mo"}
from_locale(text) ==
    CASE text = <<>> -> NoLang
      [] Head(text) = "zh" -> IF Traditional \cap ToSet(Tail(text)) # {}
                              THEN <<"zh", "hant">> ELSE <<"zh", "hans">>
      [] Head(text) = "pt" -> <<"pt", "br">>
      [] OTHER -> IF <<Head(text)>> \in Langs THEN <<Head(text)>> ELSE NoLang

\* A preference: the system's language, or a fixed one.
System == <<"system">>
Preferences == {System} \cup Langs
Text(pref) == pref

parse_preference(text) ==
    CASE text \in {<<>>, System} -> System
      [] from_tag(text) # NoLang -> from_tag(text)
      [] from_locale(text) # NoLang -> from_locale(text)
      [] OTHER -> System

system_lang ==
    IF locale = NoLocale \/ from_locale(locale) = NoLang THEN En ELSE from_locale(locale)
resolve(pref) == IF pref = System THEN system_lang ELSE pref

preference == IF lang_file = NoLangFile THEN System ELSE parse_preference(lang_file)

-----------------------------------------------------------------------------
NoCall == [at |-> "idle", lang |-> NoLang]

LangInit ==
    /\ locale \in Locales \cup {NoLocale}
    /\ lang_file \in {NoLangFile, System, <<"zh", "tw">>, <<"xx">>}
    /\ cached = 0 /\ setter = NoCall
    /\ lang_reader = [r \in Readers |-> NoCall]
    /\ chosen = preference
    /\ here = FALSE /\ overtaken = FALSE /\ lang_lost = FALSE

LangOthers == UNCHANGED <<locale, setter, chosen, here, lang_lost>>

\* current(): the byte, or else the file, and then the byte is stored.
Current(r) ==
    /\ lang_reader[r].at = "idle"
    /\ lang_reader' = [lang_reader EXCEPT ![r] =
            IF cached # 0 THEN [at |-> "done", lang |-> from_code(cached)]
            ELSE [at |-> "resolve", lang |-> NoLang]]
    /\ LangOthers /\ UNCHANGED <<lang_file, cached, overtaken>>

Resolve(r) ==
    /\ lang_reader[r].at = "resolve"
    /\ lang_reader' = [lang_reader EXCEPT ![r] = [at |-> "store", lang |-> resolve(preference)]]
    /\ LangOthers /\ UNCHANGED <<lang_file, cached, overtaken>>

Store(r) ==
    /\ lang_reader[r].at = "store"
    /\ cached' = code(lang_reader[r].lang)
    /\ overtaken' = (overtaken \/ cached \notin {0, code(lang_reader[r].lang)})
    /\ lang_reader' = [lang_reader EXCEPT ![r].at = "done"]
    /\ LangOthers /\ UNCHANGED lang_file

\* The frame is drawn, and another one begins.
NextFrame(r) ==
    /\ lang_reader[r].at = "done" /\ lang_reader' = [lang_reader EXCEPT ![r] = NoCall]
    /\ LangOthers /\ UNCHANGED <<lang_file, cached, overtaken>>

\* set_preference: the file, whose error is dropped, and then the byte.
set_preference(pref) ==
    /\ setter.at = "idle"
    /\ setter' = [at |-> "store", lang |-> resolve(pref)]
    /\ \/ lang_file' = Text(pref) /\ lang_lost' = FALSE
       \/ UNCHANGED lang_file /\ lang_lost' = TRUE
    /\ chosen' = pref /\ here' = TRUE
    /\ UNCHANGED <<locale, cached, lang_reader, overtaken>>

SetterStores ==
    /\ setter.at = "store"
    /\ cached' = code(setter.lang) /\ setter' = NoCall
    /\ overtaken' = FALSE
    /\ UNCHANGED <<locale, lang_file, lang_reader, chosen, here, lang_lost>>

\* An editor in another host's process chooses.
OtherProcess(pref) ==
    /\ lang_file' = Text(pref) /\ chosen' = pref /\ here' = FALSE /\ setter.at = "idle"
    /\ UNCHANGED <<locale, cached, lang_reader, setter, overtaken, lang_lost>>

LangNext ==
    \/ \E r \in Readers : Current(r) \/ Resolve(r) \/ Store(r) \/ NextFrame(r)
    \/ \E pref \in {System, <<"ja">>} : set_preference(pref)
    \/ SetterStores
    \/ OtherProcess(<<"pt", "br">>)

LangSpec == LangInit /\ [][LangNext]_lang_vars

-----------------------------------------------------------------------------
(***************************************************************************)
(* Every preference comes back from the text it is written as, and every   *)
(* language from its code and from its own tag read as a locale: a         *)
(* language that did not would be replaced by another at the next start.   *)
(***************************************************************************)
PreferencesComeBack ==
    /\ \A pref \in Preferences : parse_preference(Text(pref)) = pref
    /\ \A l \in Langs : from_code(code(l)) = l /\ code(l) # 0 /\ from_locale(l) = l

(***************************************************************************)
(* Unless a reader was overtaken by the choice, or the file could not be   *)
(* written, this process shows what the user chose in it, and so will the  *)
(* next process: byte and file agree.                                      *)
(***************************************************************************)
ShownAsChosen ==
    here /\ ~overtaken /\ setter.at = "idle" =>
        /\ cached = code(resolve(chosen))
        /\ ~lang_lost => preference = chosen
=============================================================================
