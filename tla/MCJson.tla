-------------------------------- MODULE MCJson --------------------------------
(***************************************************************************)
(* Model values and bounds for CJsonProps.  Texts are written as bytes.    *)
(***************************************************************************)
EXTENDS CJsonProps

Leaf(type, string, number) ==
  [type |-> type, valuestring |-> string, valuedouble |-> number]
MCLeaves == {Leaf("Array", NULL, 0), Leaf("Object", NULL, 0),
             Leaf("String", <<34, 31>>, 0)}

\* a
MCNames == {<<97>>}
MCElements == {<<Leaf("String", <<34, 31>>, 0)>>}

\* All that is free is alike, and New takes any of it.
MCSymmetry == Permutations(Items)

\* {"a":"\"\u001f"} , ["x",{"a":}]
MCTexts == {<<123, 34, 97, 34, 58, 34, 92, 34, 92, 117, 48, 48, 49, 102, 34, 125>>, <<91, 34,
            120, 34, 44, 123, 34, 97, 34, 58, 125, 93>>}

Value(type, value, kids) == [type |-> type, value |-> value, kids |-> kids]

MCSamples == {
  \* {"k" :\t[ true\n,null ] }
  [text |-> <<123, 34, 107, 34, 32, 58, 9, 91, 32, 116, 114, 117, 101, 10, 44, 110, 117, 108,
            108, 32, 93, 32, 125>>,
   denotes |-> Value("Object", <<>>, {<<<<107>>, Value("Array", <<>>, {<<<<1>>, Value("True",
            <<>>, {})>>,
                                                       <<<<2>>, Value("NULL", <<>>,
            {})>>})>>})],
  \* "\u00e9\uD83d\ude00\n\/\\"
  [text |-> <<34, 92, 117, 48, 48, 101, 57, 92, 117, 68, 56, 51, 100, 92, 117, 100, 101, 48,
            48, 92, 110, 92, 47, 92, 92, 34>>,
   denotes |-> Value("String", <<195, 169, 240, 159, 152, 128, 10, 47, 92>>, {})],
  \* a byte order mark, then [-12,"",{}]
  [text |-> <<239, 187, 191, 91, 45, 49, 50, 44, 34, 34, 44, 123, 125, 93>>,
   denotes |-> Value("Array", <<>>, {<<<<1>>, Value("Number", <<-12, -12>>, {})>>, <<<<2>>,
            Value("String", <<>>, {})>>,
                                      <<<<3>>, Value("Object", <<>>, {})>>})],
  \* {"a":false,"A":999}
  [text |-> <<123, 34, 97, 34, 58, 102, 97, 108, 115, 101, 44, 34, 65, 34, 58, 57, 57, 57,
            125>>,
   denotes |-> Value("Object", <<>>, {<<<<97>>, Value("False", <<>>, {})>>, <<<<65>>,
            Value("Number", <<999, 300>>, {})>>})]}

MCFaults == {
  \* [1 2]
  [text |-> <<91, 49, 32, 50, 93>>, error |-> 3],
  \* {"a" 1}
  [text |-> <<123, 34, 97, 34, 32, 49, 125>>, error |-> 5],
  \* ["\ud83d\u0041"]
  [text |-> <<91, 34, 92, 117, 100, 56, 51, 100, 92, 117, 48, 48, 52, 49, 34, 93>>,
            error |-> 2],
  \* "\ude00"
  [text |-> <<34, 92, 117, 100, 101, 48, 48, 34>>, error |-> 1],
  \* [[[[]]]]
  [text |-> <<91, 91, 91, 91, 93, 93, 93, 93>>, error |-> 3],
  \* {"a":-}
  [text |-> <<123, 34, 97, 34, 58, 45, 125>>, error |-> 5],
  \* [1,]
  [text |-> <<91, 49, 44, 93>>, error |-> 3],
  \* {"a":1,}
  [text |-> <<123, 34, 97, 34, 58, 49, 44, 125>>, error |-> 8]}
===============================================================================
