----------------------------- MODULE MCSensors -----------------------------
(* Small instances of Sensors: three hwmon directories over which four     *)
(* devices come and go, among them an acer device whose temperature labels *)
(* are against the documented channel order and whose fans have no labels, *)
(* while one of its temperatures has the label of a fan.                   *)
EXTENDS Sensors

Coretemp == [name |-> "coretemp", inputs |-> {"temp1"},
             label |-> [temp1 |-> "Package id 0"]]
Amdgpu == [name |-> "amdgpu", inputs |-> {"temp1"}, label |-> [x \in {} |-> ""]]
Nvme == [name |-> "nvme", inputs |-> {"temp1"}, label |-> [x \in {} |-> ""]]
Acer == [name |-> "acer", inputs |-> {"temp1", "temp2", "temp3", "fan1", "fan2"},
         label |-> [temp1 |-> "GPU", temp2 |-> "CPU", temp3 |-> "CPU Fan"]]

MCPrefix == [temp1 |-> "temp", temp2 |-> "temp", temp3 |-> "temp",
              fan1 |-> "fan", fan2 |-> "fan"]
MCSlots == 1..3
MCDevices == {Coretemp, Amdgpu, Nvme, Acer}
MCTrees ==
    {t \in [MCSlots -> MCDevices \cup {NoDevice}] :
        \A s, u \in MCSlots : t[s] = t[u] => s = u \/ t[s] = NoDevice}
\* The same three devices throughout, under other numbers.
MCRenumberings ==
    {t \in MCTrees : {t[s] : s \in MCSlots} = {Coretemp, Nvme, Acer}}
=============================================================================
